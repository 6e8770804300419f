---------------------------- MODULE ShieldedScan ----------------------------
(***************************************************************************)
(* A shielded wallet following a chain it does not hold                    *)
(* (src/crates/verus-flows/src/shielded.rs): `scan`, `scan_after`,         *)
(* `ScanResult::absorb` and `ScanResult::rewind_to`, driven by the         *)
(* recovery loop that `rewind_to` documents, against a light server that   *)
(* may grow, lag, switch replica or reorganise BETWEEN ANY TWO CALLS, and  *)
(* even between two blocks of one streamed answer.                         *)
(*                                                                         *)
(* The server is the block of the tree it currently serves as its tip.     *)
(***************************************************************************)
EXTENDS BlockTree

CONSTANTS
  Birthday,     \* first height the wallet ever scans
  SCAN_CHUNK,   \* blocks per GetBlockRange call
  REORG_CHECKPOINTS, \* block hashes a ScanResult remembers
  ReportsSize,  \* TRUE when the server sends chainMetadata with its blocks
  MaxMoves,     \* bound: how often the served tip changes
  MaxFaults     \* bound: how many calls are lost or wallet restarts happen

ASSUME ParameterAssumption ==
  /\ Birthday \in Nat \ {0}
  /\ SCAN_CHUNK \in Nat \ {0}
  /\ REORG_CHECKPOINTS \in Nat \ {0}
  /\ ReportsSize \in BOOLEAN
  /\ MaxMoves \in Nat /\ MaxFaults \in Nat

-----------------------------------------------------------------------------
VARIABLES
  tip,      \* the block the light server serves as its tip
  moves,    \* how often it has changed
  faults,   \* calls lost and restarts so far
  wallet,   \* the ScanResult in memory
  disk,     \* the ScanResult last persisted
  pc,       \* where the wallet's polling code is
  target,   \* the `tip` argument of the recovery loop
  back,     \* its local `back`
  fresh,    \* TRUE while the running scan is `scan`, not `scan_after`
  tail,     \* the ScanResult the running scan is building
  base,     \* commitments before the chunk, read from GetTreeState
  got       \* blocks of the chunk received so far

serverVars == <<tip, moves>>
scanVars   == <<target, fresh, tail, base, got>>
vars == <<serverVars, faults, wallet, disk, pc, back, scanVars>>

-----------------------------------------------------------------------------
(***************************************************************************)
(* ScanResult                                                              *)
(***************************************************************************)
\* A result that has scanned nothing yet and whose first block has to descend
\* from `follows` (any block when that is NoBlock).
EmptyResult(from, follows) ==
  [from |-> from, to |-> from - 1, tip |-> follows,
   notes |-> {}, nullifiers |-> {}, checkpoints |-> {}]

\* Nothing stored yet.
NoWallet == EmptyResult(Birthday, NoBlock)

\* Keep the REORG_CHECKPOINTS most recent checkpoints.
trim_checkpoints(S) ==
  {b \in S : Cardinality({c \in S : Height[c] > Height[b]}) < REORG_CHECKPOINTS}

\* absorb refuses a gap, and a window that does not end at its own tip.
CanAbsorb(w, next) ==
  /\ next.from = w.to + 1
  /\ \/ next.to < next.from
     \/ /\ next.tip \in next.checkpoints
        /\ \A c \in next.checkpoints : Height[c] \leq next.to
        /\ Height[next.tip] = next.to

\* Mutant: only the new tip becomes a checkpoint.
absorb_TipOnly(w, next) ==
  IF next.to < next.from THEN w
  ELSE [w EXCEPT !.to = next.to, !.tip = next.tip,
                 !.notes = @ \cup next.notes,
                 !.nullifiers = @ \cup next.nullifiers,
                 !.checkpoints = trim_checkpoints(@ \cup {next.tip})]

absorb(w, next) ==
  IF next.to < next.from THEN w
  ELSE [w EXCEPT !.to          = next.to,
                 !.tip         = next.tip,
                 !.notes       = @ \cup next.notes,
                 !.nullifiers  = @ \cup next.nullifiers,
                 !.checkpoints = trim_checkpoints(@ \cup next.checkpoints)]

\* The checkpoint rewind_to(height) would land on, if the window holds one.
CheckpointAt(w, h) == {c \in w.checkpoints : Height[c] = h}

\* Mutant: a rewind keeps the nullifiers of the dead blocks.
rewind_to_KeepsNullifiers(w, h) ==
  [w EXCEPT !.to          = h,
            !.tip         = CHOOSE c \in CheckpointAt(w, h) : TRUE,
            !.notes       = {n \in @ : n.height \leq h},
            !.checkpoints = {c \in @ : Height[c] \leq h}]

rewind_to(w, h) ==
  [w EXCEPT !.to          = h,
            !.tip         = CHOOSE c \in CheckpointAt(w, h) : TRUE,
            !.notes       = {n \in @ : n.height \leq h},
            !.nullifiers  = {s \in @ : s.height \leq h},
            !.checkpoints = {c \in @ : Height[c] \leq h}]

-----------------------------------------------------------------------------
(***************************************************************************)
(* The light server                                                        *)
(***************************************************************************)
\* It mines, reorganises, or the name now resolves to another replica.
ServerMoves ==
  /\ moves < MaxMoves
  /\ \E b \in Block \ {tip} : tip' = b
  /\ moves' = moves + 1
  /\ UNCHANGED <<faults, wallet, disk, pc, back, scanVars>>

-----------------------------------------------------------------------------
(***************************************************************************)
(* The wallet                                                              *)
(***************************************************************************)
\* The call returns and its locals go with it.
Return ==
  /\ pc' = "idle"
  /\ target' = 0 /\ back' = 1 /\ fresh' = FALSE
  /\ tail' = NoWallet /\ base' = 0 /\ got' = <<>>

\* It returns an error that is neither Reorged nor acted upon.
Refused == Return /\ UNCHANGED <<serverVars, faults, wallet, disk>>

\* scan_following(from, to, follows): refused when the range runs backwards.
BeginScan(from, to, follows, isFresh) ==
  IF to < from THEN Return
  ELSE /\ pc' = "frontier"
       /\ tail' = EmptyResult(from, follows)
       /\ fresh' = isFresh /\ target' = to
       /\ UNCHANGED <<back, base, got>>

\* The application asks the server for its height and enters the loop; a
\* wallet that has no stored result scans from its birthday.
Poll ==
  /\ pc = "idle"
  /\ IF wallet.tip = NoBlock
       THEN BeginScan(Birthday, Height[tip], NoBlock, TRUE)
       ELSE /\ pc' = "loop" /\ target' = Height[tip]
            /\ UNCHANGED <<back, fresh, tail, base, got>>
  /\ UNCHANGED <<serverVars, faults, wallet, disk>>

\* scan_after: the server is behind this wallet.  NotReady, nothing rolled back.
ServerBehind ==
  /\ pc = "loop" /\ target < wallet.to
  /\ Refused

\* scan_after: nothing new.  The empty tail is absorbed.
NothingNew ==
  /\ pc = "loop" /\ target = wallet.to
  /\ wallet' = absorb(wallet, EmptyResult(wallet.to + 1, wallet.tip))
  /\ Return
  /\ UNCHANGED <<serverVars, faults, disk>>

ScanAfter ==
  /\ pc = "loop" /\ target > wallet.to
  /\ BeginScan(wallet.to + 1, target, wallet.tip, FALSE)
  /\ UNCHANGED <<serverVars, faults, wallet, disk>>

ChunkEnd == IF tail.to + SCAN_CHUNK < target THEN tail.to + SCAN_CHUNK ELSE target

\* GetTreeState(chunk_start - 1).
FetchFrontier ==
  /\ pc = "frontier" /\ Height[tip] \geq tail.to
  /\ base' = Size[At(tip, tail.to)]
  /\ got' = <<>>
  /\ pc' = "blocks"
  /\ UNCHANGED <<serverVars, faults, wallet, disk, back, target, fresh, tail>>

\* One block of the GetBlockRange stream.
ReceiveBlock ==
  LET h == tail.to + Len(got) + 1 IN
  /\ pc = "blocks" /\ h \leq ChunkEnd /\ Height[tip] \geq h
  /\ got' = Append(got, At(tip, h))
  /\ UNCHANGED <<serverVars, faults, wallet, disk, pc, back, target, fresh, tail, base>>

\* The server does not have the height it is asked for: any other error.
ServerRefuses ==
  /\ \/ pc = "frontier" /\ Height[tip] < tail.to
     \/ /\ pc = "blocks"
        /\ tail.to + Len(got) < ChunkEnd
        /\ Height[tip] < tail.to + Len(got) + 1
  /\ Refused

\* Mutant: the first block is not checked against the previous scan.
Linked_WithinTheCallOnly ==
  \A i \in DOMAIN got \ {1} : Parent[got[i]] = got[i - 1]

\* Every block names the one before it, the first one the block followed.
Linked ==
  \A i \in DOMAIN got :
     LET expected == IF i = 1 THEN tail.tip ELSE got[i - 1] IN
     expected = NoBlock \/ Parent[got[i]] = expected

\* How many outputs precede got[i] in the received run of blocks.
Offset(i) == LeavesBefore(got[i]) - LeavesBefore(got[1])

\* The server's own counter, when it sends one, against frontier + outputs.
SizeAgrees ==
  ReportsSize => LET n == Len(got) IN
                 Size[got[n]] = base + Offset(n) + Len(Outs[got[n]])

ScannedTail ==
  [tail EXCEPT
     !.to          = ChunkEnd,
     !.tip         = got[Len(got)],
     !.notes       = @ \cup UNION {NotesAt(got[i], base + Offset(i)) : i \in DOMAIN got},
     !.nullifiers  = @ \cup NullsOf({got[i] : i \in DOMAIN got}),
     !.checkpoints = trim_checkpoints(@ \cup {got[i] : i \in DOMAIN got})]

ChunkReceived == pc = "blocks" /\ tail.to + Len(got) = ChunkEnd

ChunkReorged ==
  /\ ChunkReceived /\ ~Linked
  /\ IF fresh THEN Return
     ELSE /\ pc' = "reorged" /\ fresh' = FALSE
          /\ tail' = NoWallet /\ base' = 0 /\ got' = <<>>
          /\ UNCHANGED <<target, back>>
  /\ UNCHANGED <<serverVars, faults, wallet, disk>>

ChunkMiscounted ==
  /\ ChunkReceived /\ Linked /\ ~SizeAgrees
  /\ Refused

ChunkScanned ==
  /\ ChunkReceived /\ Linked /\ SizeAgrees
  /\ tail' = ScannedTail
  /\ pc' = IF ChunkEnd = target THEN "scanned" ELSE "frontier"
  /\ base' = 0 /\ got' = <<>>
  /\ UNCHANGED <<serverVars, faults, wallet, disk, back, target, fresh>>

\* A first scan IS the wallet; a continuation is folded in by absorb.
Absorb ==
  /\ pc = "scanned"
  /\ IF fresh THEN wallet' = tail
     ELSE IF CanAbsorb(wallet, tail) THEN wallet' = absorb(wallet, tail)
     ELSE UNCHANGED wallet
  /\ Return
  /\ UNCHANGED <<serverVars, faults, disk>>

RewindTarget == IF wallet.to > back THEN wallet.to - back ELSE 0

\* The loop's Reorged arm: rewind_to(to.saturating_sub(back))?; back *= 2.
Rewind ==
  /\ pc = "reorged" /\ CheckpointAt(wallet, RewindTarget) # {}
  /\ wallet' = rewind_to(wallet, RewindTarget)
  /\ back' = 2 * back
  /\ pc' = "loop"
  /\ UNCHANGED <<serverVars, faults, disk, scanVars>>

\* Mutant: running out of checkpoints is reported and nothing is done.
RunOut_Stops ==
  /\ pc = "reorged" /\ CheckpointAt(wallet, RewindTarget) = {}
  /\ Return
  /\ UNCHANGED <<serverVars, faults, wallet, disk>>

\* rewind_to found no checkpoint; the documented answer is a fresh scan.
RunOut ==
  /\ pc = "reorged" /\ CheckpointAt(wallet, RewindTarget) = {}
  /\ pc' = "exhausted"
  /\ UNCHANGED <<serverVars, faults, wallet, disk, back, scanVars>>

Rescan ==
  /\ pc = "exhausted"
  /\ BeginScan(Birthday, Height[tip], NoBlock, TRUE)
  /\ UNCHANGED <<serverVars, faults, wallet, disk>>

\* The documented advice is not to persist inside the loop.
Persist ==
  /\ pc = "idle" /\ wallet # disk
  /\ disk' = wallet
  /\ UNCHANGED <<serverVars, faults, wallet, pc, back, scanVars>>

\* A call is lost; the loop returns Err(other), a rewound wallet stays rewound.
CallFails ==
  /\ pc \in {"frontier", "blocks"} /\ faults < MaxFaults
  /\ faults' = faults + 1
  /\ Return
  /\ UNCHANGED <<serverVars, wallet, disk>>

\* The process stops anywhere and reloads what it persisted.
Restart ==
  /\ faults < MaxFaults
  /\ faults' = faults + 1
  /\ wallet' = disk
  /\ Return
  /\ UNCHANGED <<serverVars, disk>>

-----------------------------------------------------------------------------
Init ==
  /\ tip \in Block /\ moves = 0 /\ faults = 0
  /\ wallet = NoWallet /\ disk = NoWallet
  /\ pc = "idle" /\ target = 0 /\ back = 1 /\ fresh = FALSE
  /\ tail = NoWallet /\ base = 0 /\ got = <<>>

Wallet ==
  \/ Poll \/ ServerBehind \/ NothingNew \/ ScanAfter
  \/ FetchFrontier \/ ReceiveBlock \/ ServerRefuses
  \/ ChunkReorged \/ ChunkMiscounted \/ ChunkScanned
  \/ Absorb \/ Rewind \/ RunOut \/ Rescan

Next == ServerMoves \/ Wallet \/ Persist \/ CallFails \/ Restart

Spec == Init /\ [][Next]_vars

\* A wallet keeps polling; a call that can be answered is answered.  Nothing
\* is promised about the server moving, about faults, or about persisting.
FairSpec == Spec /\ WF_vars(Wallet)

-----------------------------------------------------------------------------
(***************************************************************************)
(* Properties                                                              *)
(***************************************************************************)
Scanned(w) == w.tip # NoBlock

ResultType ==
  [from : Nat, to : Nat, tip : Block \cup {NoBlock},
   notes : SUBSET [note : Mine, height : Nat, position : Nat],
   nullifiers : SUBSET [height : Nat, nullifier : UNION {Nulls[b] : b \in Block}],
   checkpoints : SUBSET Block]

\* Every variable holds a value the code's types allow.
TypeOK ==
  /\ tip \in Block /\ moves \in 0..MaxMoves /\ faults \in 0..MaxFaults
  /\ wallet \in ResultType /\ disk \in ResultType /\ tail \in ResultType
  /\ pc \in {"idle", "loop", "frontier", "blocks", "reorged", "scanned", "exhausted"}
  /\ target \in Nat /\ back \in Nat \ {0} /\ fresh \in BOOLEAN
  /\ base \in Nat /\ got \in Seq(Block)

\* The blocks of w's own chain that w covers.
Covered(w) == {b \in Chain[w.tip] : w.from \leq Height[b] /\ Height[b] \leq w.to}

\* A result says exactly what its own chain says: each note of each covered
\* block at its true tree position, each nullifier of each covered block,
\* and nothing from any other fork.
Exact(w) ==
  Scanned(w) =>
    /\ w.to = Height[w.tip]
    /\ w.notes = NotesOf(Covered(w))
    /\ w.nullifiers = NullsOf(Covered(w))

\* However reorgs, lost calls, rewinds, restarts and streamed answers
\* interleave, the state in memory and on disk is what ONE uninterrupted scan
\* of ONE chain would have produced: no position shifted by a dead block, no
\* nullifier of a dead block kept, none of a live block lost.
WalletIsExact == Exact(wallet) /\ Exact(disk)

\* The window rewind_to trusts holds only blocks of the wallet's own chain,
\* ends at its tip, is bounded, and has no holes: every height from the oldest
\* checkpoint up can be rewound to, so the search of the recovery loop cannot
\* skip past one.
CheckpointsDescribeTheWallet ==
  Scanned(wallet) =>
    /\ wallet.checkpoints \subseteq Covered(wallet)
    /\ wallet.tip \in wallet.checkpoints
    /\ Cardinality(wallet.checkpoints) \leq REORG_CHECKPOINTS
    /\ \A c, d \in wallet.checkpoints : \A h \in Height[c]..Height[d] : CheckpointAt(wallet, h) # {}

\* In one step the wallet moves along ONE chain: forward to a descendant or back
\* to an ancestor.  It changes fork only through an ancestor of both, through a
\* fresh scan, or by reloading what was persisted.
MovesAlongOneChain ==
  [][Scanned(wallet) /\ Scanned(wallet') =>
        \/ wallet.tip \in Chain[wallet'.tip]
        \/ wallet'.tip \in Chain[wallet.tip]
        \/ pc = "scanned" /\ fresh
        \/ wallet' = disk]_wallet

\* What Follower says of a wallet: where it is, what it knows, and whether it
\* is beginning again.
ChainSays ==
  LET known(b) == {c \in Chain[b] : Height[c] \geq Birthday}
  IN [b \in Block |-> [notes |-> NotesOf(known(b)), nullifiers |-> NullsOf(known(b))]]
ViewOf(w) == [at |-> w.tip, says |-> [notes |-> w.notes, nullifiers |-> w.nullifiers]]
Lost == pc = "exhausted" \/ (fresh /\ pc \in {"frontier", "blocks", "scanned"})

F == INSTANCE Follower WITH
  Blocks <- Block, Ancestors <- Chain, Says <- ChainSays,
  Nothing <- [notes |-> {}, nullifiers |-> {}],
  view <- ViewOf(wallet), kept <- ViewOf(disk), lost <- Lost

\* scan, scan_after, absorb and rewind_to, over a server that changes under
\* every call, keep Follower's promise.
FollowsOneChain == F!Spec

\* The one longest chain of the tree.
Longest == CHOOSE b \in Block : \A c \in Block \ {b} : Height[c] < Height[b]

\* Once the server settles on the longest chain, every wallet - stale,
\* rewound, restarted or run out of checkpoints - ends up exactly there.
CatchesUp == <>[](tip = Longest) => <>[](wallet.tip = Longest)
=============================================================================
