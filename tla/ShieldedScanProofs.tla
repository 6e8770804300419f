------------------------- MODULE ShieldedScanProofs -------------------------
(***************************************************************************)
(* A wallet whose server sends chainMetadata never holds anything but what *)
(* one uninterrupted scan of one chain would have given it, for every      *)
(* block tree, chunk size, window, and number of reorgs and faults.        *)
(***************************************************************************)
EXTENDS ShieldedScan, FiniteSetTheorems, TLAPS

-----------------------------------------------------------------------------
(***************************************************************************)
(* Chains                                                                  *)
(***************************************************************************)

\* An ancestor's chain is the lower part of a chain, and every block but
\* genesis extends its parent's.
LEMMA ChainSplit ==
  ASSUME NEW b \in Block, NEW c \in Chain[b]
  PROVE  /\ c \in Block
         /\ Chain[c] = {x \in Chain[b] : Height[x] \leq Height[c]}
<1>1. c \in Block /\ Chain[b] \subseteq Block /\ Chain[c] \subseteq Chain[b]
  BY ChainAssumption
<1>2. ASSUME NEW x \in Chain[c] PROVE Height[x] \leq Height[c]
  BY <1>1, ChainAssumption
<1>3. ASSUME NEW x \in Chain[b], Height[x] \leq Height[c] PROVE x \in Chain[c]
  <2>1. Height[x] \in 0..Height[c]
    BY <1>1, <1>3, ChainAssumption
  <2>2. PICK y \in Chain[c] : Height[y] = Height[x]
    BY <1>1, <2>1, ChainAssumption
  <2>3. y = x
    BY <1>1, <2>2, ChainAssumption
  <2> QED BY <2>3
<1> QED BY <1>1, <1>2, <1>3

\* A block is the last of its own chain, and nothing in it is higher.
LEMMA ChainEnd ==
  ASSUME NEW b \in Block
  PROVE  /\ b \in Chain[b]
         /\ Height[b] \in Nat
         /\ Chain[b] \subseteq Block
         /\ \A x \in Chain[b] : Height[x] \in Nat /\ Height[x] \leq Height[b]
BY ChainAssumption

\* At(b, h) is the block of b's chain at that height.
LEMMA AtIsThere ==
  ASSUME NEW b \in Block, NEW h \in 0..Height[b]
  PROVE  At(b, h) \in Chain[b] /\ At(b, h) \in Block /\ Height[At(b, h)] = h
<1>1. \E c \in Chain[b] : Height[c] = h
  BY ChainAssumption
<1>2. At(b, h) \in Chain[b] /\ Height[At(b, h)] = h
  BY <1>1 DEF At
<1> QED BY <1>2, ChainEnd

\* A child's chain is its parent's plus itself.
LEMMA ChildExtends ==
  ASSUME NEW b \in Block, Height[b] > 0
  PROVE  /\ Parent[b] \in Block
         /\ Height[b] = Height[Parent[b]] + 1
         /\ Chain[b] = Chain[Parent[b]] \cup {b}
         /\ Size[b] = LeavesBefore(b) + Len(Outs[b])
<1>1. b # Genesis
  BY ChainAssumption
<1> QED BY <1>1, ChainAssumption, TreeAssumption DEF LeavesBefore

LEMMA BeforeType ==
  ASSUME NEW b \in Block
  PROVE  LeavesBefore(b) \in Nat /\ Size[b] \in Nat
BY ChainAssumption DEF LeavesBefore

\* The notes and nullifiers of a block carry its height and are well formed.
LEMMA NotesAtType ==
  ASSUME NEW b \in Block, NEW first \in Nat
  PROVE  /\ NotesAt(b, first) \subseteq [note : Mine, height : Nat, position : Nat]
         /\ \A n \in NotesAt(b, first) : n.height = Height[b]
<1>1. \A j \in DOMAIN Outs[b] : j \in Nat /\ j \geq 1
  BY TreeAssumption
<1> QED BY <1>1, ChainEnd DEF NotesAt

LEMMA NullsAtType ==
  ASSUME NEW b \in Block
  PROVE  /\ NullsAt(b) \subseteq [height : Nat, nullifier : UNION {Nulls[c] : c \in Block}]
         /\ \A s \in NullsAt(b) : s.height = Height[b]
BY ChainEnd DEF NullsAt

LEMMA OfType ==
  ASSUME NEW S \in SUBSET Block
  PROVE  /\ NotesOf(S) \subseteq [note : Mine, height : Nat, position : Nat]
         /\ NullsOf(S) \subseteq [height : Nat, nullifier : UNION {Nulls[b] : b \in Block}]
<1>1. ASSUME NEW n \in NotesOf(S) PROVE n \in [note : Mine, height : Nat, position : Nat]
  <2>1. PICK b \in S : n \in NotesAt(b, LeavesBefore(b))
    BY <1>1 DEF NotesOf
  <2> QED BY <2>1, NotesAtType, BeforeType
<1>2. ASSUME NEW s \in NullsOf(S)
      PROVE  s \in [height : Nat, nullifier : UNION {Nulls[b] : b \in Block}]
  <2>1. PICK b \in S : s \in NullsAt(b)
    BY <1>2 DEF NullsOf
  <2> QED BY <2>1, NullsAtType
<1> QED BY <1>1, <1>2

LEMMA OfUnion ==
  ASSUME NEW S \in SUBSET Block, NEW T \in SUBSET Block
  PROVE  /\ NotesOf(S \cup T) = NotesOf(S) \cup NotesOf(T)
         /\ NullsOf(S \cup T) = NullsOf(S) \cup NullsOf(T)
BY DEF NotesOf, NullsOf

LEMMA OfEmpty == NotesOf({}) = {} /\ NullsOf({}) = {}
BY DEF NotesOf, NullsOf

\* Dropping everything above a height leaves what the blocks up to it gave.
LEMMA OfBelow ==
  ASSUME NEW S \in SUBSET Block, NEW h \in Nat
  PROVE  LET T == {b \in S : Height[b] \leq h} IN
         /\ {n \in NotesOf(S) : n.height \leq h} = NotesOf(T)
         /\ {s \in NullsOf(S) : s.height \leq h} = NullsOf(T)
<1> DEFINE T == {b \in S : Height[b] \leq h}
<1>1. ASSUME NEW n
      PROVE  n \in NotesOf(S) /\ n.height \leq h <=> n \in NotesOf(T)
  <2>1. \A b \in S : n \in NotesAt(b, LeavesBefore(b)) => n.height = Height[b]
    BY NotesAtType, BeforeType
  <2> QED BY <2>1 DEF NotesOf
<1>2. ASSUME NEW s
      PROVE  s \in NullsOf(S) /\ s.height \leq h <=> s \in NullsOf(T)
  <2>1. \A b \in S : s \in NullsAt(b) => s.height = Height[b]
    BY NullsAtType
  <2> QED BY <2>1 DEF NullsOf
<1> QED BY <1>1, <1>2

\* Trimming keeps a subset that still holds the most recent checkpoint.
LEMMA TrimKeepsTheTop ==
  ASSUME NEW S \in SUBSET Block, NEW t \in S, \A c \in S : Height[c] \leq Height[t]
  PROVE  trim_checkpoints(S) \subseteq S /\ t \in trim_checkpoints(S)
<1>1. {c \in S : Height[c] > Height[t]} = {}
  BY ChainAssumption
<1>2. Cardinality({c \in S : Height[c] > Height[t]}) = 0
  BY <1>1, FS_EmptySet
<1> QED BY <1>2, ParameterAssumption DEF trim_checkpoints

-----------------------------------------------------------------------------
(***************************************************************************)
(* The inductive invariant                                                 *)
(***************************************************************************)

\* A result that has scanned something: exact, with a window of its own chain.
Sound(w) ==
  /\ w.tip \in Block
  /\ w.to = Height[w.tip] /\ w.from \leq w.to
  /\ w.notes = NotesOf(Covered(w))
  /\ w.nullifiers = NullsOf(Covered(w))
  /\ w.checkpoints \subseteq Covered(w)
  /\ w.tip \in w.checkpoints

\* What a wallet holds, in memory or on disk.
Holds(w) ==
  /\ w.from = Birthday
  /\ IF w.tip = NoBlock THEN w = NoWallet ELSE Sound(w)

\* A running scan starts where it should and, once it has a chunk, descends
\* from what it continues.
TailInv ==
  pc \in {"frontier", "blocks", "scanned"} =>
    /\ tail.from \geq 1 /\ tail.to \leq target
    /\ pc \in {"frontier", "blocks"} => tail.to < target
    /\ fresh => tail.from = Birthday
    /\ ~fresh => Scanned(wallet) /\ tail.from = wallet.to + 1
    /\ \/ /\ pc # "scanned"
          /\ tail = EmptyResult(tail.from, IF fresh THEN NoBlock ELSE wallet.tip)
       \/ /\ Sound(tail)
          /\ ~fresh => wallet.tip \in Chain[tail.tip]

\* The first k received blocks follow one another and what came before.
LinkedUpTo(k) ==
  \A i \in 1..k :
     LET expected == IF i = 1 THEN tail.tip ELSE got[i - 1] IN
     expected = NoBlock \/ Parent[got[i]] = expected

\* Linked blocks are all on the chain of the last of them.
GotInv ==
  pc = "blocks" =>
    /\ Len(got) \leq ChunkEnd - tail.to
    /\ \A k \in DOMAIN got :
         /\ Height[got[k]] = tail.to + k
         /\ LinkedUpTo(k) =>
              /\ \A i \in 1..k : got[i] \in Chain[got[k]]
              /\ tail.tip # NoBlock => tail.tip \in Chain[got[k]]

InLoop == pc \in {"loop", "reorged", "exhausted"} => Scanned(wallet)

IInv ==
  /\ TypeOK
  /\ Holds(wallet) /\ Holds(disk)
  /\ TailInv /\ GotInv /\ InLoop

-----------------------------------------------------------------------------
(***************************************************************************)
(* Results                                                                 *)
(***************************************************************************)

LEMMA EmptyResultType ==
  ASSUME NEW from \in Nat, from \geq 1, NEW follows \in Block \cup {NoBlock}
  PROVE  EmptyResult(from, follows) \in ResultType
BY DEF EmptyResult, ResultType

LEMMA NoWalletHolds == NoWallet \in ResultType /\ Holds(NoWallet)
<1>1. NoWallet \in ResultType
  BY EmptyResultType, ParameterAssumption DEF NoWallet
<1> QED BY <1>1, ParameterAssumption DEF NoWallet, EmptyResult, Holds

LEMMA CoveredType ==
  ASSUME NEW w \in ResultType, w.tip \in Block
  PROVE  Covered(w) \subseteq Block
BY ChainEnd DEF Covered

\* Replacing every field but `from` by one of its type.
LEMMA UpdateType ==
  ASSUME NEW w \in ResultType, NEW a \in Nat, NEW b \in Block \cup {NoBlock},
         NEW N \in SUBSET [note : Mine, height : Nat, position : Nat],
         NEW S \in SUBSET [height : Nat, nullifier : UNION {Nulls[d] : d \in Block}],
         NEW C \in SUBSET Block
  PROVE  [w EXCEPT !.to = a, !.tip = b, !.notes = N, !.nullifiers = S,
                   !.checkpoints = C] \in ResultType
BY DEF ResultType

\* rewind_to lands on an exact result for the earlier block.
LEMMA RewindSound ==
  ASSUME NEW w \in ResultType, Sound(w), NEW h \in Nat, CheckpointAt(w, h) # {}
  PROVE  /\ rewind_to(w, h) \in ResultType
         /\ Sound(rewind_to(w, h))
         /\ rewind_to(w, h).from = w.from
<1> DEFINE c == CHOOSE d \in CheckpointAt(w, h) : TRUE
           r == rewind_to(w, h)
<1>1. c \in w.checkpoints /\ Height[c] = h
  BY DEF CheckpointAt
<1>2. /\ r.from = w.from /\ r.to = h /\ r.tip = c
      /\ r.notes = {n \in w.notes : n.height \leq h}
      /\ r.nullifiers = {s \in w.nullifiers : s.height \leq h}
      /\ r.checkpoints = {d \in w.checkpoints : Height[d] \leq h}
  BY DEF rewind_to, ResultType
<1> HIDE DEF c, r
<1>3. c \in Chain[w.tip] /\ w.from \leq h /\ h \leq w.to
  BY <1>1 DEF Sound, Covered
<1>4. c \in Block /\ Chain[c] = {x \in Chain[w.tip] : Height[x] \leq h}
  BY <1>1, <1>3, ChainSplit DEF Sound
<1>5. r \in ResultType
  <2>1. /\ {n \in w.notes : n.height \leq h}
              \in SUBSET [note : Mine, height : Nat, position : Nat]
        /\ {s \in w.nullifiers : s.height \leq h}
              \in SUBSET [height : Nat, nullifier : UNION {Nulls[b] : b \in Block}]
        /\ {d \in w.checkpoints : Height[d] \leq h} \in SUBSET Block
    BY DEF ResultType
  <2> QED BY <1>4, <2>1, UpdateType DEF r, c, rewind_to
<1>6. Covered(r) = {b \in Covered(w) : Height[b] \leq h}
  BY <1>3, <1>4, <1>2, ChainEnd DEF Covered, Sound, ResultType
<1>7. r.notes = NotesOf(Covered(r)) /\ r.nullifiers = NullsOf(Covered(r))
  BY <1>2, <1>6, OfBelow, CoveredType DEF Sound
<1>8. r.checkpoints \subseteq Covered(r) /\ c \in r.checkpoints
  BY <1>1, <1>2, <1>6 DEF Sound, ResultType
<1>9. Sound(r)
  BY <1>1, <1>3, <1>4, <1>2, <1>7, <1>8 DEF Sound
<1> QED BY <1>2, <1>5, <1>9 DEF r

\* absorb joins an exact result and an exact continuation of it.
LEMMA AbsorbSound ==
  ASSUME NEW w \in ResultType, Sound(w), NEW t \in ResultType, Sound(t),
         t.from = w.to + 1, w.tip \in Chain[t.tip]
  PROVE  /\ absorb(w, t) \in ResultType
         /\ Sound(absorb(w, t))
         /\ absorb(w, t).from = w.from
<1> DEFINE r == absorb(w, t)
<1>1. ~(t.to < t.from) /\ t.to \in Nat /\ t.from \in Nat /\ w.to \in Nat /\ w.from \in Nat
  BY DEF Sound, ResultType
<1>2. /\ r.from = w.from /\ r.to = t.to /\ r.tip = t.tip
      /\ r.notes = w.notes \cup t.notes
      /\ r.nullifiers = w.nullifiers \cup t.nullifiers
      /\ r.checkpoints = trim_checkpoints(w.checkpoints \cup t.checkpoints)
  BY <1>1 DEF absorb, ResultType
<1>3. Covered(r) = Covered(w) \cup Covered(t)
  <2>1. Chain[w.tip] = {x \in Chain[t.tip] : Height[x] \leq w.to}
    BY ChainSplit DEF Sound
  <2>2. \A x \in Chain[t.tip] : Height[x] \in Nat
    BY ChainEnd DEF Sound
  <2> QED BY <1>1, <1>2, <2>1, <2>2 DEF Covered, Sound
<1>4. Covered(w) \subseteq Block /\ Covered(t) \subseteq Block
  BY CoveredType DEF Sound
<1>5. r.notes = NotesOf(Covered(r)) /\ r.nullifiers = NullsOf(Covered(r))
  BY <1>2, <1>3, <1>4, OfUnion, SMTT(30) DEF Sound
<1> DEFINE S == w.checkpoints \cup t.checkpoints
<1>6. S \subseteq Covered(r) /\ S \subseteq Block /\ t.tip \in S
  BY <1>3, <1>4 DEF Sound
<1>7. \A c \in S : Height[c] \leq Height[t.tip]
  BY <1>2, <1>6 DEF Covered, Sound
<1>8. trim_checkpoints(S) \subseteq S /\ t.tip \in trim_checkpoints(S)
  BY <1>6, <1>7, TrimKeepsTheTop
<1>9. r.checkpoints \subseteq Covered(r) /\ r.tip \in r.checkpoints
  BY <1>2, <1>6, <1>8
<1>10. r \in ResultType
  BY <1>1, <1>6, <1>8 DEF absorb, ResultType
<1>11. Sound(r)
  BY <1>1, <1>2, <1>5, <1>9, SMTT(30) DEF Sound
<1> QED BY <1>2, <1>10, <1>11

-----------------------------------------------------------------------------
(***************************************************************************)
(* The chunk being received                                                *)
(***************************************************************************)

\* A chunk that links to its predecessors and whose count agrees with the
\* server's own extends the tail exactly, whichever forks GetTreeState and
\* the stream of blocks were answered from.
LEMMA ChunkSound ==
  ASSUME IInv, ReportsSize, ChunkReceived, Linked, SizeAgrees
  PROVE  /\ ScannedTail \in ResultType
         /\ Sound(ScannedTail)
         /\ ScannedTail.from = tail.from /\ ScannedTail.to = ChunkEnd
         /\ ~fresh => wallet.tip \in Chain[ScannedTail.tip]
<1> DEFINE n == Len(got)
           S == {got[i] : i \in 1..n}
           old == IF tail.to < tail.from THEN {} ELSE Covered(tail)
           r == ScannedTail
<1>1. /\ tail \in ResultType /\ tail.to \in Nat /\ tail.from \in Nat
      /\ got \in Seq(Block) /\ target \in Nat /\ base \in Nat
  BY DEF IInv, TypeOK, ResultType
<1>2. /\ n \in Nat /\ DOMAIN got = 1..n /\ \A i \in 1..n : got[i] \in Block
  BY <1>1
<1>3. /\ n \geq 1 /\ ChunkEnd = tail.to + n /\ ChunkEnd \in Nat
      /\ \A i \in 1..n : Height[got[i]] = tail.to + i
  <2>1. tail.to < target
    BY DEF IInv, TailInv, ChunkReceived
  <2>2. ChunkEnd \in Nat /\ ChunkEnd > tail.to
    BY <1>1, <2>1, ParameterAssumption DEF ChunkEnd
  <2>3. tail.to + n = ChunkEnd
    BY DEF ChunkReceived
  <2>4. \A i \in 1..n : Height[got[i]] = tail.to + i
    BY <1>2 DEF IInv, GotInv, ChunkReceived
  <2> QED BY <1>1, <1>2, <2>2, <2>3, <2>4
<1> DEFINE g == got[n]
<1>4. LinkedUpTo(n)
  BY <1>2 DEF Linked, LinkedUpTo
<1>5. /\ \A i \in 1..n : got[i] \in Chain[g]
      /\ tail.tip # NoBlock => tail.tip \in Chain[g]
      /\ g \in Block /\ Height[g] = ChunkEnd
  BY <1>2, <1>3, <1>4 DEF IInv, GotInv, ChunkReceived
<1>6. base = LeavesBefore(got[1])
  <2>1. Size[g] = LeavesBefore(g) + Len(Outs[g]) /\ Size[g] \in Nat /\ LeavesBefore(g) \in Nat
    BY <1>1, <1>3, <1>5, ChildExtends, BeforeType, SMTT(30)
  <2>2. LeavesBefore(got[1]) \in Nat /\ Len(Outs[g]) \in Nat
    BY <1>2, <1>3, <1>5, BeforeType, TreeAssumption
  <2>3. Size[g] = base + (LeavesBefore(g) - LeavesBefore(got[1])) + Len(Outs[g])
    BY DEF SizeAgrees, Offset
  <2> QED BY <1>1, <2>1, <2>2, <2>3, SMTT(30)
<1>7. \A i \in 1..n : base + Offset(i) = LeavesBefore(got[i])
  BY <1>2, <1>3, <1>6, BeforeType DEF Offset
<1>8. UNION {NotesAt(got[i], base + Offset(i)) : i \in DOMAIN got} = NotesOf(S)
  BY <1>2, <1>7 DEF NotesOf
<1>9. {got[i] : i \in DOMAIN got} = S
  BY <1>2
<1>10. /\ r.from = tail.from /\ r.to = ChunkEnd /\ r.tip = g
       /\ r.notes = tail.notes \cup NotesOf(S)
       /\ r.nullifiers = tail.nullifiers \cup NullsOf(S)
       /\ r.checkpoints = trim_checkpoints(tail.checkpoints \cup S)
  BY <1>1, <1>8, <1>9 DEF ScannedTail, ResultType
<1> HIDE DEF S, r, g
<1>11. /\ tail.notes = NotesOf(old) /\ tail.nullifiers = NullsOf(old)
       /\ tail.checkpoints \subseteq old /\ old \subseteq Block
       /\ tail.from \leq tail.to + 1
  <2>1. CASE tail = EmptyResult(tail.from, IF fresh THEN NoBlock ELSE wallet.tip)
    <3>1. /\ tail.to = tail.from - 1 /\ tail.notes = {}
          /\ tail.nullifiers = {} /\ tail.checkpoints = {}
      BY <2>1 DEF EmptyResult
    <3>2. old = {} /\ tail.from \leq tail.to + 1
      BY <1>1, <3>1
    <3> QED BY <3>1, <3>2, OfEmpty
  <2>2. CASE Sound(tail)
    BY <1>1, <2>2, CoveredType DEF Sound
  <2> QED BY <2>1, <2>2 DEF IInv, TailInv, ChunkReceived
<1>12. Covered(r) = old \cup S
  <2>1. \A x \in Chain[g] : Height[x] \in Nat
    BY <1>5, ChainEnd
  <2>2. S \subseteq Covered(r)
    BY <1>3, <1>5, <1>10, <1>11, <1>1, <1>2 DEF Covered, S
  <2>3. ASSUME NEW x \in Covered(r), Height[x] > tail.to PROVE x \in S
    <3>1. x \in Chain[g] /\ Height[x] - tail.to \in 1..n
      BY <1>1, <1>2, <1>3, <1>10, <2>1, <2>3 DEF Covered
    <3>2. got[Height[x] - tail.to] \in Chain[g]
          /\ Height[got[Height[x] - tail.to]] = Height[x]
      BY <1>1, <1>3, <1>5, <2>1, <3>1, SMTT(30)
    <3>3. x = got[Height[x] - tail.to]
      BY <1>5, <3>1, <3>2, ChainAssumption
    <3> QED BY <3>1, <3>3 DEF S
  <2>4. {x \in Covered(r) : Height[x] \leq tail.to} = old
    <3>1. CASE tail.to < tail.from
      BY <1>1, <1>10, <2>1, <3>1 DEF Covered
    <3>2. CASE ~(tail.to < tail.from)
      <4>1. Sound(tail)
        BY <1>1, <3>2 DEF IInv, TailInv, ChunkReceived, EmptyResult
      <4>2. tail.tip \in Chain[g]
        BY <1>5, <4>1, ChainAssumption DEF Sound
      <4>3. Chain[tail.tip] = {x \in Chain[g] : Height[x] \leq tail.to}
        BY <1>5, <4>1, <4>2, ChainSplit DEF Sound
      <4> QED BY <1>1, <1>3, <1>10, <2>1, <3>2, <4>1, <4>3 DEF Covered
    <3> QED BY <3>1, <3>2
  <2> QED BY <1>1, <1>5, <1>10, <2>1, <2>2, <2>3, <2>4 DEF Covered
<1>13. S \subseteq Block
  BY <1>2 DEF S
<1>14. r.notes = NotesOf(Covered(r)) /\ r.nullifiers = NullsOf(Covered(r))
  BY <1>10, <1>11, <1>12, <1>13, OfUnion
<1>15. r.checkpoints \subseteq Covered(r) /\ g \in r.checkpoints
  <2>1. g \in S
    BY <1>2, <1>3 DEF S, g
  <2>2. \A c \in Covered(r) : Height[c] \leq Height[g]
    BY <1>5, <1>10 DEF Covered
  <2> DEFINE T == tail.checkpoints \cup S
  <2>3. T \subseteq Covered(r) /\ T \subseteq Block /\ g \in T
    BY <1>11, <1>12, <1>13, <2>1
  <2>4. trim_checkpoints(T) \subseteq T /\ g \in trim_checkpoints(T)
    BY <2>2, <2>3, TrimKeepsTheTop
  <2> QED BY <1>10, <2>3, <2>4
<1>16. Sound(r)
  <2>1. r.tip \in Block /\ r.to = Height[r.tip] /\ r.tip \in r.checkpoints
    BY <1>5, <1>10, <1>15 DEF g
  <2>2. r.from \leq r.to
    BY <1>1, <1>2, <1>3, <1>10, <1>11
  <2> QED BY <1>14, <1>15, <2>1, <2>2 DEF Sound
<1>17. r \in ResultType
  <2>1. Covered(r) \subseteq Block
    BY <1>11, <1>12, <1>13
  <2>2. /\ r.notes \in SUBSET [note : Mine, height : Nat, position : Nat]
        /\ r.nullifiers \in SUBSET [height : Nat, nullifier : UNION {Nulls[b] : b \in Block}]
        /\ r.checkpoints \in SUBSET Block
    BY <1>14, <1>15, <2>1, OfType
  <2>3. r = [tail EXCEPT !.to = ChunkEnd, !.tip = g, !.notes = r.notes,
                         !.nullifiers = r.nullifiers, !.checkpoints = r.checkpoints]
    BY <1>1, <1>8, <1>9, <1>10 DEF ScannedTail, r, g, S, ResultType
  <2>4. ChunkEnd \in Nat /\ g \in Block \cup {NoBlock}
    BY <1>3, <1>5 DEF g
  <2>5. [tail EXCEPT !.to = ChunkEnd, !.tip = g, !.notes = r.notes,
                     !.nullifiers = r.nullifiers, !.checkpoints = r.checkpoints]
          \in ResultType
    BY <1>1, <2>2, <2>4, UpdateType
  <2> QED BY <2>3, <2>5
<1>18. ASSUME ~fresh PROVE wallet.tip \in Chain[g]
  <2>1. wallet.tip \in Chain[tail.tip] /\ tail.tip \in Block
    BY <1>18, ChainEnd DEF IInv, TailInv, ChunkReceived, EmptyResult, Sound, Scanned,
       TypeOK, ResultType
  <2>2. tail.tip \in Chain[g]
    BY <1>5, <2>1, ChainAssumption
  <2> QED BY <1>5, <2>1, <2>2, ChainAssumption, SMTT(30)
<1> QED BY <1>10, <1>16, <1>17, <1>18 DEF r

-----------------------------------------------------------------------------
(***************************************************************************)
(* The invariant is inductive                                              *)
(***************************************************************************)

LEMMA InitIInv == Init => IInv
<1> SUFFICES ASSUME Init PROVE IInv
  OBVIOUS
<1>1. NoWallet \in ResultType /\ Holds(NoWallet)
  BY NoWalletHolds
<1>2. TypeOK
  <2>1. moves \in 0..MaxMoves /\ faults \in 0..MaxFaults /\ back \in Nat \ {0}
        /\ got \in Seq(Block)
    BY ParameterAssumption DEF Init
  <2>2. fresh \in BOOLEAN
    BY Zenon DEF Init
  <2> QED BY <1>1, <2>1, <2>2 DEF Init, TypeOK
<1> QED BY <1>1, <1>2 DEF Init, IInv, TailInv, GotInv, InLoop

\* A call that returns leaves no scan behind, so only what it leaves in
\* memory and on disk matters.
LEMMA ReturnKeeps ==
  ASSUME Return, tip' \in Block, moves' \in 0..MaxMoves, faults' \in 0..MaxFaults,
         wallet' \in ResultType, Holds(wallet'), disk' \in ResultType, Holds(disk')
  PROVE  IInv'
<1>1. TypeOK'
  <2>1. fresh' \in BOOLEAN
    BY Zenon DEF Return
  <2>2. back' \in Nat \ {0} /\ got' \in Seq(Block) /\ base' \in Nat /\ target' \in Nat
    BY DEF Return
  <2> QED BY <2>1, <2>2, NoWalletHolds DEF Return, TypeOK
<1>2. TailInv' /\ GotInv' /\ InLoop'
  BY DEF Return, TailInv, GotInv, InLoop
<1> QED BY <1>1, <1>2 DEF IInv

LEMMA BeginScanKeeps ==
  ASSUME IInv, UNCHANGED <<serverVars, faults, wallet, disk>>,
         NEW from \in Nat, from \geq 1, NEW to \in Nat,
         NEW follows \in Block \cup {NoBlock}, NEW isFresh \in BOOLEAN,
         BeginScan(from, to, follows, isFresh),
         isFresh => from = Birthday /\ follows = NoBlock,
         ~isFresh => Scanned(wallet) /\ from = wallet.to + 1 /\ follows = wallet.tip
  PROVE  IInv'
<1>1. CASE to < from
  BY <1>1, ReturnKeeps DEF BeginScan, IInv, TypeOK, serverVars
<1>2. CASE ~(to < from)
  <2>1. /\ pc' = "frontier" /\ tail' = EmptyResult(from, follows)
        /\ fresh' = isFresh /\ target' = to
        /\ UNCHANGED <<back, base, got>>
    BY <1>2 DEF BeginScan
  <2>2. TypeOK'
    BY <2>1, EmptyResultType DEF IInv, TypeOK, serverVars
  <2>3. tail'.from = from /\ tail'.to = from - 1
    BY <2>1 DEF EmptyResult
  <2>4. TailInv'
    BY <1>2, <2>1, <2>3 DEF TailInv, Scanned
  <2>5. GotInv' /\ InLoop'
    BY <2>1 DEF GotInv, InLoop
  <2> QED BY <2>2, <2>4, <2>5 DEF IInv, serverVars
<1> QED BY <1>1, <1>2

LEMMA ServerMovesKeeps == IInv /\ ServerMoves => IInv'
<1> SUFFICES ASSUME IInv, ServerMoves PROVE IInv'
  OBVIOUS
<1>1. TypeOK'
  BY ParameterAssumption DEF IInv, TypeOK, ServerMoves, scanVars
<1>2. TailInv' /\ GotInv' /\ InLoop'
  BY DEF IInv, ServerMoves, scanVars, TailInv, GotInv, InLoop, ChunkEnd, LinkedUpTo, Scanned
<1> QED BY <1>1, <1>2 DEF IInv, ServerMoves

LEMMA PollKeeps == IInv /\ Poll => IInv'
<1> SUFFICES ASSUME IInv, Poll PROVE IInv'
  OBVIOUS
<1>1. Height[tip] \in Nat
  BY ChainEnd DEF IInv, TypeOK
<1>2. CASE wallet.tip = NoBlock
  <2>1. Birthday \in Nat /\ Birthday \geq 1
    BY ParameterAssumption
  <2>2. BeginScan(Birthday, Height[tip], NoBlock, TRUE)
        /\ UNCHANGED <<serverVars, faults, wallet, disk>>
    BY <1>2 DEF Poll
  <2> QED BY <1>1, <2>1, <2>2, BeginScanKeeps
<1>3. CASE wallet.tip # NoBlock
  <2>1. TypeOK'
    BY <1>1, <1>3 DEF IInv, TypeOK, Poll, serverVars
  <2>2. TailInv' /\ GotInv' /\ InLoop'
    BY <1>3 DEF Poll, TailInv, GotInv, InLoop, Scanned
  <2> QED BY <1>3, <2>1, <2>2 DEF IInv, Poll
<1> QED BY <1>2, <1>3

LEMMA RefusedKeeps == IInv /\ Refused => IInv'
BY ReturnKeeps DEF Refused, IInv, TypeOK, serverVars

LEMMA NothingNewKeeps == IInv /\ NothingNew => IInv'
<1> SUFFICES ASSUME IInv, NothingNew PROVE IInv'
  OBVIOUS
<1>1. wallet.to \in Nat
  BY DEF IInv, TypeOK, ResultType
<1>2. wallet' = wallet
  BY <1>1 DEF NothingNew, absorb, EmptyResult
<1> QED BY <1>2, ReturnKeeps DEF NothingNew, IInv, TypeOK, serverVars

LEMMA ScanAfterKeeps == IInv /\ ScanAfter => IInv'
<1> SUFFICES ASSUME IInv, ScanAfter PROVE IInv'
  OBVIOUS
<1>1. /\ wallet.to + 1 \in Nat /\ wallet.to + 1 \geq 1 /\ target \in Nat
      /\ wallet.tip \in Block \cup {NoBlock} /\ Scanned(wallet)
  BY DEF IInv, TypeOK, ResultType, InLoop, ScanAfter
<1> QED BY <1>1, BeginScanKeeps DEF ScanAfter

LEMMA RescanKeeps == IInv /\ Rescan => IInv'
<1> SUFFICES ASSUME IInv, Rescan PROVE IInv'
  OBVIOUS
<1>1. Height[tip] \in Nat
  BY ChainEnd DEF IInv, TypeOK
<1>2. Birthday \in Nat /\ Birthday \geq 1
  BY ParameterAssumption
<1> QED BY <1>1, <1>2, BeginScanKeeps DEF Rescan

LEMMA FetchFrontierKeeps == IInv /\ FetchFrontier => IInv'
<1> SUFFICES ASSUME IInv, FetchFrontier PROVE IInv'
  OBVIOUS
<1>1. tail.to \in Nat /\ tail.to < target /\ target \in Nat /\ tip \in Block
  BY DEF IInv, TypeOK, ResultType, TailInv, FetchFrontier
<1>2. base' \in Nat
  <2>1. tail.to \in 0..Height[tip]
    BY <1>1, ChainEnd DEF FetchFrontier
  <2> QED BY <1>1, <2>1, AtIsThere, BeforeType DEF FetchFrontier
<1>3. TypeOK'
  BY <1>2 DEF IInv, TypeOK, FetchFrontier, serverVars
<1>4. TailInv' /\ InLoop'
  BY DEF IInv, TailInv, InLoop, FetchFrontier, Scanned
<1>5. GotInv'
  BY <1>1, ParameterAssumption DEF FetchFrontier, GotInv, ChunkEnd
<1> QED BY <1>3, <1>4, <1>5 DEF IInv, FetchFrontier

\* The block just received extends the run only if it names its last block.
LEMMA ReceiveBlockKeeps == IInv /\ ReceiveBlock => IInv'
<1> SUFFICES ASSUME IInv, ReceiveBlock PROVE IInv'
  OBVIOUS
<1> DEFINE n == Len(got)
           h == tail.to + n + 1
           b == At(tip, h)
<1>1. /\ tail.to \in Nat /\ n \in Nat /\ tip \in Block /\ got \in Seq(Block)
      /\ DOMAIN got = 1..n /\ \A i \in 1..n : got[i] \in Block
      /\ tail.tip \in Block \cup {NoBlock}
  BY DEF IInv, TypeOK, ResultType
<1>2. h \in 0..Height[tip] /\ h > 0
  BY <1>1, ChainEnd DEF ReceiveBlock
<1>3. b \in Block /\ Height[b] = h
  BY <1>1, <1>2, AtIsThere
<1>4. got' = Append(got, b) /\ UNCHANGED <<tail, pc, target, wallet, disk, fresh>>
  BY DEF ReceiveBlock
<1>5. /\ got' \in Seq(Block) /\ Len(got') = n + 1 /\ DOMAIN got' = 1..(n + 1)
      /\ got'[n + 1] = b /\ \A i \in 1..n : got'[i] = got[i]
  BY <1>1, <1>3, <1>4
<1>6. TypeOK'
  BY <1>5 DEF IInv, TypeOK, ReceiveBlock, serverVars
<1>7. TailInv' /\ InLoop'
  BY DEF IInv, TailInv, InLoop, ReceiveBlock, Scanned
<1>8. GotInv'
  <2>1. Len(got') \leq (ChunkEnd - tail.to)'
    <3>1. ChunkEnd' = ChunkEnd /\ h \leq ChunkEnd /\ ChunkEnd \in Nat
      BY ParameterAssumption DEF ReceiveBlock, ChunkEnd, IInv, TypeOK, ResultType
    <3> QED BY <1>1, <1>4, <1>5, <3>1
  <2>2. ASSUME NEW k \in 1..n
        PROVE  /\ Height[got'[k]] = tail'.to + k
               /\ LinkedUpTo(k)' =>
                    /\ \A i \in 1..k : got'[i] \in Chain[got'[k]]
                    /\ tail'.tip # NoBlock => tail'.tip \in Chain[got'[k]]
    <3>1. LinkedUpTo(k)' => LinkedUpTo(k)
      BY <1>1, <1>4, <1>5 DEF LinkedUpTo
    <3> QED BY <1>1, <1>4, <1>5, <3>1, SMTT(30) DEF IInv, GotInv, ReceiveBlock
  <2>3. ASSUME NEW m \in Nat, m = n + 1, LinkedUpTo(m)'
        PROVE  /\ \A i \in 1..(n + 1) : got'[i] \in Chain[b]
               /\ tail'.tip # NoBlock => tail'.tip \in Chain[b]
    <3>1. /\ Parent[b] \in Block /\ Chain[b] = Chain[Parent[b]] \cup {b}
          /\ Parent[b] \in Chain[Parent[b]]
      BY <1>1, <1>2, <1>3, ChildExtends, ChainEnd
    <3> DEFINE expected == IF n + 1 = 1 THEN tail.tip ELSE got[n]
    <3>4. expected = NoBlock \/ Parent[b] = expected
      <4>1. m \in 1..m /\ m - 1 = n /\ (m # 1 => n \in 1..n)
        BY <1>1, <2>3
      <4>2. LET e == IF m = 1 THEN tail'.tip ELSE got'[m - 1]
            IN  e = NoBlock \/ Parent[got'[m]] = e
        BY <2>3, <4>1 DEF LinkedUpTo
      <4> QED BY <1>4, <1>5, <2>3, <4>1, <4>2
    <3>2. CASE n = 0
      <4>1. tail.tip = NoBlock \/ Parent[b] = tail.tip
        BY <3>2, <3>4
      <4> QED BY <1>4, <1>5, <3>1, <3>2, <4>1
    <3>3. CASE n > 0
      <4>1. got[n] \in Block /\ Parent[b] = got[n]
        BY <1>1, <3>3, <3>4, ChainAssumption, SMTT(30)
      <4>2. LinkedUpTo(n)
        BY <1>1, <1>4, <1>5, <2>3 DEF LinkedUpTo
      <4>3. /\ \A i \in 1..n : got[i] \in Chain[got[n]]
            /\ tail.tip # NoBlock => tail.tip \in Chain[got[n]]
        BY <1>1, <3>3, <4>2 DEF IInv, GotInv, ReceiveBlock
      <4> QED BY <1>1, <1>4, <1>5, <3>1, <4>1, <4>3
    <3> QED BY <1>1, <3>2, <3>3
  <2>4. Height[got'[n + 1]] = tail'.to + (n + 1)
    <3>1. tail.to \in Nat /\ n \in Nat
      BY <1>1
    <3>2. got'[n + 1] = b /\ tail' = tail
      BY <1>4, <1>5
    <3>3. Height[b] = tail.to + n + 1
      BY <1>3
    <3> HIDE DEF n, b
    <3> QED BY <3>1, <3>2, <3>3
  <2>5. \A k \in 1..(n + 1) :
           /\ Height[got'[k]] = tail'.to + k
           /\ LinkedUpTo(k)' =>
                /\ \A i \in 1..k : got'[i] \in Chain[got'[k]]
                /\ tail'.tip # NoBlock => tail'.tip \in Chain[got'[k]]
    <3> TAKE k \in 1..(n + 1)
    <3>1. CASE k = n + 1
      BY <1>1, <1>5, <2>3, <2>4, <3>1
    <3>2. CASE k # n + 1
      BY <1>1, <2>2, <3>2
    <3> QED BY <3>1, <3>2
  <2> QED BY <1>5, <2>1, <2>5 DEF GotInv
<1> QED BY <1>6, <1>7, <1>8 DEF IInv, ReceiveBlock

LEMMA ChunkReorgedKeeps == IInv /\ ChunkReorged => IInv'
<1> SUFFICES ASSUME IInv, ChunkReorged PROVE IInv'
  OBVIOUS
<1>1. CASE fresh
  BY <1>1, ReturnKeeps DEF ChunkReorged, IInv, TypeOK, serverVars
<1>2. CASE ~fresh
  <2>1. TypeOK'
    <3>1. fresh' \in BOOLEAN
      BY <1>2, Zenon DEF ChunkReorged
    <3> QED BY <1>2, <3>1, NoWalletHolds DEF IInv, TypeOK, ChunkReorged, serverVars
  <2>2. Scanned(wallet)
    BY <1>2 DEF IInv, TailInv, ChunkReorged, ChunkReceived
  <2>3. TailInv' /\ GotInv' /\ InLoop'
    BY <1>2, <2>2 DEF ChunkReorged, TailInv, GotInv, InLoop, Scanned
  <2> QED BY <1>2, <2>1, <2>3 DEF IInv, ChunkReorged
<1> QED BY <1>1, <1>2

LEMMA ChunkScannedKeeps ==
  ASSUME ReportsSize, IInv, ChunkScanned PROVE IInv'
<1>1. /\ ScannedTail \in ResultType /\ Sound(ScannedTail)
      /\ ScannedTail.from = tail.from /\ ScannedTail.to = ChunkEnd
      /\ ~fresh => wallet.tip \in Chain[ScannedTail.tip]
  BY ChunkSound DEF ChunkScanned
<1>2. tail' = ScannedTail /\ UNCHANGED <<tip, moves, faults, wallet, disk, back, target, fresh>>
  BY DEF ChunkScanned, serverVars
<1>3. TypeOK'
  BY <1>1, <1>2 DEF ChunkScanned, IInv, TypeOK
<1>4. TailInv'
  <2>1. ChunkEnd \leq target /\ target \in Nat /\ ChunkEnd \in Nat
    BY ParameterAssumption DEF ChunkEnd, IInv, TypeOK, ResultType
  <2>2. /\ tail.from \geq 1
        /\ fresh => tail.from = Birthday
        /\ ~fresh => Scanned(wallet) /\ tail.from = wallet.to + 1
    BY DEF IInv, TailInv, ChunkScanned, ChunkReceived
  <2>3. pc' = IF ChunkEnd = target THEN "scanned" ELSE "frontier"
    BY DEF ChunkScanned
  <2>4. pc' = "frontier" => ChunkEnd < target
    BY <2>1, <2>3
  <2>5. tail'.from = tail.from /\ tail'.to = ChunkEnd /\ Sound(tail')
    BY <1>1, <1>2
  <2>6. fresh' = fresh /\ wallet' = wallet /\ target' = target /\ tail' = ScannedTail
    BY <1>2
  <2>7. fresh' => tail'.from = Birthday
    BY <2>2, <2>5, <2>6, Zenon
  <2>8. ~fresh' => Scanned(wallet') /\ tail'.from = wallet'.to + 1
    BY <2>2, <2>5, <2>6, Zenon
  <2>9. ~fresh' => wallet'.tip \in Chain[tail'.tip]
    BY <1>1, <2>6, Zenon
  <2>10. tail'.from \geq 1 /\ tail'.to \leq target'
    BY <2>1, <2>2, <2>5, <2>6
  <2>11. pc' # "scanned" => pc' = "frontier" /\ tail'.to < target'
    BY <2>3, <2>4, <2>5, <2>6
  <2> QED BY <2>5, <2>7, <2>8, <2>9, <2>10, <2>11 DEF TailInv
<1>5. GotInv' /\ InLoop'
  BY DEF ChunkScanned, GotInv, InLoop
<1> QED BY <1>2, <1>3, <1>4, <1>5 DEF IInv

\* What absorb leaves in memory is exact, whether it folds or replaces.
LEMMA AbsorbHolds ==
  ASSUME IInv, Absorb
  PROVE  /\ wallet' \in ResultType /\ Holds(wallet')
         /\ \/ fresh
            \/ wallet' = wallet
            \/ wallet.tip \in Chain[wallet'.tip]
<1>1. tail \in ResultType /\ wallet \in ResultType /\ Sound(tail)
  BY DEF IInv, TypeOK, TailInv, Absorb
<1>2. CASE fresh
  <2>1. wallet' = tail /\ tail.from = Birthday
    BY <1>2 DEF Absorb, IInv, TailInv
  <2>2. tail.tip # NoBlock
    BY <1>1, ChainAssumption DEF Sound
  <2> QED BY <1>1, <1>2, <2>1, <2>2 DEF Holds
<1>3. CASE ~fresh /\ wallet' = absorb(wallet, tail)
  <2>1. /\ tail.from = wallet.to + 1 /\ wallet.tip \in Chain[tail.tip]
        /\ wallet.from = Birthday /\ Sound(wallet)
    BY <1>3 DEF Absorb, IInv, TailInv, Holds, Scanned
  <2>2. wallet' \in ResultType /\ Sound(wallet') /\ wallet'.from = Birthday
    BY <1>1, <1>3, <2>1, AbsorbSound
  <2>3. wallet'.tip # NoBlock
    BY <2>2, ChainAssumption DEF Sound
  <2>4. wallet'.tip = tail.tip
    BY <1>1, <1>3, <2>1 DEF absorb, Sound, ResultType
  <2> QED BY <2>1, <2>2, <2>3, <2>4 DEF Holds
<1>4. CASE wallet' = wallet
  BY <1>1, <1>4 DEF IInv
<1> QED BY <1>2, <1>3, <1>4 DEF Absorb

LEMMA AbsorbKeeps == IInv /\ Absorb => IInv'
BY AbsorbHolds, ReturnKeeps DEF Absorb, IInv, TypeOK, serverVars

LEMMA RewindHolds ==
  ASSUME IInv, Rewind
  PROVE  /\ wallet' \in ResultType /\ Sound(wallet') /\ wallet'.from = Birthday
         /\ wallet'.tip \in Chain[wallet.tip]
<1> DEFINE h == RewindTarget
<1>1. wallet \in ResultType /\ Sound(wallet) /\ wallet.from = Birthday
  BY DEF IInv, TypeOK, InLoop, Rewind, Holds, Scanned
<1>2. h \in Nat
  BY <1>1 DEF RewindTarget, IInv, TypeOK, ResultType
<1>3. wallet' = rewind_to(wallet, h) /\ CheckpointAt(wallet, h) # {}
  BY DEF Rewind
<1>4. wallet'.tip \in CheckpointAt(wallet, h)
  BY <1>1, <1>3 DEF rewind_to, ResultType
<1>5. wallet'.tip \in Chain[wallet.tip]
  BY <1>1, <1>4 DEF CheckpointAt, Sound, Covered
<1> HIDE DEF h
<1> QED BY <1>1, <1>2, <1>3, <1>5, RewindSound

LEMMA RewindKeeps == IInv /\ Rewind => IInv'
<1> SUFFICES ASSUME IInv, Rewind PROVE IInv'
  OBVIOUS
<1>1. wallet' \in ResultType /\ Sound(wallet') /\ wallet'.from = Birthday
  BY RewindHolds
<1>2. wallet'.tip # NoBlock
  BY <1>1, ChainAssumption DEF Sound
<1>3. TypeOK'
  BY <1>1 DEF IInv, TypeOK, Rewind, serverVars, scanVars
<1>4. TailInv' /\ GotInv' /\ InLoop'
  BY <1>2 DEF Rewind, TailInv, GotInv, InLoop, Scanned
<1> QED BY <1>1, <1>2, <1>3, <1>4 DEF IInv, Rewind, Holds

LEMMA RunOutKeeps == IInv /\ RunOut => IInv'
<1> SUFFICES ASSUME IInv, RunOut PROVE IInv'
  OBVIOUS
<1>1. TypeOK'
  BY DEF IInv, TypeOK, RunOut, serverVars, scanVars
<1>2. TailInv' /\ GotInv' /\ InLoop'
  BY DEF IInv, RunOut, TailInv, GotInv, InLoop, Scanned
<1> QED BY <1>1, <1>2 DEF IInv, RunOut

LEMMA PersistKeeps == IInv /\ Persist => IInv'
<1> SUFFICES ASSUME IInv, Persist PROVE IInv'
  OBVIOUS
<1>1. TypeOK'
  BY DEF IInv, TypeOK, Persist, serverVars, scanVars
<1>2. TailInv' /\ GotInv' /\ InLoop'
  BY DEF Persist, TailInv, GotInv, InLoop
<1> QED BY <1>1, <1>2 DEF IInv, Persist

LEMMA FaultsKeep == IInv /\ (CallFails \/ Restart) => IInv'
<1> SUFFICES ASSUME IInv, CallFails \/ Restart PROVE IInv'
  OBVIOUS
<1>1. faults' \in 0..MaxFaults
  BY ParameterAssumption DEF IInv, TypeOK, CallFails, Restart
<1>2. CASE CallFails
  BY <1>1, <1>2, ReturnKeeps DEF CallFails, IInv, TypeOK, serverVars
<1>3. CASE Restart
  BY <1>1, <1>3, ReturnKeeps DEF Restart, IInv, TypeOK, serverVars
<1> QED BY <1>2, <1>3

LEMMA StutterKeeps == IInv /\ UNCHANGED vars => IInv'
BY DEF IInv, TypeOK, TailInv, GotInv, InLoop, vars, serverVars, scanVars,
       ChunkEnd, LinkedUpTo, Scanned

LEMMA NextKeeps == ASSUME ReportsSize, IInv, [Next]_vars PROVE IInv'
<1>1. CASE Wallet
  <2>1. ServerBehind \/ ServerRefuses \/ ChunkMiscounted => Refused
    BY DEF ServerBehind, ServerRefuses, ChunkMiscounted
  <2> QED BY <1>1, <2>1, RefusedKeeps, PollKeeps, NothingNewKeeps, ScanAfterKeeps,
             FetchFrontierKeeps, ReceiveBlockKeeps, ChunkReorgedKeeps,
             ChunkScannedKeeps, AbsorbKeeps, RewindKeeps, RunOutKeeps, RescanKeeps
          DEF Wallet
<1>2. CASE ServerMoves \/ Persist \/ CallFails \/ Restart
  BY <1>2, ServerMovesKeeps, PersistKeeps, FaultsKeep
<1>3. CASE UNCHANGED vars
  BY <1>3, StutterKeeps
<1> QED BY <1>1, <1>2, <1>3 DEF Next

-----------------------------------------------------------------------------
(***************************************************************************)
(* Theorems                                                                *)
(***************************************************************************)

\* The strengthening every other theorem follows from.
LEMMA Inductive == ASSUME ReportsSize PROVE Spec => []IInv
<1>1. IInv /\ [Next]_vars => IInv'
  BY NextKeeps
<1> QED BY InitIInv, <1>1, PTL DEF Spec

\* The variables of the scan, the wallet and the recovery loop keep their types.
THEOREM TypeCorrect == ASSUME ReportsSize PROVE Spec => []TypeOK
<1>1. IInv => TypeOK
  BY DEF IInv
<1> QED BY Inductive, <1>1, PTL

\* With a server that reports its tree size, no interleaving of reorgs, lost
\* calls, rewinds and restarts makes scan_after, absorb and rewind_to leave a
\* wallet with anything but an exact scan of one chain.
THEOREM ExactAlways == ASSUME ReportsSize PROVE Spec => []WalletIsExact
<1>1. IInv => WalletIsExact
  BY DEF IInv, WalletIsExact, Exact, Holds, Sound, Scanned
<1> QED BY Inductive, <1>1, PTL

\* scan_after never carries a wallet from one fork to another: it changes
\* fork through a common ancestor, a fresh scan, or a reload.
THEOREM NeverJumpsForks == ASSUME ReportsSize PROVE Spec => MovesAlongOneChain
<1> DEFINE Along == Scanned(wallet) /\ Scanned(wallet') =>
                      \/ wallet.tip \in Chain[wallet'.tip]
                      \/ wallet'.tip \in Chain[wallet.tip]
                      \/ pc = "scanned" /\ fresh
                      \/ wallet' = disk
<1>1. IInv /\ [Next]_vars => [Along]_wallet
  <2> SUFFICES ASSUME IInv, [Next]_vars, wallet' # wallet PROVE Along
    OBVIOUS
  <2>1. CASE Absorb
    BY <2>1, AbsorbHolds DEF Absorb
  <2>2. CASE Rewind
    BY <2>2, RewindHolds
  <2>3. CASE Restart
    BY <2>3 DEF Restart
  <2>4. CASE NothingNew
    <3>1. wallet.to \in Nat
      BY DEF IInv, TypeOK, ResultType
    <3>2. wallet' = wallet
      BY <2>4, <3>1 DEF NothingNew, absorb, EmptyResult
    <3> QED BY <3>2
  <2>5. Absorb \/ Rewind \/ Restart \/ NothingNew
    BY DEF Next, Wallet, vars, ServerMoves, Poll, ServerBehind, ServerRefuses, ScanAfter,
       FetchFrontier, ReceiveBlock, ChunkReorged, ChunkMiscounted, ChunkScanned, RunOut,
       Rescan, Persist, CallFails, Refused
  <2> QED BY <2>1, <2>2, <2>3, <2>4, <2>5
<1> QED BY Inductive, <1>1, PTL DEF Spec, MovesAlongOneChain

-----------------------------------------------------------------------------
(***************************************************************************)
(* The wallet keeps Follower's promise                                     *)
(***************************************************************************)

\* A wallet that is somewhere knows what that block's chain says.
LEMMA ViewIsWhatTheChainSays ==
  ASSUME NEW w \in ResultType, Sound(w), w.from = Birthday
  PROVE  ViewOf(w) = F!View(w.tip) /\ w.tip \in Block
<1>1. w.tip \in Block /\ w.to = Height[w.tip]
  BY DEF Sound
<1>2. Covered(w) = {c \in Chain[w.tip] : Height[c] \geq Birthday}
  BY <1>1, ChainEnd, ParameterAssumption DEF Covered
<1> QED BY <1>1, <1>2 DEF Sound, ViewOf, F!View, ChainSays

\* Coming back with nothing done is giving up, or no step at all.
LEMMA ReturnMaps ==
  ASSUME Return, UNCHANGED <<wallet, disk>>
  PROVE  F!GiveUp \/ UNCHANGED F!followerVars
<1>1. ~Lost'
  BY DEF Return, Lost
<1>2. ViewOf(wallet)' = ViewOf(wallet) /\ ViewOf(disk)' = ViewOf(disk)
  BY DEF ViewOf
<1> QED BY <1>1, <1>2, Zenon DEF F!GiveUp, F!followerVars, Lost

\* Steps that touch neither wallet nor disk and do not begin or end a scan.
LEMMA QuietMaps ==
  ASSUME UNCHANGED <<wallet, disk>>, Lost' <=> Lost
  PROVE  UNCHANGED F!followerVars
<1>1. Lost' = Lost
  BY Zenon DEF Lost
<1> QED BY <1>1, Zenon DEF F!followerVars, ViewOf

LEMMA PollMaps == Poll => F!LoseWay \/ F!GiveUp \/ UNCHANGED F!followerVars
<1> SUFFICES ASSUME Poll PROVE F!LoseWay \/ F!GiveUp \/ UNCHANGED F!followerVars
  OBVIOUS
<1>1. ~Lost /\ UNCHANGED <<wallet, disk>>
  BY DEF Poll, Lost
<1>2. CASE Return
  BY <1>1, <1>2, ReturnMaps
<1>3. CASE pc' = "frontier" /\ fresh' = TRUE
  BY <1>1, <1>3, Zenon DEF F!LoseWay, Lost, ViewOf
<1>4. CASE pc' = "loop"
  <2>1. ~Lost'
    BY <1>4 DEF Lost
  <2> QED BY <1>1, <2>1, QuietMaps
<1> QED BY <1>2, <1>3, <1>4 DEF Poll, BeginScan

LEMMA RescanMaps == Rescan => F!GiveUp \/ UNCHANGED F!followerVars
<1> SUFFICES ASSUME Rescan PROVE F!GiveUp \/ UNCHANGED F!followerVars
  OBVIOUS
<1>1. Lost /\ UNCHANGED <<wallet, disk>>
  BY DEF Rescan, Lost
<1>2. CASE Return
  BY <1>1, <1>2, ReturnMaps
<1>3. CASE pc' = "frontier" /\ fresh' = TRUE
  <2>1. Lost'
    BY <1>3 DEF Lost
  <2> QED BY <1>1, <2>1, QuietMaps
<1> QED BY <1>2, <1>3 DEF Rescan, BeginScan

LEMMA AbsorbMaps ==
  ASSUME IInv, Absorb
  PROVE  F!BeginAgain \/ F!Advance \/ F!GiveUp \/ UNCHANGED F!followerVars
<1>1. wallet' \in ResultType /\ Holds(wallet') /\ UNCHANGED disk /\ Return
  BY AbsorbHolds DEF Absorb
<1>2. ~Lost' /\ (Lost <=> fresh) /\ ViewOf(disk)' = ViewOf(disk)
  BY <1>1 DEF Return, Lost, Absorb, ViewOf
<1>3. CASE wallet' = wallet
  BY <1>1, <1>3, ReturnMaps
<1>4. CASE fresh /\ wallet' # wallet
  <2>1. wallet' = tail /\ Sound(tail) /\ tail \in ResultType /\ tail.from = Birthday
    BY <1>4 DEF Absorb, IInv, TypeOK, TailInv
  <2>2. ViewOf(wallet)' = F!View(tail.tip) /\ tail.tip \in Block
    <3>1. ViewOf(tail) = F!View(tail.tip) /\ tail.tip \in Block
      BY <2>1, ViewIsWhatTheChainSays
    <3> QED BY <2>1, <3>1 DEF ViewOf
  <2> QED BY <1>2, <1>4, <2>2, Zenon DEF F!BeginAgain, Lost
<1>5. CASE ~fresh /\ wallet' # wallet
  <2>1. wallet.tip \in Chain[wallet'.tip]
    BY <1>5, AbsorbHolds
  <2>2. wallet' = absorb(wallet, tail) /\ Sound(wallet) /\ Sound(tail)
        /\ tail.from = wallet.to + 1 /\ wallet.tip \in Chain[tail.tip]
        /\ wallet \in ResultType /\ tail \in ResultType /\ wallet.from = Birthday
    BY <1>5 DEF Absorb, IInv, TypeOK, TailInv, Holds, Scanned
  <2>3. Sound(wallet') /\ wallet'.from = Birthday
    BY <2>2, AbsorbSound
  <2>4. ViewOf(wallet') = F!View(wallet'.tip) /\ wallet'.tip \in Block
    BY <1>1, <2>3, ViewIsWhatTheChainSays
  <2>5. ViewOf(wallet)' = F!View(wallet'.tip) /\ ViewOf(wallet).at = wallet.tip
    BY <2>4 DEF ViewOf
  <2>6. \E b \in Block : ViewOf(wallet).at \in Chain[b] /\ ViewOf(wallet)' = F!View(b)
    BY <2>1, <2>4, <2>5, Zenon
  <2> QED BY <1>2, <1>5, <2>6, Zenon DEF F!Advance, Lost
<1> QED BY <1>3, <1>4, <1>5

LEMMA RewindMaps == ASSUME IInv, Rewind PROVE F!GoBack
<1>1. /\ wallet' \in ResultType /\ Sound(wallet') /\ wallet'.from = Birthday
      /\ wallet'.tip \in Chain[wallet.tip]
  BY RewindHolds
<1>2. ViewOf(wallet') = F!View(wallet'.tip)
  BY <1>1, ViewIsWhatTheChainSays
<1>3. ViewOf(wallet)' = F!View(wallet'.tip) /\ ViewOf(wallet).at = wallet.tip
  BY <1>2 DEF ViewOf
<1>4. \E b \in Chain[ViewOf(wallet).at] : ViewOf(wallet)' = F!View(b)
  BY <1>1, <1>3, Zenon
<1>5. ~Lost /\ ~Lost' /\ wallet.tip # NoBlock /\ ViewOf(disk)' = ViewOf(disk)
  BY DEF Rewind, Lost, IInv, InLoop, Scanned, ViewOf
<1> QED BY <1>3, <1>4, <1>5, Zenon DEF F!GoBack, Lost

LEMMA StepMaps == ASSUME IInv, [Next]_vars PROVE [F!Next]_F!followerVars
<1>1. CASE Poll
  BY <1>1, PollMaps DEF F!Next
<1>2. CASE Rescan
  BY <1>2, RescanMaps DEF F!Next
<1>3. CASE Absorb
  BY <1>3, AbsorbMaps DEF F!Next
<1>4. CASE Rewind
  BY <1>4, RewindMaps DEF F!Next
<1>5. CASE ServerBehind \/ ServerRefuses \/ ChunkMiscounted \/ CallFails
  <2>1. Return /\ UNCHANGED <<wallet, disk>>
    BY <1>5 DEF ServerBehind, ServerRefuses, ChunkMiscounted, CallFails, Refused
  <2> QED BY <2>1, ReturnMaps DEF F!Next
<1>6. CASE NothingNew
  <2>1. wallet.to \in Nat
    BY DEF IInv, TypeOK, ResultType
  <2>2. wallet' = wallet /\ disk' = disk /\ Return
    BY <1>6, <2>1 DEF NothingNew, absorb, EmptyResult
  <2> QED BY <2>2, ReturnMaps DEF F!Next
<1>7. CASE ScanAfter
  <2>1. ~Lost /\ ~Lost' /\ UNCHANGED <<wallet, disk>>
    BY <1>7 DEF ScanAfter, BeginScan, Return, Lost
  <2> QED BY <2>1, QuietMaps
<1>8. CASE ChunkReorged
  <2>1. CASE fresh
    BY <1>8, <2>1, ReturnMaps DEF ChunkReorged, F!Next
  <2>2. CASE ~fresh
    <3>1. ~Lost /\ ~Lost' /\ UNCHANGED <<wallet, disk>>
      BY <1>8, <2>2 DEF ChunkReorged, ChunkReceived, Lost
    <3> QED BY <3>1, QuietMaps
  <2> QED BY <2>1, <2>2
<1>9. CASE RunOut
  <2>1. ~Lost /\ Lost' /\ UNCHANGED <<wallet, disk>>
    BY <1>9 DEF RunOut, Lost
  <2> QED BY <2>1, Zenon DEF F!LoseWay, F!Next, ViewOf
<1>10. CASE ServerMoves \/ FetchFrontier \/ ReceiveBlock \/ ChunkScanned
  <2>1. UNCHANGED <<wallet, disk>> /\ UNCHANGED fresh
    BY <1>10 DEF ServerMoves, FetchFrontier, ReceiveBlock, ChunkScanned, scanVars
  <2>2. \/ pc' = pc
        \/ pc \in {"frontier", "blocks"} /\ pc' \in {"frontier", "blocks", "scanned"}
    BY <1>10 DEF ServerMoves, FetchFrontier, ReceiveBlock, ChunkScanned, ChunkReceived
  <2>3. Lost' = Lost
    BY <2>1, <2>2 DEF Lost
  <2> QED BY <2>1, <2>3, QuietMaps
<1>11. CASE Persist
  <2>1. /\ ~Lost /\ Lost' = Lost /\ ViewOf(wallet)' = ViewOf(wallet)
        /\ ViewOf(disk)' = ViewOf(wallet)
    BY <1>11 DEF Persist, scanVars, Lost, ViewOf
  <2> QED BY <2>1, Zenon DEF F!Store, F!Next
<1>12. CASE Restart
  <2>1. /\ ~Lost' /\ ViewOf(wallet)' = ViewOf(disk) /\ ViewOf(disk)' = ViewOf(disk)
    BY <1>12 DEF Restart, Return, Lost, ViewOf
  <2> QED BY <2>1, Zenon DEF F!Reload, F!Next, Lost
<1>13. CASE UNCHANGED vars
  BY <1>13, QuietMaps DEF vars, serverVars, scanVars, Lost
<1> QED BY <1>1, <1>2, <1>3, <1>4, <1>5, <1>6, <1>7, <1>8, <1>9, <1>10, <1>11, <1>12, <1>13
        DEF Next, Wallet

\* scan, scan_after, absorb and rewind_to implement Follower: over a server that
\* reports its tree size, whatever it does between two calls and wherever the
\* wallet is stopped, every step is one that Follower allows, or none.
THEOREM KeepsThePromise == ASSUME ReportsSize PROVE Spec => FollowsOneChain
<1>1. Init => F!Init
  BY DEF Init, F!Init, F!Nowhere, Lost, ViewOf, NoWallet, EmptyResult
<1>2. IInv /\ [Next]_vars => [F!Next]_F!followerVars
  BY StepMaps
<1> QED BY Inductive, <1>1, <1>2, PTL DEF Spec, FollowsOneChain, F!Spec

-----------------------------------------------------------------------------
(***************************************************************************)
(* The window of checkpoints                                               *)
(***************************************************************************)

\* The blocks of b's chain from a height up.
From(b, low) == {c \in Chain[b] : Height[c] \geq low}

\* A wallet remembers one unbroken run of its chain that ends at its tip.
Window(w) ==
  \E low \in w.from..w.to :
     /\ w.to - low < REORG_CHECKPOINTS
     /\ w.checkpoints = From(w.tip, low)

\* A scan that was never rewound remembers as much as it may of what it read.
Full(w) ==
  w.checkpoints = {c \in Chain[w.tip] : /\ Height[c] \geq w.from
                                        /\ w.to < Height[c] + REORG_CHECKPOINTS}

WindowInv ==
  /\ Scanned(wallet) => Window(wallet)
  /\ Scanned(disk) => Window(disk)
  /\ pc \in {"frontier", "blocks", "scanned"} /\ Sound(tail) => Full(tail)

\* A chain holds one block of each height, so heights count its blocks.
LEMMA ChainCount ==
  ASSUME NEW b \in Block, NEW low \in Nat, low \leq Height[b] + 1
  PROVE  /\ IsFiniteSet(From(b, low))
         /\ Cardinality(From(b, low)) = Height[b] - low + 1
<1> DEFINE I == low..Height[b]
           f == [h \in I |-> At(b, h)]
<1>1. Height[b] \in Nat
  BY ChainEnd
<1>2. IsFiniteSet(I) /\ Cardinality(I) = Height[b] - low + 1
  <2>1. low \in Int /\ Height[b] \in Int
    BY <1>1
  <2>2. IsFiniteSet(I) /\ Cardinality(I) = IF low > Height[b] THEN 0 ELSE Height[b] - low + 1
    BY <2>1, FS_Interval
  <2> QED BY <1>1, <2>2
<1>3. \A h \in I : h \in 0..Height[b]
  BY <1>1
<1>4. ASSUME NEW h \in I PROVE f[h] \in Chain[b] /\ Height[f[h]] = h /\ f[h] \in Block
  <2>1. f[h] = At(b, h) /\ h \in 0..Height[b]
    BY <1>3
  <2> QED BY <2>1, AtIsThere
<1>5. f \in [I -> From(b, low)]
  <2>1. ASSUME NEW h \in I PROVE At(b, h) \in From(b, low)
    <3>1. At(b, h) \in Chain[b] /\ Height[At(b, h)] = h /\ h \geq low
      BY <1>1, <1>3, AtIsThere
    <3> QED BY <3>1 DEF From
  <2> QED BY <2>1
<1>6. ASSUME NEW c \in From(b, low) PROVE Height[c] \in I /\ f[Height[c]] = c
  <2>1. c \in Chain[b] /\ Height[c] \in I
    BY <1>1, ChainEnd DEF From
  <2> QED BY <1>4, <2>1, ChainAssumption
<1>7. f \in Bijection(I, From(b, low))
  <2>1. \A h, k \in I : f[h] = f[k] => h = k
    BY <1>4
  <2>2. \A c \in From(b, low) : \E h \in I : f[h] = c
    BY <1>6
  <2> QED BY <1>5, <2>1, <2>2 DEF Bijection, Injection, IsInjective, Surjection
<1>8. ExistsBijection(I, From(b, low))
  BY <1>7 DEF ExistsBijection
<1> QED BY <1>2, <1>8, FS_Bijection

\* Trimming a set of blocks of one chain whose upper part is an unbroken run
\* leaves the REORG_CHECKPOINTS highest of that run.
LEMMA TrimKeepsARun ==
  ASSUME NEW b \in Block, NEW S \in SUBSET Chain[b], NEW low \in Nat, low \leq Height[b],
         \A c \in Chain[b] :
            Height[b] < Height[c] + REORG_CHECKPOINTS => (c \in S <=> Height[c] \geq low),
         \/ \A c \in S : Height[c] \geq low
         \/ low + REORG_CHECKPOINTS \leq Height[b] + 1
  PROVE  trim_checkpoints(S) = {c \in From(b, low) : Height[b] < Height[c] + REORG_CHECKPOINTS}
<1> DEFINE H == Height[b]
           R == REORG_CHECKPOINTS
           higher(c) == {d \in S : Height[d] > Height[c]}
<1>1. H \in Nat /\ R \in Nat \ {0} /\ \A c \in Chain[b] : Height[c] \in Nat /\ Height[c] \leq H
  BY ChainEnd, ParameterAssumption
<1>2. ASSUME NEW c \in S, H < Height[c] + R
      PROVE  Cardinality(higher(c)) < R /\ Height[c] \geq low
  <2>1. higher(c) = From(b, Height[c] + 1)
    BY <1>1, <1>2 DEF From
  <2>2. Cardinality(higher(c)) = H - (Height[c] + 1) + 1
    <3>1. c \in Chain[b] /\ Height[c] + 1 \in Nat /\ Height[c] + 1 \leq Height[b] + 1
      BY <1>1
    <3> QED BY <2>1, <3>1, ChainCount
  <2> QED BY <1>1, <1>2, <2>2
<1>3. ASSUME NEW c \in S, ~(H < Height[c] + R), Cardinality(higher(c)) < R
      PROVE  FALSE
  <2>1. CASE low + R \leq H + 1
    <3> DEFINE top == From(b, H - R + 1)
    <3>1. H - R + 1 \in Nat /\ H - R + 1 \leq H + 1 /\ low \leq H - R + 1
      BY <1>1, <2>1
    <3>2. IsFiniteSet(top) /\ Cardinality(top) = R
      <4>1. H - (H - R + 1) + 1 = R
        BY <1>1
      <4>2. IsFiniteSet(top) /\ Cardinality(top) = H - (H - R + 1) + 1
        BY <3>1, ChainCount
      <4> QED BY <4>1, <4>2
    <3>3. top \subseteq higher(c)
      BY <1>1, <1>3, <3>1 DEF From
    <3>4. IsFiniteSet(higher(c))
      <4>1. higher(c) \in SUBSET From(b, 0) /\ IsFiniteSet(From(b, 0))
        BY <1>1, ChainCount DEF From
      <4> QED BY <4>1, FS_Subset
    <3>5. Cardinality(top) \leq Cardinality(higher(c)) /\ Cardinality(higher(c)) \in Nat
      BY <3>3, <3>4, FS_Subset, FS_CardinalityType
    <3> QED BY <1>1, <1>3, <3>2, <3>5
  <2>2. CASE ~(low + R \leq H + 1)
    BY <1>1, <1>3, <2>2
  <2> QED BY <2>1, <2>2
<1>4. trim_checkpoints(S) = {c \in S : Cardinality(higher(c)) < R}
  BY DEF trim_checkpoints
<1>5. \A c \in S : Cardinality(higher(c)) < R <=> H < Height[c] + R
  BY <1>2, <1>3
<1> HIDE DEF higher
<1> QED BY <1>1, <1>2, <1>4, <1>5 DEF From

\* The chunk extends a full window to a full window.
LEMMA ChunkIsFull ==
  ASSUME IInv, WindowInv, ReportsSize, ChunkReceived, Linked, SizeAgrees
  PROVE  Full(ScannedTail)
<1> DEFINE n == Len(got)
           S == {got[i] : i \in DOMAIN got}
           T == tail.checkpoints \cup S
           r == ScannedTail
           b == r.tip
<1>1. /\ tail \in ResultType /\ tail.to \in Nat /\ tail.from \in Nat
      /\ got \in Seq(Block) /\ target \in Nat
      /\ n \in Nat /\ DOMAIN got = 1..n /\ \A i \in 1..n : got[i] \in Block
  BY DEF IInv, TypeOK, ResultType
<1>2. r \in ResultType /\ Sound(r) /\ r.from = tail.from /\ r.to = ChunkEnd
  BY ChunkSound
<1>3. r.checkpoints = trim_checkpoints(T) /\ b = got[n]
  BY <1>1 DEF ScannedTail, ResultType
<1>4. b \in Block /\ Height[b] = ChunkEnd /\ tail.from \leq ChunkEnd
  BY <1>2 DEF Sound
<1>5. n \geq 1 /\ ChunkEnd = tail.to + n
  <2>1. tail.to < target
    BY DEF IInv, TailInv, ChunkReceived
  <2>2. ChunkEnd \in Nat /\ ChunkEnd > tail.to
    BY <1>1, <2>1, ParameterAssumption DEF ChunkEnd
  <2>3. tail.to + n = ChunkEnd
    BY DEF ChunkReceived
  <2> QED BY <1>1, <2>2, <2>3
<1>6. LinkedUpTo(n)
  BY <1>1 DEF Linked, LinkedUpTo
<1>7. /\ \A i \in 1..n : got[i] \in Chain[b] /\ Height[got[i]] = tail.to + i
      /\ tail.tip # NoBlock => tail.tip \in Chain[b]
  BY <1>1, <1>3, <1>5, <1>6 DEF IInv, GotInv, ChunkReceived
<1>8. \A c \in Chain[b] : Height[c] \in Nat /\ Height[c] \leq ChunkEnd
  BY <1>4, ChainEnd
<1>9. ASSUME NEW c \in Chain[b] PROVE c \in S <=> Height[c] > tail.to
  <2>1. ASSUME Height[c] > tail.to PROVE c \in S
    <3>1. Height[c] - tail.to \in 1..n
      BY <1>1, <1>5, <1>8, <2>1
    <3>2. got[Height[c] - tail.to] \in Chain[b]
          /\ Height[got[Height[c] - tail.to]] = Height[c]
      BY <1>1, <1>7, <1>8, <3>1, SMTT(30)
    <3>3. c = got[Height[c] - tail.to]
      BY <1>4, <3>2, ChainAssumption
    <3> QED BY <1>1, <3>1, <3>3
  <2>2. ASSUME c \in S PROVE Height[c] > tail.to
    BY <1>1, <1>7, <2>2
  <2> QED BY <2>1, <2>2
<1>10. S \subseteq Chain[b]
  BY <1>1, <1>7
<1>11. /\ tail.checkpoints \subseteq Chain[b]
       /\ \A c \in Chain[b] :
             c \in tail.checkpoints <=> /\ Height[c] \geq tail.from
                                        /\ tail.to < Height[c] + REORG_CHECKPOINTS
                                        /\ Height[c] \leq tail.to
       /\ tail.from \leq tail.to + 1
  <2>1. CASE tail = EmptyResult(tail.from, IF fresh THEN NoBlock ELSE wallet.tip)
    <3>1. tail.to = tail.from - 1 /\ tail.checkpoints = {}
      BY <2>1 DEF EmptyResult
    <3> QED BY <1>1, <1>8, <3>1
  <2>2. CASE Sound(tail)
    <3>1. Full(tail)
      BY <2>2 DEF WindowInv, ChunkReceived
    <3>2. tail.tip \in Chain[b] /\ tail.to = Height[tail.tip] /\ tail.from \leq tail.to
      BY <1>7, <2>2, ChainAssumption DEF Sound
    <3>3. Chain[tail.tip] = {x \in Chain[b] : Height[x] \leq tail.to}
      BY <1>4, <3>2, ChainSplit
    <3> HIDE DEF b
    <3> QED BY <1>1, <3>1, <3>2, <3>3 DEF Full
  <2> QED BY <2>1, <2>2 DEF IInv, TailInv, ChunkReceived
<1> HIDE DEF S, b, r
<1>12. \A c \in T : Height[c] \geq tail.from
  BY <1>1, <1>8, <1>9, <1>10, <1>11
<1>13. \A c \in Chain[b] :
          ChunkEnd < Height[c] + REORG_CHECKPOINTS => (c \in T <=> Height[c] \geq tail.from)
  BY <1>1, <1>5, <1>8, <1>9, <1>11, ParameterAssumption
<1>14. T \in SUBSET Chain[b]
  BY <1>10, <1>11
<1>15. trim_checkpoints(T)
         = {c \in From(b, tail.from) : ChunkEnd < Height[c] + REORG_CHECKPOINTS}
  <2> HIDE DEF T
  <2> QED BY <1>1, <1>4, <1>12, <1>13, <1>14, TrimKeepsARun
<1>16. r.checkpoints = {c \in Chain[b] : /\ Height[c] \geq r.from
                                         /\ r.to < Height[c] + REORG_CHECKPOINTS}
  BY <1>2, <1>3, <1>15 DEF From, r
<1> QED BY <1>16 DEF Full, b, r

\* A full window is a run that ends at the tip.
LEMMA FullIsAWindow ==
  ASSUME NEW w \in ResultType, Sound(w), Full(w)
  PROVE  Window(w)
<1> DEFINE low == IF w.from + REORG_CHECKPOINTS > w.to THEN w.from
                  ELSE w.to - REORG_CHECKPOINTS + 1
<1>1. w.from \in Nat /\ w.to \in Nat /\ w.from \leq w.to /\ w.tip \in Block
  BY DEF ResultType, Sound
<1>2. low \in w.from..w.to /\ w.to - low < REORG_CHECKPOINTS
  BY <1>1, ParameterAssumption
<1>3. \A c \in Chain[w.tip] : Height[c] \in Nat
  BY <1>1, ChainEnd
<1>4. w.checkpoints = From(w.tip, low)
  BY <1>1, <1>3, ParameterAssumption DEF Full, From
<1> QED BY <1>2, <1>4 DEF Window

\* absorb keeps no block below a hole: either the tail's window reaches down to
\* where the wallet's ends, or it is already as long as a window may be.
LEMMA AbsorbKeepsAWindow ==
  ASSUME NEW w \in ResultType, Sound(w), Window(w),
         NEW t \in ResultType, Sound(t), Full(t),
         t.from = w.to + 1, w.tip \in Chain[t.tip]
  PROVE  Window(absorb(w, t))
<1> DEFINE R == REORG_CHECKPOINTS
           b == t.tip
           S == w.checkpoints \cup t.checkpoints
           r == absorb(w, t)
<1>1. /\ w.from \in Nat /\ w.to \in Nat /\ t.from \in Nat /\ t.to \in Nat
      /\ w.from \leq w.to /\ t.from \leq t.to /\ R \in Nat \ {0}
      /\ b \in Block /\ Height[b] = t.to
  BY ParameterAssumption DEF ResultType, Sound
<1>2. r.from = w.from /\ r.to = t.to /\ r.tip = b /\ r.checkpoints = trim_checkpoints(S)
  BY <1>1 DEF absorb, ResultType
<1>3. PICK bottom \in w.from..w.to :
         w.to - bottom < R /\ w.checkpoints = From(w.tip, bottom)
  BY DEF Window
<1>4. \A c \in Chain[b] : Height[c] \in Nat /\ Height[c] \leq t.to
  BY <1>1, ChainEnd
<1>5. \A c \in Chain[b] : c \in w.checkpoints <=> Height[c] \geq bottom /\ Height[c] \leq w.to
  <2>1. Chain[w.tip] = {x \in Chain[b] : Height[x] \leq w.to}
    BY <1>1, ChainSplit DEF Sound
  <2> QED BY <1>3, <2>1 DEF From
<1>6. \A c \in Chain[b] :
         c \in t.checkpoints <=> Height[c] \geq t.from /\ t.to < Height[c] + R
  BY DEF Full
<1>7. S \in SUBSET Chain[b]
  <2>1. Chain[w.tip] \subseteq Chain[b]
    BY <1>1, ChainAssumption
  <2> QED BY <1>3, <2>1 DEF From, Full
<1> HIDE DEF b, r
<1> DEFINE low == IF t.from + R > t.to THEN bottom ELSE t.from
<1>8. low \in Nat /\ low \leq t.to /\ w.from \leq low
  BY <1>1, <1>3
<1>9. \A c \in Chain[b] : t.to < Height[c] + R => (c \in S <=> Height[c] \geq low)
  BY <1>1, <1>3, <1>4, <1>5, <1>6
<1>10. \/ \A c \in S : Height[c] \geq low
       \/ low + R \leq t.to + 1
  BY <1>1, <1>3, <1>4, <1>5, <1>6, <1>7
<1> HIDE DEF low, S
<1>11. trim_checkpoints(S) = {c \in From(b, low) : t.to < Height[c] + R}
  BY <1>1, <1>7, <1>8, <1>9, <1>10, TrimKeepsARun
<1> DEFINE first == IF low + R > t.to THEN low ELSE t.to - R + 1
<1>12. first \in w.from..t.to /\ t.to - first < R
  BY <1>1, <1>8
<1>13. r.checkpoints = From(b, first)
  BY <1>1, <1>2, <1>4, <1>8, <1>11 DEF From
<1>14. first \in r.from..r.to /\ r.to - first < R /\ r.checkpoints = From(r.tip, first)
  BY <1>2, <1>12, <1>13
<1> HIDE DEF first
<1> QED BY <1>14 DEF Window, r

\* rewind_to keeps the lower part of the run.
LEMMA RewindKeepsAWindow ==
  ASSUME NEW w \in ResultType, Sound(w), Window(w), NEW h \in Nat, CheckpointAt(w, h) # {}
  PROVE  Window(rewind_to(w, h))
<1> DEFINE c == CHOOSE d \in CheckpointAt(w, h) : TRUE
           r == rewind_to(w, h)
<1>1. c \in w.checkpoints /\ Height[c] = h
  BY DEF CheckpointAt
<1>2. /\ r.from = w.from /\ r.to = h /\ r.tip = c
      /\ r.checkpoints = {d \in w.checkpoints : Height[d] \leq h}
  BY DEF rewind_to, ResultType
<1>3. PICK low \in w.from..w.to :
         w.to - low < REORG_CHECKPOINTS /\ w.checkpoints = From(w.tip, low)
  BY DEF Window
<1> HIDE DEF c, r
<1>4. /\ w.from \in Nat /\ w.to \in Nat /\ w.tip \in Block /\ w.to = Height[w.tip]
      /\ c \in Chain[w.tip] /\ h \leq w.to /\ low \leq h
  BY <1>1, <1>3 DEF ResultType, Sound, Covered, From
<1>5. Chain[c] = {x \in Chain[w.tip] : Height[x] \leq h}
  BY <1>1, <1>4, ChainSplit
<1>6. r.checkpoints = From(c, low)
  BY <1>2, <1>3, <1>5 DEF From
<1>7. low \in w.from..h /\ h - low < REORG_CHECKPOINTS
  BY <1>3, <1>4, ParameterAssumption
<1>8. low \in r.from..r.to /\ r.to - low < REORG_CHECKPOINTS /\ r.checkpoints = From(r.tip, low)
  BY <1>2, <1>6, <1>7
<1> QED BY <1>8 DEF Window, r

\* Steps that leave wallet and disk alone and do not extend a scan.
LEMMA QuietKeepsWindows ==
  ASSUME WindowInv, UNCHANGED <<wallet, disk>>,
         \/ pc' \notin {"frontier", "blocks", "scanned"}
         \/ tail' = tail /\ pc \in {"frontier", "blocks", "scanned"}
         \/ ~Sound(tail')
  PROVE  WindowInv'
BY DEF WindowInv, Window, Full, Scanned, Sound, Covered, From

\* A scan that begins has scanned nothing.
LEMMA BeginScanKeepsWindows ==
  ASSUME WindowInv, UNCHANGED <<wallet, disk>>,
         NEW from \in Nat, NEW to \in Nat,
         NEW follows \in Block \cup {NoBlock}, NEW isFresh \in BOOLEAN,
         BeginScan(from, to, follows, isFresh)
  PROVE  WindowInv'
<1>1. CASE Return
  BY <1>1, QuietKeepsWindows DEF Return
<1>2. CASE tail' = EmptyResult(from, follows)
  <2>1. tail'.to = from - 1 /\ tail'.from = from
    BY <1>2 DEF EmptyResult
  <2>2. ~Sound(tail')
    BY <2>1 DEF Sound
  <2> QED BY <2>2, QuietKeepsWindows
<1> QED BY <1>1, <1>2 DEF BeginScan

\* A call that returns has only its wallet and the disk to answer for.
LEMMA ReturnKeepsWindows ==
  ASSUME Return, Scanned(wallet') => Window(wallet'), Scanned(disk') => Window(disk')
  PROVE  WindowInv'
<1>1. pc' = "idle"
  BY DEF Return
<1> QED BY <1>1 DEF WindowInv, Window, Scanned, From

LEMMA WindowsKeep == ASSUME ReportsSize, IInv, WindowInv, [Next]_vars PROVE WindowInv'
<1>1. CASE Refused
  BY <1>1, QuietKeepsWindows DEF Refused, Return
<1>2. CASE Poll \/ ScanAfter \/ Rescan
  <2>1. /\ Birthday \in Nat /\ Height[tip] \in Nat /\ NoBlock \in Block \cup {NoBlock}
        /\ wallet.to + 1 \in Nat /\ target \in Nat /\ wallet.tip \in Block \cup {NoBlock}
    BY ParameterAssumption, ChainEnd DEF IInv, TypeOK, ResultType
  <2>2. CASE Poll /\ wallet.tip # NoBlock
    BY <2>2, QuietKeepsWindows DEF Poll
  <2>3. CASE ScanAfter
    BY <2>1, <2>3, BeginScanKeepsWindows DEF ScanAfter
  <2>4. CASE Rescan
    BY <2>1, <2>4, BeginScanKeepsWindows DEF Rescan
  <2>5. CASE Poll /\ wallet.tip = NoBlock
    BY <2>1, <2>5, BeginScanKeepsWindows DEF Poll
  <2> QED BY <1>2, <2>2, <2>3, <2>4, <2>5
<1>3. CASE ServerMoves \/ FetchFrontier \/ ReceiveBlock \/ ChunkReorged
           \/ RunOut \/ CallFails \/ UNCHANGED vars
  BY <1>3, QuietKeepsWindows DEF ServerMoves, FetchFrontier, ReceiveBlock, ChunkReorged,
     RunOut, CallFails, Return, vars, serverVars, scanVars, WindowInv, Window, Full,
     Scanned, Sound, Covered, From
<1>4. CASE NothingNew
  <2>1. wallet.to \in Nat
    BY DEF IInv, TypeOK, ResultType
  <2>2. wallet' = wallet /\ disk' = disk
    BY <1>4, <2>1 DEF NothingNew, absorb, EmptyResult
  <2> QED BY <1>4, <2>2, QuietKeepsWindows DEF NothingNew, Return
<1>5. CASE ChunkScanned
  <2>1. Full(ScannedTail)
    BY <1>5, ChunkIsFull DEF ChunkScanned
  <2>2. tail' = ScannedTail /\ UNCHANGED <<wallet, disk>>
    BY <1>5 DEF ChunkScanned
  <2>3. Full(tail')
    BY <2>1, <2>2
  <2>4. Full(tail)'
    BY <2>3 DEF Full
  <2> QED BY <2>2, <2>4 DEF WindowInv, Window, Scanned, From
<1>6. CASE Absorb
  <2>1. Sound(tail) /\ Full(tail) /\ tail \in ResultType /\ wallet \in ResultType
    BY <1>6 DEF IInv, TypeOK, TailInv, Absorb, WindowInv
  <2>2. CASE wallet' = tail
    BY <1>6, <2>1, <2>2, FullIsAWindow, ReturnKeepsWindows DEF Absorb, WindowInv
  <2>3. CASE wallet' = wallet
    BY <1>6, <2>3, ReturnKeepsWindows DEF Absorb, WindowInv
  <2>4. CASE ~fresh /\ wallet' = absorb(wallet, tail)
    <3>1. tail.from = wallet.to + 1 /\ wallet.tip \in Chain[tail.tip]
          /\ Sound(wallet) /\ Window(wallet)
      BY <1>6, <2>4 DEF Absorb, IInv, TailInv, Holds, Scanned, WindowInv
    <3>2. Window(absorb(wallet, tail))
      BY <2>1, <3>1, AbsorbKeepsAWindow
    <3> QED BY <1>6, <2>4, <3>2, ReturnKeepsWindows DEF Absorb, WindowInv
  <2> QED BY <1>6, <2>2, <2>3, <2>4 DEF Absorb
<1>7. CASE Rewind
  <2> DEFINE h == RewindTarget
  <2>1. wallet \in ResultType /\ Sound(wallet) /\ Window(wallet)
    BY <1>7 DEF IInv, TypeOK, InLoop, Rewind, Holds, Scanned, WindowInv
  <2>2. h \in Nat
    BY <2>1 DEF RewindTarget, IInv, TypeOK, ResultType
  <2>3. wallet' = rewind_to(wallet, h) /\ CheckpointAt(wallet, h) # {} /\ disk' = disk
        /\ pc' = "loop"
    BY <1>7 DEF Rewind
  <2> HIDE DEF h
  <2>4. Window(rewind_to(wallet, h))
    BY <2>1, <2>2, <2>3, RewindKeepsAWindow
  <2>5. Window(wallet')
    BY <2>3, <2>4
  <2>6. Window(wallet)' /\ (Scanned(disk) => Window(disk))'
    BY <2>3, <2>5 DEF Window, From, Scanned, WindowInv
  <2> QED BY <2>3, <2>6 DEF WindowInv
<1>8. CASE Persist
  <2>1. Scanned(disk') => Window(disk')
    BY <1>8 DEF Persist, WindowInv
  <2>2. pc' = "idle" /\ wallet' = wallet
    BY <1>8 DEF Persist
  <2> QED BY <2>1, <2>2 DEF WindowInv, Window, Scanned, From
<1>9. CASE Restart
  BY <1>9, ReturnKeepsWindows DEF Restart, WindowInv
<1>10. ServerBehind \/ ServerRefuses \/ ChunkMiscounted => Refused
  BY DEF ServerBehind, ServerRefuses, ChunkMiscounted
<1> QED BY <1>1, <1>2, <1>3, <1>4, <1>5, <1>6, <1>7, <1>8, <1>9, <1>10 DEF Next, Wallet

\* After any scans, rewinds, faults and restarts, rewind_to can land on every
\* height of a wallet's window, all of it the wallet's own chain, never longer
\* than REORG_CHECKPOINTS and ending at its tip.
THEOREM WindowHasNoHoles ==
  ASSUME ReportsSize PROVE Spec => []CheckpointsDescribeTheWallet
<1>1. Init => WindowInv
  BY DEF Init, WindowInv, Scanned, NoWallet, EmptyResult
<1>2. IInv /\ WindowInv /\ [Next]_vars => WindowInv'
  BY WindowsKeep
<1>3. IInv /\ WindowInv => CheckpointsDescribeTheWallet
  <2> SUFFICES ASSUME IInv, WindowInv, Scanned(wallet)
               PROVE  /\ wallet.checkpoints \subseteq Covered(wallet)
                      /\ wallet.tip \in wallet.checkpoints
                      /\ Cardinality(wallet.checkpoints) \leq REORG_CHECKPOINTS
                      /\ \A c, d \in wallet.checkpoints : \A h \in Height[c]..Height[d] :
                            CheckpointAt(wallet, h) # {}
    BY DEF CheckpointsDescribeTheWallet
  <2>1. wallet \in ResultType /\ Sound(wallet)
    BY DEF IInv, TypeOK, Holds, Scanned
  <2>2. PICK low \in wallet.from..wallet.to :
           /\ wallet.to - low < REORG_CHECKPOINTS
           /\ wallet.checkpoints = From(wallet.tip, low)
    BY DEF WindowInv, Window
  <2>3. wallet.from \in Nat /\ wallet.to \in Nat /\ wallet.tip \in Block
        /\ wallet.to = Height[wallet.tip]
    BY <2>1 DEF ResultType, Sound
  <2>4. Cardinality(wallet.checkpoints) \leq REORG_CHECKPOINTS
    <3>1. Cardinality(From(wallet.tip, low)) = wallet.to - low + 1
      BY <2>2, <2>3, ChainCount
    <3> QED BY <2>2, <2>3, <3>1, ParameterAssumption
  <2>5. ASSUME NEW c \in wallet.checkpoints, NEW d \in wallet.checkpoints,
               NEW h \in Height[c]..Height[d]
        PROVE  CheckpointAt(wallet, h) # {}
    <3>1. /\ Height[c] \in Nat /\ Height[c] \geq low
          /\ Height[d] \in Nat /\ Height[d] \leq wallet.to
      BY <2>2, <2>3, ChainEnd DEF From
    <3>2. h \in 0..Height[wallet.tip] /\ h \geq low
      BY <2>2, <2>3, <3>1
    <3>3. At(wallet.tip, h) \in Chain[wallet.tip] /\ Height[At(wallet.tip, h)] = h
      BY <2>3, <3>2, AtIsThere
    <3>4. At(wallet.tip, h) \in CheckpointAt(wallet, h)
      BY <2>2, <3>2, <3>3 DEF From, CheckpointAt
    <3> QED BY <3>4
  <2> QED BY <2>1, <2>4, <2>5 DEF Sound
<1> QED BY Inductive, <1>1, <1>2, <1>3, PTL DEF Spec
=============================================================================
