---------------------------- MODULE SigningProofs ----------------------------
(***************************************************************************)
(* What holds of what is signed (CoSigning), who is let in (Login) and     *)
(* what is published (Vdxf), for any transactions, signers, identities and *)
(* keys, and however copies, blocks and updates fall; of the keys a        *)
(* person keeps (Keys), for any versions, lengths and checksum; and of the *)
(* names data is published under (Vdxf), for any names and any hash.       *)
(***************************************************************************)
EXTENDS CoSigning, Login, Vdxf, Keys, Sums, FiniteSetTheorems, SequenceTheorems,
        TLAPS

-----------------------------------------------------------------------------
(***************************************************************************)
(* Transactions signed in several places.  The argument is about           *)
(* signatures, not about transactions: wherever a signature went, and      *)
(* whatever became of it on the way, its maker once saw what it is over.   *)
(* finalize verifies it, with the key it names, against the transaction it *)
(* is in.                                                                  *)
(***************************************************************************)

\* A sequence of anything.
IsList(s) == \E S : s \in Seq(S)

\* What EXCEPT and field access need of a partial transaction.
IsPartial(tx) ==
  /\ {"inputs", "outputs", "expiry"} \subseteq DOMAIN tx
  /\ \A i \in DOMAIN tx.inputs :
       /\ {"hash_type", "signatures", "outpoint", "kind"} \subseteq DOMAIN tx.inputs[i]
       /\ IsList(tx.inputs[i].signatures)
       /\ \A j \in DOMAIN tx.inputs[i].signatures :
            {"maker", "over"} \subseteq DOMAIN tx.inputs[i].signatures[j]

\* Whoever made it, if a signer did, looked at what the signature is over, at
\* that input.
Vouched(s, i) ==
  s.maker \in Keys =>
    \E a \in approved[s.maker] :
       /\ i \in DOMAIN a.seen.hash_types /\ a.seen.hash_types[i] = s.over.type
       /\ s.over.prevouts = IF s.over.type.anyone_can_pay THEN None ELSE a.spends
       /\ s.over.type.base = "all" => s.over.outputs = a.seen.outputs
       /\ s.over.type.base = "single" => s.over.outputs = <<a.seen.outputs[i]>>

AllVouched(tx) ==
  \A i \in DOMAIN tx.inputs : \A j \in DOMAIN tx.inputs[i].signatures :
    Vouched(tx.inputs[i].signatures[j], i)

Good(tx) == IsPartial(tx) /\ AllVouched(tx)

HandsAreGood  == DOMAIN hand = Keys /\ \A k \in Keys : hand[k] # None => Good(hand[k])
CopiesAreGood == \A blob \in carried : "tx" \in DOMAIN blob /\ Good(blob.tx)

IInv == DOMAIN approved = Keys /\ HandsAreGood /\ CopiesAreGood /\ WhatWasSeenIsWhatIsSpent

-----------------------------------------------------------------------------
LEMMA InitHolds == Init => IInv
BY DEF Init, IInv, HandsAreGood, CopiesAreGood, WhatWasSeenIsWhatIsSpent

\* Nothing has been signed yet.
LEMMA StartIsGood == ASSUME NEW plan PROVE Good(start(plan))
<1>1. start(plan).inputs = [i \in DOMAIN plan.inputs |->
        [outpoint |-> plan.inputs[i].outpoint, owner |-> plan.inputs[i].owner,
         value |-> plan.inputs[i].value, kind |-> plan.inputs[i].kind,
         hash_type |-> All, signatures |-> <<>>]]
  BY DEF start
<1>2. \A i \in DOMAIN start(plan).inputs : start(plan).inputs[i].signatures = <<>>
  BY <1>1
<1>3. \A i \in DOMAIN start(plan).inputs :
        {"hash_type", "signatures", "outpoint", "kind"} \subseteq DOMAIN start(plan).inputs[i]
  BY <1>1
<1>4. {"inputs", "outputs", "expiry"} \subseteq DOMAIN start(plan)
  BY DEF start
<1>5. <<>> \in Seq({}) /\ DOMAIN <<>> = {}
  OBVIOUS
<1> QED BY <1>2, <1>3, <1>4, <1>5 DEF Good, IsPartial, AllVouched, IsList

\* A signature that is over what one of a list is, if a signer made it.
Repeats(x, list) ==
  /\ {"maker", "over"} \subseteq DOMAIN x
  /\ x.maker \in Keys => \E l \in DOMAIN list : list[l].maker = x.maker /\ list[l].over = x.over

\* What an input keeps when another takes its place: the coin, and of each
\* signature by a signer what it is over.
InputFrom(new, old) ==
  /\ DOMAIN new = DOMAIN old
  /\ \A f \in DOMAIN old \ {"hash_type", "signatures"} : new[f] = old[f]
  /\ IsList(new.signatures)
  /\ \A j \in DOMAIN new.signatures : Repeats(new.signatures[j], old.signatures)

Descends(new, old) ==
  /\ {"inputs", "outputs", "expiry"} \subseteq DOMAIN new
  /\ DOMAIN new.inputs = DOMAIN old.inputs
  /\ \A i \in DOMAIN old.inputs : InputFrom(new.inputs[i], old.inputs[i])

LEMMA DescendantIsGood == ASSUME NEW old, NEW new, Good(old), Descends(new, old) PROVE Good(new)
<1>1. IsPartial(new)
  BY DEF Descends, InputFrom, Repeats, IsPartial, Good
<1>2. ASSUME NEW i \in DOMAIN new.inputs, NEW j \in DOMAIN new.inputs[i].signatures
      PROVE  Vouched(new.inputs[i].signatures[j], i)
  <2>1. SUFFICES ASSUME new.inputs[i].signatures[j].maker \in Keys
                 PROVE  Vouched(new.inputs[i].signatures[j], i)
    BY DEF Vouched
  <2>2. i \in DOMAIN old.inputs /\ InputFrom(new.inputs[i], old.inputs[i])
    BY DEF Descends
  <2>3. PICK l \in DOMAIN old.inputs[i].signatures :
          /\ old.inputs[i].signatures[l].maker = new.inputs[i].signatures[j].maker
          /\ old.inputs[i].signatures[l].over = new.inputs[i].signatures[j].over
    BY <2>1, <2>2 DEF InputFrom, Repeats
  <2>4. Vouched(old.inputs[i].signatures[l], i)
    BY <2>2 DEF Good, AllVouched
  <2> QED BY <2>1, <2>3, <2>4 DEF Vouched
<1> QED BY <1>1, <1>2 DEF Good, AllVouched

\* An input that is the same but for its hash type.
LEMMA SameSignatures ==
  ASSUME NEW old, IsPartial(old), NEW i \in DOMAIN old.inputs, NEW new, DOMAIN new = DOMAIN old.inputs[i],
         \A f \in DOMAIN old.inputs[i] : f # "hash_type" => new[f] = old.inputs[i][f]
  PROVE  InputFrom(new, old.inputs[i])
BY DEF IsPartial, InputFrom, Repeats

\* Reordering and dropping signatures.
LEMMA FewerSignatures ==
  ASSUME NEW s, IsList(s)
  PROVE  /\ s # <<>> => IsList(Tail(s)) /\ \A j \in DOMAIN Tail(s) : \E l \in DOMAIN s : Tail(s)[j] = s[l]
         /\ IsList(Reverse(s)) /\ \A j \in DOMAIN Reverse(s) : \E l \in DOMAIN s : Reverse(s)[j] = s[l]
         /\ \A x \in ToSet(SubSeq(s, 1, 1)) : s # <<>> => x \in ToSet(s)
<1>1. PICK S : s \in Seq(S)
  BY DEF IsList
<1>2. ASSUME s # <<>>
      PROVE  IsList(Tail(s)) /\ \A j \in DOMAIN Tail(s) : \E l \in DOMAIN s : Tail(s)[j] = s[l]
  <2>1. /\ Tail(s) \in Seq(S) /\ Len(Tail(s)) = Len(s) - 1
        /\ \A j \in 1..(Len(s) - 1) : Tail(s)[j] = s[j + 1]
    BY <1>1, <1>2, HeadTailProperties
  <2>2. DOMAIN Tail(s) = 1..(Len(s) - 1) /\ DOMAIN s = 1..Len(s) /\ Len(s) \in Nat
    BY <1>1, <2>1
  <2>3. \A j \in 1..(Len(s) - 1) : j + 1 \in 1..Len(s)
    BY <2>2
  <2> QED BY <2>1, <2>2, <2>3 DEF IsList
<1>3. IsList(Reverse(s)) /\ \A j \in DOMAIN Reverse(s) : \E l \in DOMAIN s : Reverse(s)[j] = s[l]
  <2>1. Len(s) \in Nat /\ DOMAIN s = 1..Len(s) /\ s \in [1..Len(s) -> S]
    BY <1>1, LenProperties
  <2>2. \A j \in 1..Len(s) : Len(s) - j + 1 \in 1..Len(s)
    BY <2>1
  <2>3. Reverse(s) \in [1..Len(s) -> S]
    BY <2>1, <2>2 DEF Reverse
  <2>4. Reverse(s) \in Seq(S)
    BY <2>1, <2>3
  <2> QED BY <2>1, <2>2, <2>4 DEF Reverse, IsList
<1>4. ASSUME NEW x \in ToSet(SubSeq(s, 1, 1)), s # <<>> PROVE x \in ToSet(s)
  BY <1>1, <1>4 DEF ToSet
<1> QED BY <1>2, <1>3, <1>4

-----------------------------------------------------------------------------
\* What a signer has looked at stays looked at.
LEMMA GoodStays ==
  ASSUME \A k \in Keys : approved[k] \subseteq approved'[k], NEW tx, Good(tx)
  PROVE  Good(tx)'
BY DEF Good, IsPartial, AllVouched, Vouched

\* A signature of k's at input i, and whether sign makes it.
Fresh(tx, k, i) == new_signature(tx, i, k)
Signs(tx, k, i) == Reached(tx, i) /\ Signable(tx.inputs[i], k)

\* sign: at each input the signatures there were, and where it signs one more.
LEMMA SignedTransaction ==
  ASSUME NEW k, NEW tx, IsPartial(tx), NEW new, new = sign(tx, k)
  PROVE  /\ DOMAIN new = DOMAIN tx /\ new.outputs = tx.outputs /\ new.expiry = tx.expiry
         /\ DOMAIN new.inputs = DOMAIN tx.inputs
         /\ new.inputs = [i \in DOMAIN new.inputs |-> new.inputs[i]]
BY DEF sign, IsPartial

\* At each input.
LEMMA SignedInput ==
  ASSUME NEW k, NEW tx, IsPartial(tx), NEW new, new = sign(tx, k), NEW i \in DOMAIN tx.inputs
  PROVE  /\ DOMAIN new.inputs[i] = DOMAIN tx.inputs[i]
         /\ \A f \in DOMAIN tx.inputs[i] : f # "signatures" => new.inputs[i][f] = tx.inputs[i][f]
         /\ IsList(new.inputs[i].signatures)
         /\ \A j \in DOMAIN new.inputs[i].signatures :
              \/ new.inputs[i].signatures[j] = Fresh(tx, k, i) /\ Signs(tx, k, i)
              \/ j \in DOMAIN tx.inputs[i].signatures /\ new.inputs[i].signatures[j] = tx.inputs[i].signatures[j]
<1>0. new.inputs[i] = IF Signs(tx, k, i) THEN [tx.inputs[i] EXCEPT !.signatures = Append(@, Fresh(tx, k, i))]
                      ELSE tx.inputs[i]
  BY DEF sign, IsPartial, Fresh, Signs
<1>1. CASE ~Signs(tx, k, i)
  BY <1>0, <1>1 DEF IsPartial
<1>2. CASE Signs(tx, k, i)
  <2>1. new.inputs[i] = [tx.inputs[i] EXCEPT !.signatures = Append(@, Fresh(tx, k, i))]
    BY <1>0, <1>2
  <2>2. PICK S : tx.inputs[i].signatures \in Seq(S)
    BY DEF IsPartial, IsList
  <2> DEFINE old == tx.inputs[i].signatures
  <2>3. /\ DOMAIN new.inputs[i] = DOMAIN tx.inputs[i] /\ new.inputs[i].signatures = Append(old, Fresh(tx, k, i))
        /\ \A f \in DOMAIN tx.inputs[i] : f # "signatures" => new.inputs[i][f] = tx.inputs[i][f]
    BY <2>1 DEF IsPartial
  <2>4. old \in Seq(S \cup {Fresh(tx, k, i)})
    BY <2>2
  <2>5. /\ Append(old, Fresh(tx, k, i)) \in Seq(S \cup {Fresh(tx, k, i)})
        /\ Len(Append(old, Fresh(tx, k, i))) = Len(old) + 1
        /\ \A j \in 1..Len(old) : Append(old, Fresh(tx, k, i))[j] = old[j]
        /\ Append(old, Fresh(tx, k, i))[Len(old) + 1] = Fresh(tx, k, i)
    BY <2>4, AppendProperties
  <2>6. DOMAIN Append(old, Fresh(tx, k, i)) = 1..(Len(old) + 1) /\ DOMAIN old = 1..Len(old) /\ Len(old) \in Nat
    BY <2>4, <2>5
  <2> QED BY <1>2, <2>3, <2>5, <2>6 DEF IsList
<1> QED BY <1>1, <1>2
\* sign: the new signatures are over what the signer was shown.
LEMMA SignIsGood ==
  ASSUME NEW k \in Keys, NEW tx, Good(tx), \A l \in Keys : approved[l] \subseteq approved'[l],
         [seen |-> summary(tx), spends |-> [i \in DOMAIN tx.inputs |-> tx.inputs[i].outpoint]] \in approved'[k]
  PROVE  Good(sign(tx, k))'
<1> DEFINE new == sign(tx, k)
           fresh(i) == Fresh(tx, k, i)
<1>2. ASSUME NEW i \in DOMAIN tx.inputs PROVE Vouched(fresh(i), i)'
  <2> DEFINE a == [seen |-> summary(tx), spends |-> [j \in DOMAIN tx.inputs |-> tx.inputs[j].outpoint]]
             over == sighash(tx, i)
  <2>1. /\ i \in DOMAIN a.seen.hash_types /\ a.seen.hash_types[i] = tx.inputs[i].hash_type
        /\ a.seen.outputs = tx.outputs
    BY DEF summary
  <2>2. /\ over.type = tx.inputs[i].hash_type
        /\ over.prevouts = Prevouts(tx, over.type)
        /\ over.outputs = BoundOutputs(tx, over.type, i)
    BY DEF sighash
  <2>3. over.prevouts = IF over.type.anyone_can_pay THEN None ELSE a.spends
    BY <2>2 DEF Prevouts
  <2>4. /\ over.type.base = "all" => over.outputs = a.seen.outputs
        /\ over.type.base = "single" => over.outputs = <<a.seen.outputs[i]>>
    BY <2>1, <2>2 DEF BoundOutputs
  <2>5. fresh(i).maker = k /\ fresh(i).over = over /\ a \in approved'[k]
    BY DEF Fresh, new_signature
  <2> HIDE DEF a, over, fresh
  <2> QED BY <2>1, <2>2, <2>3, <2>4, <2>5 DEF Vouched
<1> HIDE DEF fresh
<1>3. /\ DOMAIN new = DOMAIN tx /\ DOMAIN new.inputs = DOMAIN tx.inputs
      /\ \A i \in DOMAIN tx.inputs :
           /\ DOMAIN new.inputs[i] = DOMAIN tx.inputs[i] /\ IsList(new.inputs[i].signatures)
           /\ \A j \in DOMAIN new.inputs[i].signatures :
                \/ new.inputs[i].signatures[j] = fresh(i)
                \/ j \in DOMAIN tx.inputs[i].signatures /\ new.inputs[i].signatures[j] = tx.inputs[i].signatures[j]
  <2>1. IsPartial(tx)
    BY DEF Good
  <2>2. \A i \in DOMAIN tx.inputs :
          /\ DOMAIN new.inputs[i] = DOMAIN tx.inputs[i] /\ IsList(new.inputs[i].signatures)
          /\ \A j \in DOMAIN new.inputs[i].signatures :
               \/ new.inputs[i].signatures[j] = fresh(i)
               \/ j \in DOMAIN tx.inputs[i].signatures /\ new.inputs[i].signatures[j] = tx.inputs[i].signatures[j]
    BY <2>1, SignedInput DEF fresh
  <2>3. DOMAIN new = DOMAIN tx /\ DOMAIN new.inputs = DOMAIN tx.inputs
    BY <2>1 DEF sign, IsPartial
  <2> QED BY <2>2, <2>3
<1> HIDE DEF new
<1>4. AllVouched(tx)'
  BY GoodStays DEF Good
<1>5. AllVouched(new)'
  BY <1>2, <1>3, <1>4 DEF AllVouched
<1>6. \A i \in DOMAIN tx.inputs : {"maker", "over"} \subseteq DOMAIN fresh(i)
  BY DEF fresh, Fresh, new_signature
<1>7. IsPartial(new)'
  BY <1>3, <1>6 DEF IsPartial, Good
<1> QED BY <1>5, <1>7 DEF Good, new

-----------------------------------------------------------------------------
\* What may become of a signature leaves what it is over, and who made it.
LEMMA MangledSaysTheSame ==
  ASSUME NEW s, {"maker", "over"} \subseteq DOMAIN s, NEW m \in Mangled(s)
  PROVE  m.maker = s.maker /\ m.over = s.over /\ DOMAIN m = DOMAIN s
<1>1. CASE \E p \in Strangers : m = [s EXCEPT !.by = p]
  BY <1>1
<1>2. CASE \E type \in HashTypes \cup {All} : m = [s EXCEPT !.says = type]
  BY <1>2
<1> QED BY <1>1, <1>2 DEF Mangled

\* What may become of an input: its coin stays, and no signer signs it there.
LEMMA AlteredInputStays ==
  ASSUME NEW tx, IsPartial(tx), NEW i \in DOMAIN tx.inputs, NEW input \in AlteredInput(tx, i)
  PROVE  InputFrom(input, tx.inputs[i])
<1> DEFINE old == tx.inputs[i]
           list == old.signatures
<1>0. /\ {"hash_type", "signatures"} \subseteq DOMAIN old /\ IsList(list)
      /\ \A l \in DOMAIN list : {"maker", "over"} \subseteq DOMAIN list[l]
  BY DEF IsPartial
<1> SUFFICES InputFrom(input, old)
  OBVIOUS
<1> HIDE DEF old
<1>a. ASSUME NEW s, input = [old EXCEPT !.signatures = s], IsList(s),
             \A j \in DOMAIN s : Repeats(s[j], list)
      PROVE  InputFrom(input, old)
  BY <1>0, <1>a DEF InputFrom
<1>1. CASE \E type \in HashTypes : input = [old EXCEPT !.hash_type = type]
  BY <1>0, <1>1 DEF InputFrom, Repeats
<1>2. CASE input = [old EXCEPT !.signatures = Reverse(list)]
  <2>1. IsList(Reverse(list)) /\ \A j \in DOMAIN Reverse(list) : \E l \in DOMAIN list : Reverse(list)[j] = list[l]
    BY <1>0, FewerSignatures
  <2>2. \A j \in DOMAIN Reverse(list) : Repeats(Reverse(list)[j], list)
    BY <1>0, <2>1 DEF Repeats
  <2> QED BY <1>a, <1>2, <2>1, <2>2
<1>3. CASE list # <<>> /\ input = [old EXCEPT !.signatures = Tail(list)]
  <2>1. IsList(Tail(list)) /\ \A j \in DOMAIN Tail(list) : \E l \in DOMAIN list : Tail(list)[j] = list[l]
    BY <1>0, <1>3, FewerSignatures
  <2>2. \A j \in DOMAIN Tail(list) : Repeats(Tail(list)[j], list)
    BY <1>0, <2>1 DEF Repeats
  <2> QED BY <1>a, <1>3, <2>1, <2>2
<1>4. CASE \E j \in DOMAIN list : \E m \in Mangled(list[j]) : input = [old EXCEPT !.signatures = [list EXCEPT ![j] = m]]
  <2>1. PICK j \in DOMAIN list : \E m \in Mangled(list[j]) : input = [old EXCEPT !.signatures = [list EXCEPT ![j] = m]]
    BY <1>4
  <2>2. PICK m \in Mangled(list[j]) : input = [old EXCEPT !.signatures = [list EXCEPT ![j] = m]]
    BY <2>1
  <2>3. m.maker = list[j].maker /\ m.over = list[j].over /\ DOMAIN m = DOMAIN list[j]
    BY <1>0, MangledSaysTheSame
  <2> DEFINE s == [list EXCEPT ![j] = m]
  <2>4. DOMAIN s = DOMAIN list /\ s[j] = m /\ \A l \in DOMAIN list : l # j => s[l] = list[l]
    OBVIOUS
  <2>5. IsList(s)
    <3>1. PICK S : list \in Seq(S)
      BY <1>0 DEF IsList
    <3>2. list \in Seq(S \cup {m}) /\ j \in 1..Len(list) /\ m \in S \cup {m}
      BY <3>1
    <3>3. s \in Seq(S \cup {m})
      BY <3>2, ExceptSeq
    <3> QED BY <3>3 DEF IsList
  <2> HIDE DEF s, list
  <2>6. \A l \in DOMAIN s : Repeats(s[l], list)
    BY <1>0, <2>3, <2>4 DEF Repeats
  <2> QED BY <1>a, <2>2, <2>4, <2>5, <2>6 DEF s, list
<1>5. CASE \E p \in Strangers : input = [old EXCEPT !.signatures = <<new_signature(tx, i, p)>> \o list]
  <2>1. PICK p \in Strangers : input = [old EXCEPT !.signatures = <<new_signature(tx, i, p)>> \o list]
    BY <1>5
  <2> DEFINE x == new_signature(tx, i, p)
             s == <<x>> \o list
  <2>2. x.maker \notin Keys /\ {"maker", "over"} \subseteq DOMAIN x
    BY CoSigningAssumption DEF new_signature
  <2> HIDE DEF x
  <2>3. PICK S : list \in Seq(S)
    BY <1>0 DEF IsList
  <2>4. <<x>> \in Seq(S \cup {x}) /\ list \in Seq(S \cup {x}) /\ Len(<<x>>) = 1 /\ <<x>>[1] = x
    BY <2>3
  <2> HIDE DEF list
  <2>5. /\ s \in Seq(S \cup {x}) /\ Len(s) = 1 + Len(list) /\ Len(list) \in Nat
        /\ \A j \in 1..Len(s) : s[j] = IF j \leq 1 THEN <<x>>[j] ELSE list[j - 1]
    BY <2>4, ConcatProperties
  <2> HIDE DEF s
  <2>6. ASSUME NEW j \in DOMAIN s PROVE s[j] = x \/ \E l \in DOMAIN list : s[j] = list[l]
    <3>1. j \in 1..(1 + Len(list)) /\ DOMAIN list = 1..Len(list)
      BY <2>3, <2>5
    <3>2. CASE j = 1
      BY <2>4, <2>5, <3>1, <3>2
    <3>3. CASE j # 1
      <4>1. j - 1 \in 1..Len(list) /\ ~(j \leq 1)
        BY <2>5, <3>1, <3>3
      <4> QED BY <2>5, <3>1, <4>1
    <3> QED BY <3>2, <3>3
  <2>7. IsList(s)
    BY <2>5 DEF IsList
  <2>8. input = [old EXCEPT !.signatures = s]
    BY <2>1 DEF s, x, list
  <2>9. \A j \in DOMAIN s : Repeats(s[j], list)
    BY <1>0, <2>2, <2>6 DEF Repeats
  <2> QED BY <1>a, <2>7, <2>8, <2>9
<1>6. \/ \E type \in HashTypes : input = [old EXCEPT !.hash_type = type]
      \/ input = [old EXCEPT !.signatures = Reverse(list)]
      \/ \E j \in DOMAIN list : input = [old EXCEPT !.signatures = Tail(list)]
      \/ \E j \in DOMAIN list : \E m \in Mangled(list[j]) : input = [old EXCEPT !.signatures = [list EXCEPT ![j] = m]]
      \/ \E p \in Strangers : input = [old EXCEPT !.signatures = <<new_signature(tx, i, p)>> \o list]
  <2> DEFINE mangled(j) == {[old EXCEPT !.signatures[j] = m] : m \in Mangled(list[j])}
             typed    == {[old EXCEPT !.hash_type = type] : type \in HashTypes}
             turned   == {[old EXCEPT !.signatures = Reverse(@)]}
             shorter  == {[old EXCEPT !.signatures = Tail(@)] : j \in DOMAIN list}
             stranger == {[old EXCEPT !.signatures = <<new_signature(tx, i, p)>> \o @] :
                            p \in {p \in Strangers : Hashable(tx, old.hash_type, i)}}
  <2>0. AlteredInput(tx, i) = typed \cup turned \cup shorter \cup stranger
                           \cup UNION {mangled(j) : j \in DOMAIN list}
    BY Zenon DEF AlteredInput, old
  <2> HIDE DEF typed, turned, shorter, stranger, mangled, list
  <2>1. \/ input \in typed \/ input \in turned \/ input \in shorter \/ input \in stranger
        \/ input \in UNION {mangled(j) : j \in DOMAIN list}
    BY <2>0
  <2>2. CASE input \in UNION {mangled(j) : j \in DOMAIN list}
    <3>1. PICK j \in DOMAIN list : input \in mangled(j)
      BY <2>2
    <3>2. PICK m \in Mangled(list[j]) : input = [old EXCEPT !.signatures[j] = m]
      BY <3>1 DEF mangled
    <3>3. input = [old EXCEPT !.signatures = [list EXCEPT ![j] = m]]
      BY <3>2 DEF list
    <3> QED BY <3>3
  <2> QED BY <2>1, <2>2 DEF typed, turned, shorter, stranger, list
<1>7. (\E j : j \in DOMAIN list) => list # <<>>
  OBVIOUS
<1> HIDE DEF list
<1> QED BY <1>1, <1>2, <1>3, <1>4, <1>5, <1>6, <1>7

\* A channel leaves the coins, and makes no signature of a signer's.
LEMMA AlteredDescends == ASSUME NEW old, IsPartial(old), NEW new \in Altered(old) PROVE Descends(new, old)
<1> USE DEF IsPartial
<1>0. \A i \in DOMAIN old.inputs : InputFrom(old.inputs[i], old.inputs[i])
  BY SameSignatures
<1>1. CASE \E o \in DOMAIN old.outputs, p \in Strangers : new = [old EXCEPT !.outputs[o].owner = p]
  <2>1. DOMAIN new = DOMAIN old /\ new.inputs = old.inputs
    BY <1>1
  <2> QED BY <1>0, <2>1 DEF Descends
<1>2. CASE \E i \in DOMAIN old.inputs : \E input \in AlteredInput(old, i) : new = [old EXCEPT !.inputs[i] = input]
  <2>1. PICK i \in DOMAIN old.inputs : \E input \in AlteredInput(old, i) : new = [old EXCEPT !.inputs[i] = input]
    BY <1>2
  <2>2. PICK input \in AlteredInput(old, i) : new = [old EXCEPT !.inputs[i] = input]
    BY <2>1
  <2>3. /\ DOMAIN new = DOMAIN old /\ DOMAIN new.inputs = DOMAIN old.inputs
        /\ new.inputs[i] = input /\ \A l \in DOMAIN old.inputs : l # i => new.inputs[l] = old.inputs[l]
    BY <2>2
  <2>4. InputFrom(input, old.inputs[i])
    BY AlteredInputStays
  <2> QED BY <1>0, <2>3, <2>4 DEF Descends
<1> QED BY <1>1, <1>2 DEF Altered

\* from_bytes, in either version.
LEMMA ReadingDescends == ASSUME NEW blob, IsPartial(blob.tx) PROVE Descends(from_bytes(blob), blob.tx)
<1> USE DEF IsPartial
<1>0. \A i \in DOMAIN blob.tx.inputs : InputFrom(blob.tx.inputs[i], blob.tx.inputs[i])
  BY SameSignatures
<1>1. CASE blob.version = 2
  BY <1>0, <1>1 DEF from_bytes, Descends
<1>2. CASE blob.version # 2
  <2> DEFINE new == from_bytes(blob)
  <2>1. /\ DOMAIN new = DOMAIN blob.tx /\ DOMAIN new.inputs = DOMAIN blob.tx.inputs
        /\ \A i \in DOMAIN blob.tx.inputs : new.inputs[i] = [blob.tx.inputs[i] EXCEPT !.hash_type = All]
    BY <1>2 DEF from_bytes
  <2>2. ASSUME NEW i \in DOMAIN blob.tx.inputs PROVE InputFrom(new.inputs[i], blob.tx.inputs[i])
    <3>1. /\ DOMAIN new.inputs[i] = DOMAIN blob.tx.inputs[i]
          /\ \A f \in DOMAIN blob.tx.inputs[i] : f # "hash_type" => new.inputs[i][f] = blob.tx.inputs[i][f]
      BY <2>1
    <3> HIDE DEF new
    <3> QED BY <3>1, SameSignatures
  <2>3. {"inputs", "outputs", "expiry"} \subseteq DOMAIN new
    BY <2>1
  <2> HIDE DEF new
  <2>4. Descends(new, blob.tx)
    BY <2>1, <2>2, <2>3 DEF Descends
  <2> QED BY <2>4 DEF new
<1> QED BY <1>1, <1>2

\* finalize: a signature that verifies is over this very transaction.
LEMMA FinalizedWasSeen ==
  ASSUME NEW tx, Good(tx), Finalizable(tx),
         NEW i \in DOMAIN tx.inputs, NEW s \in ToSet(finalize(tx).inputs[i].signatures), s.by \in Keys
  PROVE  \E a \in approved[s.by] : Agrees(a, tx, i)
<1>1. s \in ToSet(tx.inputs[i].signatures)
  <2>1. finalize(tx).inputs[i].signatures = Unlocking(tx.inputs[i])
    BY DEF finalize, Good, IsPartial
  <2> QED BY <2>1, FewerSignatures DEF Unlocking, Finalizable, Good, IsPartial
<1>2. Vouched(s, i) /\ s.maker = s.by /\ s.over = sighash(tx, i)
  BY <1>1 DEF ToSet, Good, AllVouched, Finalizable, verify
<1> DEFINE type == tx.inputs[i].hash_type
<1>3. PICK a \in approved[s.by] :
        /\ i \in DOMAIN a.seen.hash_types /\ a.seen.hash_types[i] = s.over.type
        /\ s.over.prevouts = IF s.over.type.anyone_can_pay THEN None ELSE a.spends
        /\ s.over.type.base = "all" => s.over.outputs = a.seen.outputs
        /\ s.over.type.base = "single" => s.over.outputs = <<a.seen.outputs[i]>>
  BY <1>2 DEF Vouched
<1>4. /\ s.over.type = type
      /\ s.over.prevouts = Prevouts(tx, type)
      /\ s.over.outputs = BoundOutputs(tx, type, i)
  BY <1>2 DEF sighash
<1>5. ASSUME commits_to_all_outputs(a.seen), i \in DOMAIN a.seen.hash_types
      PROVE  /\ a.seen.outputs = tx.outputs
             /\ a.spends = [j \in DOMAIN tx.inputs |-> tx.inputs[j].outpoint]
  <2>1. type = All
    BY <1>3, <1>4, <1>5 DEF commits_to_all_outputs
  <2>2. type.base = "all" /\ ~type.anyone_can_pay
    BY <2>1 DEF All
  <2> QED BY <1>3, <1>4, <2>2 DEF BoundOutputs, Prevouts
<1>6. ASSUME type.base = "single" PROVE a.seen.outputs[i] = tx.outputs[i]
  <2>1. <<a.seen.outputs[i]>> = <<tx.outputs[i]>>
    BY <1>3, <1>4, <1>6 DEF BoundOutputs
  <2> QED BY <2>1
<1> QED BY <1>3, <1>4, <1>5, <1>6 DEF Agrees

-----------------------------------------------------------------------------
\* A step that replaces a hand by something good.
LEMMA HandKeeps ==
  ASSUME IInv, NEW k \in Keys, NEW tx, hand' = [hand EXCEPT ![k] = tx], Good(tx)',
         DOMAIN approved' = Keys, \A l \in Keys : approved[l] \subseteq approved'[l],
         carried' = carried, finished' = None
  PROVE  IInv'
<1> USE DEF IInv
<1>1. HandsAreGood'
  BY GoodStays DEF HandsAreGood
<1>2. CopiesAreGood'
  BY GoodStays DEF CopiesAreGood
<1> QED BY <1>1, <1>2 DEF WhatWasSeenIsWhatIsSpent

\* A step that changes only what is on its way.
LEMMA CarryKeeps ==
  ASSUME IInv, UNCHANGED <<hand, approved>>, finished' = None,
         \A blob \in carried' : blob \in carried \/ ("tx" \in DOMAIN blob /\ Good(blob.tx))
  PROVE  IInv'
<1> USE DEF IInv
<1>1. \A tx : Good(tx) => Good(tx)'
  BY GoodStays
<1>2. HandsAreGood' /\ CopiesAreGood'
  BY <1>1 DEF HandsAreGood, CopiesAreGood
<1> QED BY <1>2 DEF WhatWasSeenIsWhatIsSpent

LEMMA NextKeeps == ASSUME IInv, [Next]_vars PROVE IInv'
<1> USE DEF IInv
<1>0. \A tx : Good(tx) /\ approved' = approved => Good(tx)'
  BY GoodStays
<1>1. ASSUME NEW k \in Keys, finished = None, Start(k) \/ Retype(k) \/ Receive(k) PROVE IInv'
  <2>0. UNCHANGED <<carried, approved, finished>>
    BY <1>1 DEF Start, Retype, Receive
  <2>1. PICK tx : hand' = [hand EXCEPT ![k] = tx] /\ Good(tx)
    <3>1. CASE Start(k)
      BY <3>1, StartIsGood DEF Start
    <3>2. CASE Retype(k)
      <4>1. PICK i \in DOMAIN hand[k].inputs, type \in HashTypes :
              hand' = [hand EXCEPT ![k].inputs[i].hash_type = type]
        BY <3>2 DEF Retype
      <4> DEFINE tx == [hand[k] EXCEPT !.inputs[i].hash_type = type]
      <4>2. hand' = [hand EXCEPT ![k] = tx]
        BY <4>1
      <4>3. Good(hand[k])
        BY <3>2 DEF Retype, HandsAreGood
      <4>4. /\ DOMAIN tx = DOMAIN hand[k] /\ DOMAIN tx.inputs = DOMAIN hand[k].inputs
            /\ \A l \in DOMAIN hand[k].inputs :
                 /\ DOMAIN tx.inputs[l] = DOMAIN hand[k].inputs[l]
                 /\ \A f \in DOMAIN hand[k].inputs[l] : f # "hash_type" => tx.inputs[l][f] = hand[k].inputs[l][f]
        BY <4>3 DEF Good, IsPartial
      <4> HIDE DEF tx
      <4>5. \A l \in DOMAIN hand[k].inputs : InputFrom(tx.inputs[l], hand[k].inputs[l])
        BY <4>3, <4>4, SameSignatures DEF Good
      <4>6. Descends(tx, hand[k])
        BY <4>3, <4>4, <4>5 DEF Descends, Good, IsPartial
      <4> QED BY <4>2, <4>3, <4>6, DescendantIsGood
    <3>3. CASE Receive(k)
      <4>1. PICK blob \in carried : hand' = [hand EXCEPT ![k] = from_bytes(blob)]
        BY <3>3 DEF Receive
      <4> QED BY <4>1, ReadingDescends, DescendantIsGood DEF CopiesAreGood, Good
    <3> QED BY <1>1, <3>1, <3>2, <3>3
  <2> QED BY <1>0, <1>1, <2>0, <2>1, HandKeeps
<1>2. ASSUME NEW k \in Keys, finished = None, Sign(k) PROVE IInv'
  <2> DEFINE a == [seen |-> summary(hand[k]),
                   spends |-> [i \in DOMAIN hand[k].inputs |-> hand[k].inputs[i].outpoint]]
  <2>1. /\ hand' = [hand EXCEPT ![k] = sign(hand[k], k)]
        /\ approved' = [approved EXCEPT ![k] = @ \cup {a}]
        /\ UNCHANGED <<carried, finished>> /\ Good(hand[k])
    BY <1>2 DEF Sign, HandsAreGood
  <2> HIDE DEF a
  <2>2. DOMAIN approved' = Keys /\ a \in approved'[k] /\ \A l \in Keys : approved[l] \subseteq approved'[l]
    BY <2>1
  <2>3. \A tx : tx = hand[k] => Good(sign(tx, k))'
    BY <2>1, <2>2, SignIsGood DEF a
  <2>4. PICK tx : tx = sign(hand[k], k) /\ Good(tx)'
    BY <2>3
  <2> QED BY <1>2, <2>1, <2>2, <2>4, HandKeeps
<1>3. ASSUME NEW k \in Keys, finished = None, Hand(k) PROVE IInv'
  <2>1. carried' = carried \cup {to_bytes(hand[k])} /\ UNCHANGED <<hand, approved, finished>> /\ Good(hand[k])
    BY <1>3 DEF Hand, HandsAreGood
  <2>2. "tx" \in DOMAIN to_bytes(hand[k]) /\ to_bytes(hand[k]).tx = hand[k]
    BY DEF to_bytes
  <2> QED BY <1>3, <2>1, <2>2, CarryKeeps
<1>4. ASSUME finished = None, Alter \/ CarryOld \/ Lose PROVE IInv'
  <2>1. UNCHANGED <<hand, approved, finished>>
    BY <1>4 DEF Alter, CarryOld, Lose
  <2>2. CASE Alter
    <3>0. PICK blob \in carried : \E tx \in Altered(blob.tx) : carried' = (carried \ {blob}) \cup {to_bytes(tx)}
      BY <2>2 DEF Alter
    <3>1. PICK tx \in Altered(blob.tx) : carried' = (carried \ {blob}) \cup {to_bytes(tx)}
      BY <3>0
    <3>2. Good(tx)
      BY <3>1, AlteredDescends, DescendantIsGood DEF CopiesAreGood, Good
    <3>3. "tx" \in DOMAIN to_bytes(tx) /\ to_bytes(tx).tx = tx
      BY DEF to_bytes
    <3> QED BY <1>4, <2>1, <3>1, <3>2, <3>3, CarryKeeps
  <2>3. CASE CarryOld
    <3>1. PICK blob \in carried : carried' = (carried \ {blob}) \cup {[version |-> 1, tx |-> blob.tx]}
      BY <2>3 DEF CarryOld
    <3> QED BY <1>4, <2>1, <3>1, CarryKeeps DEF CopiesAreGood
  <2>4. CASE Lose
    BY <1>4, <2>1, <2>4, CarryKeeps DEF Lose
  <2> QED BY <1>4, <2>2, <2>3, <2>4
<1>5. ASSUME NEW k \in Keys, finished = None, Finalize(k) PROVE IInv'
  <2>1. /\ Finalizable(hand[k]) /\ Good(hand[k]) /\ finished' = finalize(hand[k])
        /\ UNCHANGED <<hand, carried, approved>>
    BY <1>5 DEF Finalize, HandsAreGood
  <2> DEFINE tx == hand[k]
             end == finalize(tx)
  <2>2. /\ end.outputs = tx.outputs /\ DOMAIN end.inputs = DOMAIN tx.inputs
        /\ \A i \in DOMAIN tx.inputs : /\ end.inputs[i].hash_type = tx.inputs[i].hash_type
                                       /\ end.inputs[i].outpoint = tx.inputs[i].outpoint
    BY <2>1 DEF finalize, Good, IsPartial
  <2>3. [j \in DOMAIN end.inputs |-> end.inputs[j].outpoint] = [j \in DOMAIN tx.inputs |-> tx.inputs[j].outpoint]
    BY <2>2
  <2>4. \A i \in DOMAIN tx.inputs : \A s \in ToSet(end.inputs[i].signatures) :
          s.by \in Keys => \E a \in approved[s.by] : Agrees(a, tx, i)
    BY <2>1, FinalizedWasSeen
  <2>5. HandsAreGood' /\ CopiesAreGood' /\ DOMAIN approved' = Keys
    BY <1>0, <2>1 DEF HandsAreGood, CopiesAreGood
  <2> HIDE DEF tx, end
  <2>6. finished' = end /\ approved' = approved
    BY <2>1 DEF tx, end
  <2>7. \A a : \A i \in DOMAIN tx.inputs : Agrees(a, tx, i) => Agrees(a, end, i)
    BY <2>2, <2>3 DEF Agrees
  <2>8. WhatWasSeenIsWhatIsSpent'
    BY <2>2, <2>4, <2>6, <2>7 DEF WhatWasSeenIsWhatIsSpent
  <2> QED BY <2>5, <2>8
<1>6. CASE UNCHANGED vars
  <2>1. UNCHANGED <<hand, carried, approved, finished>>
    BY <1>6 DEF vars
  <2>2. HandsAreGood' /\ CopiesAreGood'
    BY <1>0, <2>1 DEF HandsAreGood, CopiesAreGood
  <2>3. WhatWasSeenIsWhatIsSpent'
    BY <2>1 DEF WhatWasSeenIsWhatIsSpent
  <2> QED BY <2>1, <2>2, <2>3
<1> QED
  BY <1>1, <1>2, <1>3, <1>4, <1>5, <1>6 DEF Next

LEMMA Inductive == Spec => []IInv
BY InitHolds, NextKeeps, PTL DEF Spec

-----------------------------------------------------------------------------
\* Whatever is copied, altered, lost, retyped or signed in any order, what is
\* finalized is what each signer in it looked at, as far as it bound itself.
THEOREM SignersGetWhatTheySaw == Spec => []WhatWasSeenIsWhatIsSpent
<1>1. IInv => WhatWasSeenIsWhatIsSpent
  BY DEF IInv
<1> QED BY <1>1, Inductive, PTL

-----------------------------------------------------------------------------
(***************************************************************************)
(* Enough signatures make a transaction that is taken.  As long as nothing *)
(* was altered, every signature verifies and is as it was made: what it is *)
(* over is changed only while there is none, an input is signed only if it *)
(* can be hashed, and a key's coin only by its key.  In an altered copy    *)
(* only the coins are sure.                                                *)
(***************************************************************************)
InputFields == {"outpoint", "owner", "value", "kind", "hash_type", "signatures"}

\* The channel leaves the coins alone.
Owned(tx) ==
  \A i \in DOMAIN tx.inputs :
    /\ InputFields \subseteq DOMAIN tx.inputs[i]
    /\ tx.inputs[i].kind # "key" => tx.inputs[i].owner \in Identities

\* A signature verifies; a key hash's is its owner's, and says the input's type.
SignatureStands(tx, i, s) ==
  /\ verify(tx, i, s)
  /\ tx.inputs[i].kind = "key" => s.by = tx.inputs[i].owner /\ s.says = tx.inputs[i].hash_type

\* Whatever was signed can be finalized.
InputStands(tx, i) ==
  /\ tx.inputs[i].signatures # <<>> => Hashable(tx, tx.inputs[i].hash_type, i)
  /\ \A j \in DOMAIN tx.inputs[i].signatures : SignatureStands(tx, i, tx.inputs[i].signatures[j])

Stands(tx) == \A i \in DOMAIN tx.inputs : InputStands(tx, i)

Counts(tx) == IsList(tx.inputs) /\ Owned(tx) /\ (alterations = 0 => Stands(tx))

CountInv ==
  /\ alterations \in Nat
  /\ \A k \in Keys : hand[k] # None => Counts(hand[k])
  /\ \A blob \in carried :
       /\ Counts(blob.tx)
       /\ blob.version # 2 => \A i \in DOMAIN blob.tx.inputs : blob.tx.inputs[i].hash_type = All

\* The inputs of a transaction, each changed in its place.
LEMMA ListOfInputs ==
  ASSUME NEW s, IsList(s), NEW t, DOMAIN t = DOMAIN s, t = [i \in DOMAIN t |-> t[i]]
  PROVE  IsList(t) /\ Len(t) = Len(s) /\ DOMAIN t = 1..Len(t)
<1>1. PICK S : s \in Seq(S)
  BY DEF IsList
<1>2. DOMAIN s = 1..Len(s) /\ Len(s) \in Nat
  BY <1>1
<1> DEFINE T == {t[i] : i \in DOMAIN t}
<1>3. t \in [1..Len(s) -> T]
  BY <1>2
<1>4. t \in Seq(T)
  BY <1>2, <1>3
<1>5. DOMAIN t = 1..Len(t) /\ Len(t) \in Nat
  BY <1>4
<1> HIDE DEF T
<1>6. Len(t) = Len(s)
  BY <1>2, <1>5
<1> QED BY <1>4, <1>5, <1>6 DEF IsList

\* A list with something in it.
LEMMA NotEmpty == ASSUME NEW s, IsList(s) PROVE s # <<>> <=> \E j : j \in DOMAIN s
<1>1. PICK S : s \in Seq(S)
  BY DEF IsList
<1>2. DOMAIN s = 1..Len(s) /\ Len(s) \in Nat /\ (s # <<>> <=> Len(s) # 0)
  BY <1>1, EmptySeq
<1>3. Len(s) # 0 <=> 1 \in 1..Len(s)
  BY <1>2
<1>4. \A j \in 1..Len(s) : Len(s) # 0
  BY <1>2
<1> QED BY <1>2, <1>3, <1>4

\* Another transaction with the same coins.
LEMMA OwnedStays ==
  ASSUME NEW old, Owned(old), NEW new, DOMAIN new.inputs = DOMAIN old.inputs,
         \A i \in DOMAIN old.inputs :
           /\ DOMAIN new.inputs[i] = DOMAIN old.inputs[i]
           /\ new.inputs[i].kind = old.inputs[i].kind /\ new.inputs[i].owner = old.inputs[i].owner
  PROVE  Owned(new)
BY DEF Owned

\* What an input's signatures are over is the same in both.
LEMMA SameHash ==
  ASSUME NEW old, NEW new, NEW i \in DOMAIN old.inputs,
         new.outputs = old.outputs, new.expiry = old.expiry, DOMAIN new.inputs = DOMAIN old.inputs,
         \A l \in DOMAIN old.inputs : new.inputs[l].outpoint = old.inputs[l].outpoint,
         new.inputs[i].owner = old.inputs[i].owner, new.inputs[i].value = old.inputs[i].value,
         new.inputs[i].hash_type = old.inputs[i].hash_type
  PROVE  /\ sighash(new, i) = sighash(old, i)
         /\ Hashable(new, new.inputs[i].hash_type, i) <=> Hashable(old, old.inputs[i].hash_type, i)
<1>1. [l \in DOMAIN new.inputs |-> new.inputs[l].outpoint] = [l \in DOMAIN old.inputs |-> old.inputs[l].outpoint]
  OBVIOUS
<1>2. \A type : Prevouts(new, type) = Prevouts(old, type) /\ BoundOutputs(new, type, i) = BoundOutputs(old, type, i)
  BY <1>1 DEF Prevouts, BoundOutputs
<1>3. sighash(new, i) = sighash(old, i)
  BY <1>2 DEF sighash
<1>4. Hashable(new, new.inputs[i].hash_type, i) <=> Hashable(old, old.inputs[i].hash_type, i)
  BY DEF Hashable
<1> QED BY <1>3, <1>4

-----------------------------------------------------------------------------
LEMMA InitCounts == Init => CountInv
BY DEF Init, CountInv

\* A plan is started from coins that belong to keys or identities.
LEMMA StartCounts == ASSUME NEW plan \in Plans PROVE Counts(start(plan))
<1> DEFINE tx == start(plan)
<1>1. tx.inputs = [i \in DOMAIN plan.inputs |->
        [outpoint |-> plan.inputs[i].outpoint, owner |-> plan.inputs[i].owner,
         value |-> plan.inputs[i].value, kind |-> plan.inputs[i].kind,
         hash_type |-> All, signatures |-> <<>>]]
  BY DEF start
<1>2. /\ DOMAIN tx.inputs = DOMAIN plan.inputs
      /\ \A i \in DOMAIN tx.inputs :
           /\ DOMAIN tx.inputs[i] = InputFields /\ tx.inputs[i].signatures = <<>>
           /\ tx.inputs[i].kind = plan.inputs[i].kind /\ tx.inputs[i].owner = plan.inputs[i].owner
  BY <1>1 DEF InputFields
<1>3. tx.inputs = [i \in DOMAIN tx.inputs |-> tx.inputs[i]]
  BY <1>1
<1>4. IsList(plan.inputs) /\ \A i \in DOMAIN plan.inputs : plan.inputs[i].kind = "key" \/ plan.inputs[i].owner \in Identities
  BY PlansAssumption DEF IsList, ToSet
<1> HIDE DEF tx
<1>6. Owned(tx)
  BY <1>2, <1>4 DEF Owned
<1>7. \A i \in DOMAIN tx.inputs : InputStands(tx, i)
  BY <1>2 DEF InputStands
<1>8. IsList(tx.inputs)
  BY <1>2, <1>3, <1>4, ListOfInputs
<1> QED BY <1>6, <1>7, <1>8 DEF Counts, Stands, tx

\* An input is retyped before it is signed.
LEMMA RetypeCounts ==
  ASSUME NEW old, Good(old), Counts(old), NEW i \in DOMAIN old.inputs, NEW type, MayRetype(old, i, type)
  PROVE  Counts([old EXCEPT !.inputs[i].hash_type = type])
<1> DEFINE new == [old EXCEPT !.inputs[i].hash_type = type]
<1>1. new.inputs = [old.inputs EXCEPT ![i] = [old.inputs[i] EXCEPT !.hash_type = type]]
  BY DEF Good, IsPartial
<1>2. new.outputs = old.outputs /\ new.expiry = old.expiry
  BY DEF Good, IsPartial
<1> HIDE DEF new
<1>3. /\ DOMAIN new.inputs = DOMAIN old.inputs
      /\ new.inputs = [l \in DOMAIN new.inputs |-> new.inputs[l]]
      /\ \A l \in DOMAIN old.inputs : l # i => new.inputs[l] = old.inputs[l]
      /\ new.inputs[i] = [old.inputs[i] EXCEPT !.hash_type = type]
  BY <1>1
<1>4. \A l \in DOMAIN old.inputs :
        /\ DOMAIN new.inputs[l] = DOMAIN old.inputs[l]
        /\ new.inputs[l].kind = old.inputs[l].kind /\ new.inputs[l].owner = old.inputs[l].owner
        /\ new.inputs[l].outpoint = old.inputs[l].outpoint /\ new.inputs[l].value = old.inputs[l].value
        /\ new.inputs[l].signatures = old.inputs[l].signatures
        /\ l # i => new.inputs[l].hash_type = old.inputs[l].hash_type
  BY <1>3 DEF Counts, Owned, InputFields
<1>5. Owned(new)
  BY <1>3, <1>4, OwnedStays DEF Counts
<1>l. IsList(new.inputs)
  BY <1>3, ListOfInputs DEF Counts
<1>6. ASSUME alterations = 0 PROVE Stands(new)
  <2>2. ASSUME NEW l \in DOMAIN new.inputs PROVE InputStands(new, l)
    <3>1. CASE l = i
      BY <1>3, <1>4, <3>1 DEF MayRetype, InputStands
    <3>2. CASE l # i
      <4>1. /\ sighash(new, l) = sighash(old, l)
            /\ Hashable(new, new.inputs[l].hash_type, l) <=> Hashable(old, old.inputs[l].hash_type, l)
        BY <1>2, <1>3, <1>4, <3>2, SameHash
      <4>2. InputStands(old, l)
        BY <1>3, <1>6 DEF Counts, Stands
      <4> QED BY <1>3, <1>4, <3>2, <4>1, <4>2 DEF InputStands, SignatureStands, verify
    <3> QED BY <3>1, <3>2
  <2> QED BY <2>2 DEF Stands
<1> QED BY <1>l, <1>5, <1>6 DEF Counts, new

\* sign, a second time: what it adds verifies.
LEMMA SignCounts ==
  ASSUME NEW k \in Keys, NEW old, Good(old), Counts(old), NEW new, new = sign(old, k)
  PROVE  Counts(new)
<1>0. IsPartial(old)
  BY DEF Good
<1>1. /\ new.outputs = old.outputs /\ new.expiry = old.expiry
      /\ DOMAIN new.inputs = DOMAIN old.inputs
      /\ new.inputs = [i \in DOMAIN new.inputs |-> new.inputs[i]]
  BY <1>0, SignedTransaction
<1>2. ASSUME NEW i \in DOMAIN old.inputs
      PROVE  /\ DOMAIN new.inputs[i] = DOMAIN old.inputs[i]
             /\ \A f \in DOMAIN old.inputs[i] : f # "signatures" => new.inputs[i][f] = old.inputs[i][f]
             /\ IsList(new.inputs[i].signatures)
             /\ \A j \in DOMAIN new.inputs[i].signatures :
                  \/ new.inputs[i].signatures[j] = Fresh(old, k, i) /\ Signs(old, k, i)
                  \/ j \in DOMAIN old.inputs[i].signatures /\ new.inputs[i].signatures[j] = old.inputs[i].signatures[j]
  BY <1>0, SignedInput
<1>3. \A i \in DOMAIN old.inputs :
        /\ new.inputs[i].kind = old.inputs[i].kind /\ new.inputs[i].owner = old.inputs[i].owner
        /\ new.inputs[i].outpoint = old.inputs[i].outpoint /\ new.inputs[i].value = old.inputs[i].value
        /\ new.inputs[i].hash_type = old.inputs[i].hash_type
  BY <1>2 DEF Counts, Owned, InputFields
<1>4. Owned(new)
  BY <1>1, <1>2, <1>3, OwnedStays DEF Counts
<1>l. IsList(new.inputs) /\ DOMAIN new.inputs = 1..Len(new.inputs)
  BY <1>1, ListOfInputs DEF Counts
<1>5. ASSUME alterations = 0 PROVE Stands(new)
  <2>1. \A i \in DOMAIN old.inputs : InputStands(old, i)
    BY <1>5 DEF Counts, Stands
  <2>3. ASSUME NEW i \in DOMAIN new.inputs PROVE InputStands(new, i)
    <3>1. /\ sighash(new, i) = sighash(old, i)
          /\ Hashable(new, new.inputs[i].hash_type, i) <=> Hashable(old, old.inputs[i].hash_type, i)
      BY <1>1, <1>3, SameHash
    <3>2. ASSUME NEW j \in DOMAIN new.inputs[i].signatures
          PROVE  SignatureStands(new, i, new.inputs[i].signatures[j])
      <4>1. CASE new.inputs[i].signatures[j] = Fresh(old, k, i) /\ Signs(old, k, i)
        <5>1. verify(new, i, Fresh(old, k, i))
          BY <3>1 DEF Fresh, new_signature, verify
        <5>2. old.inputs[i].kind = "key" => /\ Fresh(old, k, i).by = old.inputs[i].owner
                                            /\ Fresh(old, k, i).says = old.inputs[i].hash_type
          BY <4>1 DEF Fresh, new_signature, Signs, Signable
        <5> QED BY <1>1, <1>3, <4>1, <5>1, <5>2 DEF SignatureStands
      <4>2. CASE j \in DOMAIN old.inputs[i].signatures /\ new.inputs[i].signatures[j] = old.inputs[i].signatures[j]
        BY <1>1, <1>3, <2>1, <3>1, <4>2 DEF InputStands, SignatureStands, verify
      <4> QED BY <1>1, <1>2, <4>1, <4>2
    <3>3. ASSUME new.inputs[i].signatures # <<>> PROVE Hashable(old, old.inputs[i].hash_type, i)
      <4>1. PICK j : j \in DOMAIN new.inputs[i].signatures
        BY <1>1, <1>2, <3>3, NotEmpty
      <4>2. CASE Signs(old, k, i)
        <5>1. i \in 1..i
          BY <1>l
        <5> QED BY <4>2, <5>1 DEF Signs, Reached
      <4>3. CASE j \in DOMAIN old.inputs[i].signatures
        BY <1>1, <2>1, <4>3 DEF InputStands
      <4> QED BY <1>1, <1>2, <4>1, <4>2, <4>3
    <3> QED BY <3>1, <3>2, <3>3 DEF InputStands
  <2> QED BY <2>3 DEF Stands
<1> QED BY <1>l, <1>4, <1>5 DEF Counts

\* A transaction that says the same.
LEMMA SameCounts ==
  ASSUME NEW old, Counts(old), NEW new,
         new.outputs = old.outputs, new.expiry = old.expiry, DOMAIN new.inputs = DOMAIN old.inputs,
         new.inputs = [i \in DOMAIN new.inputs |-> new.inputs[i]],
         \A i \in DOMAIN old.inputs :
           DOMAIN new.inputs[i] = DOMAIN old.inputs[i] /\ \A f \in InputFields : new.inputs[i][f] = old.inputs[i][f]
  PROVE  Counts(new)
<1>1. \A i \in DOMAIN old.inputs :
        /\ new.inputs[i].kind = old.inputs[i].kind /\ new.inputs[i].owner = old.inputs[i].owner
        /\ new.inputs[i].outpoint = old.inputs[i].outpoint /\ new.inputs[i].value = old.inputs[i].value
        /\ new.inputs[i].hash_type = old.inputs[i].hash_type
        /\ new.inputs[i].signatures = old.inputs[i].signatures
  BY DEF InputFields
<1>3. Owned(new)
  BY <1>1, OwnedStays DEF Counts
<1>l. IsList(new.inputs)
  BY ListOfInputs DEF Counts
<1>4. ASSUME alterations = 0 PROVE Stands(new)
  <2>2. ASSUME NEW i \in DOMAIN new.inputs PROVE InputStands(new, i)
    <3>1. /\ sighash(new, i) = sighash(old, i)
          /\ Hashable(new, new.inputs[i].hash_type, i) <=> Hashable(old, old.inputs[i].hash_type, i)
      BY <1>1, SameHash
    <3>2. InputStands(old, i)
      BY <1>4 DEF Counts, Stands
    <3> QED BY <1>1, <3>1, <3>2 DEF InputStands, SignatureStands, verify
  <2> QED BY <2>2 DEF Stands
<1> QED BY <1>l, <1>3, <1>4 DEF Counts

\* What arrives says what was sent, in either version.
LEMMA ReadingCounts ==
  ASSUME CountInv, NEW blob \in carried, Good(blob.tx) PROVE Counts(from_bytes(blob))
<1>1. CASE blob.version = 2
  BY <1>1 DEF CountInv, from_bytes
<1>2. CASE blob.version # 2
  <2> DEFINE old == blob.tx
             new == from_bytes(blob)
  <2>1. new = [old EXCEPT !.inputs = [i \in DOMAIN old.inputs |-> [old.inputs[i] EXCEPT !.hash_type = All]]]
    BY <1>2 DEF from_bytes
  <2>2. Counts(old) /\ \A i \in DOMAIN old.inputs : old.inputs[i].hash_type = All
    BY <1>2 DEF CountInv
  <2>3. /\ new.outputs = old.outputs /\ new.expiry = old.expiry
        /\ new.inputs = [i \in DOMAIN old.inputs |-> [old.inputs[i] EXCEPT !.hash_type = All]]
    BY <2>1 DEF Good, IsPartial
  <2> HIDE DEF old, new
  <2>4. DOMAIN new.inputs = DOMAIN old.inputs /\ new.inputs = [i \in DOMAIN new.inputs |-> new.inputs[i]]
    BY <2>3
  <2>5. ASSUME NEW i \in DOMAIN old.inputs
        PROVE  DOMAIN new.inputs[i] = DOMAIN old.inputs[i] /\ \A f \in InputFields : new.inputs[i][f] = old.inputs[i][f]
    <3>1. new.inputs[i] = [old.inputs[i] EXCEPT !.hash_type = All] /\ old.inputs[i].hash_type = All
      BY <2>2, <2>3
    <3>2. InputFields \subseteq DOMAIN old.inputs[i]
      BY <2>2 DEF Counts, Owned
    <3> QED BY <3>1, <3>2
  <2>6. Counts(new)
    BY <2>2, <2>3, <2>4, <2>5, SameCounts
  <2> QED BY <2>6 DEF new
<1> QED BY <1>1, <1>2

\* An altered copy is of the same coins.
LEMMA AlteringOwned ==
  ASSUME NEW old, Good(old), Owned(old), IsList(old.inputs), NEW new \in Altered(old)
  PROVE  Owned(new) /\ IsList(new.inputs)
<1>1. Descends(new, old)
  BY AlteredDescends DEF Good
<1>2. \A i \in DOMAIN old.inputs : InputFrom(new.inputs[i], old.inputs[i]) /\ InputFields \subseteq DOMAIN old.inputs[i]
  BY <1>1 DEF Descends, Owned
<1>3. \A i \in DOMAIN old.inputs :
        /\ DOMAIN new.inputs[i] = DOMAIN old.inputs[i]
        /\ new.inputs[i].kind = old.inputs[i].kind /\ new.inputs[i].owner = old.inputs[i].owner
  BY <1>2 DEF InputFrom, InputFields
<1>4. DOMAIN new.inputs = DOMAIN old.inputs
  BY <1>1 DEF Descends
<1>5. Owned(new)
  BY <1>3, <1>4, OwnedStays
<1>6. IsList(new.inputs)
  <2>1. CASE \E o \in DOMAIN old.outputs, p \in Strangers : new = [old EXCEPT !.outputs[o].owner = p]
    BY <2>1 DEF Good, IsPartial
  <2>2. CASE \E i \in DOMAIN old.inputs : \E input \in AlteredInput(old, i) : new = [old EXCEPT !.inputs[i] = input]
    <3>1. PICK i \in DOMAIN old.inputs : \E input \in AlteredInput(old, i) : new = [old EXCEPT !.inputs[i] = input]
      BY <2>2
    <3>2. PICK input \in AlteredInput(old, i) : new = [old EXCEPT !.inputs[i] = input]
      BY <3>1
    <3>3. new.inputs = [old.inputs EXCEPT ![i] = input]
      BY <3>2 DEF Good, IsPartial
    <3>4. PICK S : old.inputs \in Seq(S)
      BY DEF IsList
    <3>5. old.inputs \in Seq(S \cup {input}) /\ i \in 1..Len(old.inputs) /\ input \in S \cup {input}
      BY <3>4
    <3>6. new.inputs \in Seq(S \cup {input})
      BY <3>3, <3>5, ExceptSeq
    <3> QED BY <3>6 DEF IsList
  <2> QED BY <2>1, <2>2 DEF Altered
<1> QED BY <1>5, <1>6

-----------------------------------------------------------------------------
\* What counts does not depend on anything but whether copies were altered.
LEMMA CountsStays == ASSUME NEW tx, Counts(tx), alterations' = alterations PROVE Counts(tx)'
BY DEF Counts, Owned, Stands, InputStands, SignatureStands

LEMMA NextCounts == ASSUME IInv, CountInv, [Next]_vars PROVE CountInv'
<1> USE DEF CountInv
<1>0. \A tx : Counts(tx) /\ alterations' = alterations => Counts(tx)'
  BY CountsStays
<1>1. ASSUME NEW k \in Keys, Start(k) \/ Retype(k) \/ Receive(k) \/ Sign(k) PROVE CountInv'
  <2>0. UNCHANGED <<carried, alterations>>
    BY <1>1 DEF Start, Retype, Receive, Sign
  <2>1. PICK tx : hand' = [hand EXCEPT ![k] = tx] /\ Counts(tx)
    <3>1. CASE Start(k)
      BY <3>1, StartCounts DEF Start
    <3>2. CASE Retype(k)
      <4>1. PICK i \in DOMAIN hand[k].inputs, type \in HashTypes :
              MayRetype(hand[k], i, type) /\ hand' = [hand EXCEPT ![k].inputs[i].hash_type = type]
        BY <3>2 DEF Retype
      <4> DEFINE tx == [hand[k] EXCEPT !.inputs[i].hash_type = type]
      <4>2. hand' = [hand EXCEPT ![k] = tx]
        BY <4>1
      <4>3. Good(hand[k]) /\ Counts(hand[k])
        BY <3>2 DEF Retype, IInv, HandsAreGood
      <4>4. Counts(tx)
        BY <4>1, <4>3, RetypeCounts
      <4> HIDE DEF tx
      <4> QED BY <4>2, <4>4
    <3>3. CASE Receive(k)
      <4>1. PICK blob \in carried : hand' = [hand EXCEPT ![k] = from_bytes(blob)]
        BY <3>3 DEF Receive
      <4>2. Counts(from_bytes(blob))
        BY ReadingCounts DEF IInv, CopiesAreGood
      <4> QED BY <4>1, <4>2
    <3>4. CASE Sign(k)
      <4>1. hand' = [hand EXCEPT ![k] = sign(hand[k], k)] /\ Good(hand[k]) /\ Counts(hand[k])
        BY <3>4 DEF Sign, IInv, HandsAreGood
      <4>2. \A tx : tx = sign(hand[k], k) => Counts(tx)
        BY <4>1, SignCounts
      <4> QED BY <4>1, <4>2
    <3> QED BY <1>1, <3>1, <3>2, <3>3, <3>4
  <2>2. DOMAIN hand = Keys /\ Counts(tx)'
    BY <1>0, <2>0, <2>1 DEF IInv, HandsAreGood
  <2>3. ASSUME NEW l \in Keys, hand'[l] # None PROVE Counts(hand[l])'
    <3>1. CASE l = k
      BY <2>1, <2>2, <3>1
    <3>2. CASE l # k
      <4>1. hand'[l] = hand[l] /\ Counts(hand[l])
        BY <2>1, <2>2, <2>3, <3>2
      <4> QED BY <1>0, <2>0, <4>1
    <3> QED BY <3>1, <3>2
  <2> QED BY <1>0, <2>0, <2>3
<1>2. ASSUME NEW k \in Keys, Hand(k) PROVE CountInv'
  <2>1. carried' = carried \cup {to_bytes(hand[k])} /\ UNCHANGED <<hand, alterations>> /\ Counts(hand[k])
    BY <1>2 DEF Hand
  <2>2. to_bytes(hand[k]).version = 2 /\ to_bytes(hand[k]).tx = hand[k]
    BY DEF to_bytes
  <2> QED BY <1>0, <2>1, <2>2
<1>3. CASE Alter
  <2>0. PICK blob \in carried : \E tx \in Altered(blob.tx) : carried' = (carried \ {blob}) \cup {to_bytes(tx)}
    BY <1>3 DEF Alter
  <2>1. PICK tx \in Altered(blob.tx) : carried' = (carried \ {blob}) \cup {to_bytes(tx)}
    BY <2>0
  <2>2. hand' = hand /\ alterations' \in Nat /\ alterations' # 0
    BY <1>3 DEF Alter
  <2>3. \A t : Owned(t) /\ IsList(t.inputs) => Counts(t)'
    BY <2>2 DEF Counts, Owned
  <2>4. Good(blob.tx) /\ Owned(blob.tx) /\ IsList(blob.tx.inputs)
    BY DEF IInv, CopiesAreGood, Counts
  <2>5. Owned(tx) /\ IsList(tx.inputs)
    BY <2>4, AlteringOwned
  <2>6. to_bytes(tx).version = 2 /\ to_bytes(tx).tx = tx
    BY DEF to_bytes
  <2> QED BY <2>1, <2>2, <2>3, <2>5, <2>6 DEF Counts
<1>4. CASE CarryOld
  <2>1. PICK blob \in carried :
          /\ commits_to_all_outputs(summary(blob.tx))
          /\ carried' = (carried \ {blob}) \cup {[version |-> 1, tx |-> blob.tx]}
    BY <1>4 DEF CarryOld
  <2>2. UNCHANGED <<hand, alterations>>
    BY <1>4 DEF CarryOld
  <2>3. \A i \in DOMAIN blob.tx.inputs : blob.tx.inputs[i].hash_type = All
    BY <2>1 DEF commits_to_all_outputs, summary
  <2> QED BY <1>0, <2>1, <2>2, <2>3
<1>5. CASE Lose \/ UNCHANGED vars \/ \E k \in Keys : Finalize(k)
  <2>1. carried' \subseteq carried /\ UNCHANGED <<hand, alterations>>
    BY <1>5 DEF Lose, Finalize, vars
  <2> QED BY <1>0, <2>1
<1> QED BY <1>1, <1>2, <1>3, <1>4, <1>5 DEF Next

\* What verify lets through the chain does, where the signature says the type
\* it was made under.
LEMMA VerifiedIsChecked ==
  ASSUME NEW tx, {"inputs", "outputs", "expiry"} \subseteq DOMAIN tx, Owned(tx),
         NEW i \in DOMAIN tx.inputs, Hashable(tx, tx.inputs[i].hash_type, i),
         NEW s, verify(tx, i, s), tx.inputs[i].kind = "key" => s.says = tx.inputs[i].hash_type
  PROVE  CheckSig(tx, i, s)
<1> DEFINE type  == IF tx.inputs[i].kind = "key" THEN s.says ELSE tx.inputs[i].hash_type
           typed == [tx EXCEPT !.inputs[i].hash_type = type]
<1>1. type = tx.inputs[i].hash_type
  OBVIOUS
<1> HIDE DEF type
<1>2. /\ typed.outputs = tx.outputs /\ typed.expiry = tx.expiry /\ DOMAIN typed.inputs = DOMAIN tx.inputs
      /\ \A l \in DOMAIN tx.inputs : typed.inputs[l].outpoint = tx.inputs[l].outpoint
      /\ typed.inputs[i].owner = tx.inputs[i].owner /\ typed.inputs[i].value = tx.inputs[i].value
      /\ typed.inputs[i].hash_type = tx.inputs[i].hash_type
  BY <1>1 DEF Owned, InputFields
<1> HIDE DEF typed
<1>3. sighash(typed, i) = sighash(tx, i)
  BY <1>2, SameHash
<1>4. Hashable(tx, type, i) /\ s.maker = s.by /\ s.over = sighash(typed, i)
  BY <1>1, <1>3 DEF verify
<1> QED BY <1>4 DEF CheckSig, type, typed

\* What finalizes with enough signatures is taken: a key's coin for the first
\* of them, where that is the key's as it was made, and a condition's for all.
LEMMA EnoughIsTaken ==
  ASSUME NEW tx, Good(tx), Owned(tx), IsList(tx.inputs), Enough(tx), Finalizable(tx),
         \A i \in DOMAIN tx.inputs : AsSigned(tx.inputs[i])
  PROVE  Accepted(finalize(tx))
<1> DEFINE end == finalize(tx)
<1>1. /\ end.outputs = tx.outputs /\ end.expiry = tx.expiry
      /\ end.inputs = [i \in DOMAIN tx.inputs |-> [tx.inputs[i] EXCEPT !.signatures = Unlocking(tx.inputs[i])]]
  BY DEF finalize, Good, IsPartial
<1> HIDE DEF end
<1>2. /\ DOMAIN end.inputs = DOMAIN tx.inputs
      /\ \A i \in DOMAIN tx.inputs :
           /\ DOMAIN end.inputs[i] = DOMAIN tx.inputs[i]
           /\ end.inputs[i].kind = tx.inputs[i].kind /\ end.inputs[i].owner = tx.inputs[i].owner
           /\ end.inputs[i].outpoint = tx.inputs[i].outpoint /\ end.inputs[i].value = tx.inputs[i].value
           /\ end.inputs[i].hash_type = tx.inputs[i].hash_type
           /\ end.inputs[i].signatures = Unlocking(tx.inputs[i])
  BY <1>1 DEF Owned, InputFields
<1>hash. \A i \in DOMAIN tx.inputs : sighash(end, i) = sighash(tx, i)
  <2> TAKE i \in DOMAIN tx.inputs
  <2>1. \A l \in DOMAIN tx.inputs : end.inputs[l].outpoint = tx.inputs[l].outpoint
    BY <1>2
  <2>2. /\ end.inputs[i].owner = tx.inputs[i].owner /\ end.inputs[i].value = tx.inputs[i].value
        /\ end.inputs[i].hash_type = tx.inputs[i].hash_type
        /\ end.outputs = tx.outputs /\ end.expiry = tx.expiry /\ DOMAIN end.inputs = DOMAIN tx.inputs
    BY <1>1, <1>2
  <2> QED BY <2>1, <2>2, SameHash
<1>end. {"inputs", "outputs", "expiry"} \subseteq DOMAIN end /\ Owned(end)
  <2>1. Owned(end)
    BY <1>2, OwnedStays
  <2> QED BY <2>1 DEF end, finalize, Good, IsPartial
<1>typed. \A i \in DOMAIN tx.inputs : Hashable(end, end.inputs[i].hash_type, i)
  <2>1. \A i \in DOMAIN tx.inputs : Hashable(tx, tx.inputs[i].hash_type, i)
    <3>1. PICK S : tx.inputs \in Seq(S)
      BY DEF IsList
    <3>2. DOMAIN tx.inputs = 1..Len(tx.inputs)
      BY <3>1
    <3> QED BY <3>2 DEF Finalizable, Reached
  <2> QED BY <1>1, <1>2, <2>1 DEF Hashable
<1>3. ASSUME NEW i \in DOMAIN end.inputs PROVE Satisfied(end, i)
  <2> DEFINE list  == tx.inputs[i].signatures
             taken == end.inputs[i].signatures
             good  == {s \in ToSet(taken) : CheckSig(end, i, s)}
             by    == {s.by : s \in good}
  <2>1. IsList(list) /\ list # <<>> /\ \A s \in ToSet(list) : verify(tx, i, s)
    BY <1>2 DEF Good, IsPartial, Finalizable, ToSet
  <2>2. \A s \in ToSet(list) : verify(end, i, s)
    <3>1. i \in DOMAIN tx.inputs
      BY <1>2
    <3>2. sighash(end, i) = sighash(tx, i)
      BY <1>hash, <3>1
    <3> QED BY <2>1, <3>2 DEF verify
  <2>c. ASSUME NEW s \in ToSet(list), tx.inputs[i].kind = "key" => s.says = tx.inputs[i].hash_type
        PROVE  CheckSig(end, i, s)
    BY <1>2, <1>end, <1>typed, <2>2, <2>c, VerifiedIsChecked
  <2>3. CASE tx.inputs[i].kind = "key"
    <3>1. taken = SubSeq(list, 1, 1)
      BY <1>2, <2>3 DEF Unlocking
    <3>2. 1 \in DOMAIN list /\ ToSet(taken) = {list[1]}
      <4>1. PICK S : list \in Seq(S)
        BY <2>1 DEF IsList
      <4>2. Len(list) \in Nat /\ Len(list) # 0 /\ DOMAIN list = 1..Len(list)
        BY <2>1, <4>1, EmptySeq
      <4> HIDE DEF list, taken
      <4>3. 1 \in 1..Len(list) /\ \A m \in 1..1 : list[m] \in S
        BY <4>1, <4>2
      <4>4. /\ SubSeq(list, 1, 1) \in Seq(S) /\ Len(SubSeq(list, 1, 1)) = 1
            /\ SubSeq(list, 1, 1)[1] = list[1]
        BY <4>3, SubSeqProperties
      <4>5. DOMAIN taken = {1} /\ taken[1] = list[1]
        BY <3>1, <4>4
      <4>6. ToSet(taken) = {list[1]}
        BY <4>5 DEF ToSet
      <4> QED BY <4>2, <4>3, <4>6
    <3>3. list[1].by = tx.inputs[i].owner /\ list[1].says = tx.inputs[i].hash_type
      BY <1>2, <2>3 DEF AsSigned
    <3>4. good = {list[1]}
      BY <2>c, <3>2, <3>3 DEF ToSet
    <3> HIDE DEF list, taken, good
    <3>5. by = {end.inputs[i].owner}
      BY <1>2, <3>3, <3>4
    <3> HIDE DEF by
    <3> QED BY <1>2, <2>3, <3>5 DEF Satisfied, by, good, taken
  <2>4. CASE tx.inputs[i].kind # "key"
    <3>1. taken = list
      BY <1>2, <2>4 DEF Unlocking
    <3>2. good = ToSet(list)
      BY <2>4, <2>c, <3>1
    <3>3. by = Signers(tx.inputs[i])
      <4>1. Signers(tx.inputs[i]) = {s.by : s \in ToSet(list)}
        BY DEF ToSet, Signers
      <4> QED BY <3>2, <4>1
    <3>4. Cardinality(by \cap Primary[end.inputs[i].owner]) \geq Minimum[end.inputs[i].owner]
      BY <1>2, <2>4, <3>3 DEF Enough
    <3> QED BY <1>2, <2>4, <3>4 DEF Satisfied
  <2> QED BY <2>3, <2>4
<1> QED BY <1>3 DEF Accepted, end

\* Nothing that was signed and not altered stands in the way.
LEMMA EnoughFinalizes ==
  ASSUME NEW tx, Good(tx), Owned(tx), IsList(tx.inputs), Stands(tx), Enough(tx) PROVE Finalizable(tx)
<1>1. ASSUME NEW i \in DOMAIN tx.inputs PROVE tx.inputs[i].signatures # <<>>
  <2>1. SUFFICES ASSUME tx.inputs[i].signatures = <<>> PROVE FALSE
    OBVIOUS
  <2>2. Signers(tx.inputs[i]) = {}
    BY <2>1 DEF Signers
  <2>3. CASE tx.inputs[i].kind = "key"
    BY <2>2, <2>3 DEF Enough
  <2>4. CASE tx.inputs[i].kind # "key"
    <3> DEFINE owner == tx.inputs[i].owner
    <3>1. owner \in Identities /\ Cardinality(Signers(tx.inputs[i]) \cap Primary[owner]) \geq Minimum[owner]
      BY <2>4 DEF Owned, Enough
    <3>2. Cardinality(Signers(tx.inputs[i]) \cap Primary[owner]) = 0
      <4>1. Signers(tx.inputs[i]) \cap Primary[owner] = {}
        BY <2>2
      <4> QED BY <4>1, FS_EmptySet
    <3>3. Minimum[owner] \in Int /\ Minimum[owner] \geq 1
      BY <3>1, CoSigningAssumption
    <3> HIDE DEF owner
    <3> QED BY <3>1, <3>2, <3>3
  <2> QED BY <2>3, <2>4
<1>2. \A i \in DOMAIN tx.inputs : InputStands(tx, i)
  BY DEF Stands
<1>3. Reached(tx, Len(tx.inputs))
  <2>1. PICK S : tx.inputs \in Seq(S)
    BY DEF IsList
  <2>2. DOMAIN tx.inputs = 1..Len(tx.inputs)
    BY <2>1
  <2> QED BY <1>1, <1>2, <2>2 DEF Reached, InputStands
<1> QED BY <1>1, <1>2, <1>3 DEF Finalizable, InputStands, SignatureStands

\* Nor is it anything but what it was signed.
LEMMA UnalteredIsAsSigned ==
  ASSUME NEW tx, Good(tx), Stands(tx), Finalizable(tx), NEW i \in DOMAIN tx.inputs
  PROVE  AsSigned(tx.inputs[i])
<1>1. PICK S : tx.inputs[i].signatures \in Seq(S)
  BY DEF Good, IsPartial, IsList
<1>2. 1 \in DOMAIN tx.inputs[i].signatures
  BY <1>1, EmptySeq DEF Finalizable
<1> QED BY <1>2 DEF Stands, InputStands, SignatureStands, AsSigned

\* Enough signers, gathered in any order, over any route and with whatever
\* hash types they chose, make a transaction that finalizes and that the chain
\* takes; altered on the way, one that finalizes is taken where finalize takes
\* each key's own signature as it was made (sign, with_hash_type, finalize).
THEOREM EnoughSignersSpend == Spec => []EnoughIsAccepted
<1>1. IInv /\ CountInv => EnoughIsAccepted
  <2>1. SUFFICES ASSUME IInv, CountInv, NEW k \in Keys, hand[k] # None, Enough(hand[k])
                 PROVE  /\ alterations = 0 => Finalizable(hand[k]) /\ Accepted(finalize(hand[k]))
                        /\ Finalizable(hand[k]) /\ (\A i \in DOMAIN hand[k].inputs : AsSigned(hand[k].inputs[i])) =>
                             Accepted(finalize(hand[k]))
    BY DEF EnoughIsAccepted
  <2>2. Good(hand[k]) /\ Counts(hand[k])
    BY <2>1 DEF IInv, HandsAreGood, CountInv
  <2>3. ASSUME alterations = 0
        PROVE  Finalizable(hand[k]) /\ \A i \in DOMAIN hand[k].inputs : AsSigned(hand[k].inputs[i])
    <3>1. Finalizable(hand[k])
      BY <2>1, <2>2, <2>3, EnoughFinalizes DEF Counts
    <3>2. \A i \in DOMAIN hand[k].inputs : AsSigned(hand[k].inputs[i])
      BY <2>2, <2>3, <3>1, UnalteredIsAsSigned DEF Counts
    <3> QED BY <3>1, <3>2
  <2>4. Finalizable(hand[k]) /\ (\A i \in DOMAIN hand[k].inputs : AsSigned(hand[k].inputs[i])) =>
          Accepted(finalize(hand[k]))
    BY <2>1, <2>2, EnoughIsTaken DEF Counts
  <2> QED BY <2>3, <2>4
<1> QED BY <1>1, InitCounts, NextCounts, Inductive, PTL DEF Spec

-----------------------------------------------------------------------------
(***************************************************************************)
(* Logins.  Blocks come and the node catches up between the reads; what a  *)
(* verification read stays what the chain says of that height, and the     *)
(* height it read at lies between where it began and where it ended.       *)
(***************************************************************************)
IsSignature(g) == "block_height" \in DOMAIN g /\ g.block_height \in Nat \ {0}

\* The record read for a height by a node that was at s.
RecordAt(height, s) == history[IF height < s THEN height ELSE s]

ChainInv ==
  /\ history \in Seq(Records) /\ seen \in 1..Len(history)
  /\ gathered # Absent => IsSignature(gathered)

SessionInv ==
  session # Absent =>
    /\ DOMAIN session = {"signature", "request", "tip", "then"}
    /\ IsSignature(session.signature)
    /\ session.tip \in 1..seen
    /\ session.then # Absent =>
         /\ ~TooNew(session.signature.block_height, session.tip)
         /\ ~TooOld(session.signature.block_height, session.tip)
         /\ \E s \in session.tip..seen :
              session.then = RecordAt(session.signature.block_height, s)

VerdictInv == LoggedInMeansSigned /\ RevokedIsRefused /\ ProperLoginsSucceed

LoginInv == ChainInv /\ SessionInv /\ VerdictInv

\* Who is recovered from a signature, of an identity's keys, is who signed.
LEMMA RecoveredSigned ==
  ASSUME NEW record \in Records, NEW signature, NEW request
  PROVE  recover_signers(signature, request) \cap record.primary =
         {k \in Signatories : \E i \in DOMAIN signature.parts :
            /\ signature.parts[i].by = k
            /\ signature.parts[i].over = [height |-> signature.block_height, message |-> request]}
         \cap record.primary
<1> DEFINE over == [height |-> signature.block_height, message |-> request]
<1>1. record.primary \subseteq Signatories /\ Absent \notin Signatories
  BY LoginAssumption
<1>2. recover_signers(signature, request) =
        {Recovered(signature.parts[i], over) : i \in DOMAIN signature.parts}
  BY DEF recover_signers, identity_signature_hash
<1> HIDE DEF over
<1>3. ASSUME NEW k \in record.primary
      PROVE  k \in recover_signers(signature, request) <=>
             \E i \in DOMAIN signature.parts :
               signature.parts[i].by = k /\ signature.parts[i].over = over
  BY <1>1, <1>2 DEF Recovered
<1> QED BY <1>1, <1>3 DEF over

\* No verdict is out after a step that ends none.
LEMMA NoVerdict == ASSUME outcome = Absent PROVE VerdictInv
BY DEF VerdictInv, LoggedInMeansSigned, RevokedIsRefused, ProperLoginsSucceed

LEMMA LoginInitHolds == LoginInit => LoginInv
<1> SUFFICES ASSUME LoginInit PROVE LoginInv
  OBVIOUS
<1>1. PICK record \in Records : history = <<record>>
  BY DEF LoginInit
<1>2. history \in Seq(Records) /\ Len(history) = 1 /\ seen = 1
  BY <1>1 DEF LoginInit
<1>3. VerdictInv
  BY NoVerdict DEF LoginInit
<1> QED BY <1>2, <1>3 DEF LoginInit, LoginInv, ChainInv, SessionInv

\* What was read stays true of a chain that only grows.
LEMMA MineLogin == ASSUME LoginInv, Mine PROVE LoginInv'
<1>1. PICK record \in Records : history' = Append(history, record)
  BY DEF Mine
<1>2. /\ history \in Seq(Records) /\ history' \in Seq(Records)
      /\ Len(history') = Len(history) + 1 /\ Len(history) \in Nat
      /\ \A i \in 1..Len(history) : history'[i] = history[i]
  BY <1>1 DEF LoginInv, ChainInv
<1>3. UNCHANGED <<seen, gathered, session>> /\ outcome' = Absent /\ seen \in 1..Len(history)
  BY DEF Mine, LoginInv, ChainInv
<1>4. ChainInv'
  BY <1>2, <1>3 DEF LoginInv, ChainInv
<1>5. ASSUME NEW height \in Nat \ {0}, NEW s \in 1..seen
      PROVE  RecordAt(height, s)' = RecordAt(height, s)
  <2> DEFINE i == IF height < s THEN height ELSE s
  <2>1. i \in 1..Len(history)
    BY <1>2, <1>3
  <2>2. history'[i] = history[i]
    BY <1>2, <2>1
  <2> QED BY <2>2 DEF RecordAt
<1>6. SessionInv'
  <2> SUFFICES ASSUME session # Absent PROVE SessionInv'
    BY <1>3 DEF SessionInv
  <2>1. /\ session' = session /\ seen' = seen /\ session.tip \in 1..seen
        /\ IsSignature(session.signature) /\ DOMAIN session = {"signature", "request", "tip", "then"}
    BY <1>3 DEF LoginInv, SessionInv
  <2>2. ASSUME session.then # Absent
        PROVE  /\ ~TooNew(session.signature.block_height, session.tip)
               /\ ~TooOld(session.signature.block_height, session.tip)
               /\ \E s \in session.tip..seen :
                    session.then = RecordAt(session.signature.block_height, s)'
    <3>1. PICK s \in session.tip..seen : session.then = RecordAt(session.signature.block_height, s)
      BY <2>2 DEF LoginInv, SessionInv
    <3>2. s \in 1..seen /\ session.signature.block_height \in Nat \ {0}
      BY <1>2, <1>3, <2>1 DEF IsSignature
    <3>3. session.then = RecordAt(session.signature.block_height, s)'
      <4>1. \A h \in Nat \ {0} : RecordAt(h, s)' = RecordAt(h, s)
        BY <1>5, <3>2
      <4> QED BY <2>1, <3>1, <3>2, <4>1 DEF RecordAt
    <3> QED BY <2>2, <3>3 DEF LoginInv, SessionInv
  <2> QED BY <2>1, <2>2 DEF SessionInv
<1>7. VerdictInv'
  BY <1>3 DEF VerdictInv, LoggedInMeansSigned, RevokedIsRefused, ProperLoginsSucceed
<1> QED BY <1>4, <1>6, <1>7 DEF LoginInv

LEMMA CatchUpLogin == ASSUME LoginInv, NodeCatchesUp PROVE LoginInv'
<1>1. /\ seen < Len(history) /\ seen' = seen + 1 /\ outcome' = Absent
      /\ UNCHANGED <<history, gathered, session>>
      /\ history \in Seq(Records) /\ seen \in 1..Len(history)
  BY DEF NodeCatchesUp, tip, LoginInv, ChainInv
<1>2. ChainInv'
  BY <1>1 DEF LoginInv, ChainInv
<1>3. \A s \in 1..seen : s \in 1..seen'
  BY <1>1
<1>4. SessionInv'
  <2> SUFFICES ASSUME session # Absent PROVE SessionInv'
    BY <1>1 DEF SessionInv
  <2>1. /\ session' = session /\ session.tip \in 1..seen
        /\ IsSignature(session.signature) /\ DOMAIN session = {"signature", "request", "tip", "then"}
    BY <1>1 DEF LoginInv, SessionInv
  <2>2. ASSUME session.then # Absent
        PROVE  /\ ~TooNew(session.signature.block_height, session.tip)
               /\ ~TooOld(session.signature.block_height, session.tip)
               /\ \E s \in session.tip..seen' :
                    session.then = RecordAt(session.signature.block_height, s)'
    <3>1. PICK s \in session.tip..seen : session.then = RecordAt(session.signature.block_height, s)
      BY <2>2 DEF LoginInv, SessionInv
    <3>2. s \in session.tip..seen'
      BY <1>1, <2>1, <3>1
    <3>3. session.then = RecordAt(session.signature.block_height, s)'
      BY <1>1, <3>1 DEF RecordAt
    <3> QED BY <2>2, <3>2, <3>3 DEF LoginInv, SessionInv
  <2> QED BY <1>3, <2>1, <2>2 DEF SessionInv
<1>5. VerdictInv'
  BY <1>1 DEF VerdictInv, LoggedInMeansSigned, RevokedIsRefused, ProperLoginsSucceed
<1> QED BY <1>2, <1>4, <1>5 DEF LoginInv

\* However many sign, a signature keeps the height of the first.
LEMMA SignersLogin ==
  ASSUME LoginInv, NEW k \in Signatories, SignLogin(k) \/ AddSignature(k) \/ BuildSignature(k)
  PROVE  LoginInv'
<1>1. UNCHANGED <<history, seen, session>> /\ outcome' = Absent /\ session = Absent
  BY DEF SignLogin, AddSignature, BuildSignature
<1>2. ASSUME NEW g, IsSignature(g), NEW tag, NEW request
      PROVE  IsSignature(add_signature(g, k, tag, request))
  BY <1>2 DEF IsSignature, add_signature
<1>3. IsSignature(gathered')
  <2>1. CASE SignLogin(k)
    <3>1. PICK request \in Challenges : gathered' = sign_message(k, tip, request)
      BY <2>1 DEF SignLogin
    <3>2. tip \in Nat \ {0}
      BY DEF tip, LoginInv, ChainInv
    <3> HIDE DEF tip
    <3> QED BY <3>1, <3>2 DEF sign_message, IsSignature
  <2>2. CASE AddSignature(k) \/ BuildSignature(k)
    <3>1. IsSignature(gathered)
      BY <2>2 DEF AddSignature, BuildSignature, LoginInv, ChainInv
    <3>2. \E request, tag : gathered' = add_signature(gathered, k, tag, request)
      BY <2>2 DEF AddSignature, BuildSignature
    <3> QED BY <1>2, <3>1, <3>2
  <2> QED BY <2>1, <2>2
<1>4. VerdictInv'
  BY <1>1 DEF VerdictInv, LoggedInMeansSigned, RevokedIsRefused, ProperLoginsSucceed
<1> QED BY <1>1, <1>3, <1>4 DEF LoginInv, ChainInv, SessionInv

LEMMA ReadsLogin == ASSUME LoginInv, ReadTip \/ ReadAtSigning PROVE LoginInv'
<1>1. UNCHANGED <<history, seen, gathered>> /\ history \in Seq(Records) /\ seen \in 1..Len(history)
  BY DEF ReadTip, ReadAtSigning, LoginInv, ChainInv
<1>2. ChainInv'
  BY <1>1 DEF LoginInv, ChainInv
<1>3. CASE ReadTip
  <2>1. PICK request \in Challenges :
          session' = [signature |-> gathered, request |-> request, tip |-> seen, then |-> Absent]
    BY <1>3 DEF ReadTip
  <2>2. SessionInv'
    BY <1>1, <1>3, <2>1 DEF ReadTip, SessionInv, LoginInv, ChainInv
  <2>3. VerdictInv'
    BY <1>3 DEF ReadTip, VerdictInv, LoggedInMeansSigned, RevokedIsRefused, ProperLoginsSucceed
  <2> QED BY <1>2, <2>2, <2>3 DEF LoginInv
<1>4. CASE ReadAtSigning
  <2> DEFINE height == session.signature.block_height
  <2>1. /\ session # Absent /\ ~TooNew(height, session.tip) /\ ~TooOld(height, session.tip)
        /\ session' = [session EXCEPT !.then = RecordAt(height, seen)]
        /\ outcome' = outcome
    BY <1>4 DEF ReadAtSigning, identity_at, RecordAt
  <2>2. /\ session'.signature = session.signature /\ session'.tip = session.tip
        /\ session'.then = RecordAt(height, seen) /\ DOMAIN session' = DOMAIN session
        /\ session.tip \in 1..seen
    BY <2>1 DEF LoginInv, SessionInv
  <2>3. seen \in session.tip..seen
    BY <1>1, <2>2
  <2>5. SessionInv'
    <3> HIDE DEF height
    <3>1. session'.then = history'[IF height < seen THEN height ELSE seen]
      BY <1>1, <2>2 DEF RecordAt
    <3>2. /\ DOMAIN session' = {"signature", "request", "tip", "then"}
          /\ IsSignature(session'.signature) /\ session'.tip \in 1..seen'
      BY <1>1, <2>1, <2>2 DEF LoginInv, SessionInv
    <3>3. session'.signature.block_height = height
      BY <2>2 DEF height
    <3>4. ~TooNew(height, session'.tip) /\ ~TooOld(height, session'.tip)
      BY <2>1, <2>2
    <3>5. \E s \in session'.tip..seen' :
             session'.then = history'[IF height < s THEN height ELSE s]
      BY <1>1, <2>2, <2>3, <3>1
    <3> QED BY <3>2, <3>3, <3>4, <3>5 DEF SessionInv, RecordAt
  <2>6. VerdictInv'
    BY <1>1, <2>1 DEF LoginInv, VerdictInv, LoggedInMeansSigned, RevokedIsRefused,
                      ProperLoginsSucceed, SignedBy
  <2> QED BY <1>2, <2>5, <2>6 DEF LoginInv
<1> QED BY <1>3, <1>4

\* How far a step that ends a verification disturbs what is kept.
LEMMA EndLogin ==
  ASSUME LoginInv, RefuseByHeight \/ ReadNowAndDecide
  PROVE  /\ UNCHANGED <<history, seen, gathered>> /\ session' = Absent
         /\ ChainInv' /\ SessionInv'
         /\ IsSignature(session.signature) /\ session.tip \in 1..seen
         /\ outcome'.signature = session.signature /\ outcome'.request = session.request
         /\ outcome'.started = session.tip /\ outcome'.ended = seen
         /\ SignedBy(outcome') =
              {k \in Signatories : \E i \in DOMAIN session.signature.parts :
                 /\ session.signature.parts[i].by = k
                 /\ session.signature.parts[i].over =
                      [height |-> session.signature.block_height, message |-> session.request]}
<1>1. UNCHANGED <<history, seen, gathered>> /\ session' = Absent /\ session # Absent
  BY DEF RefuseByHeight, ReadNowAndDecide, End
<1>2. /\ outcome'.signature = session.signature /\ outcome'.request = session.request
      /\ outcome'.started = session.tip /\ outcome'.ended = seen
  BY DEF RefuseByHeight, ReadNowAndDecide, End
<1>3. ChainInv' /\ SessionInv'
  BY <1>1 DEF LoginInv, ChainInv, SessionInv
<1>4. IsSignature(session.signature) /\ session.tip \in 1..seen
  BY <1>1 DEF LoginInv, SessionInv
<1> QED BY <1>1, <1>2, <1>3, <1>4 DEF SignedBy

\* Refused unread are only heights no proper login has.
LEMMA RefuseLogin == ASSUME LoginInv, RefuseByHeight PROVE LoginInv'
<1> DEFINE height == session.signature.block_height
<1>1. /\ outcome'.verdict = "not_ready" /\ outcome'.signature.block_height = height
      /\ TooNew(height, session.tip) \/ TooOld(height, session.tip)
  BY EndLogin DEF RefuseByHeight, End
<1>2. height \in Nat \ {0} /\ session.tip \in 1..seen /\ seen \in Nat
  BY EndLogin DEF IsSignature, LoginInv, ChainInv
<1>3. outcome'.started = outcome'.ended => height \notin outcome'.ended - MaxAge..outcome'.ended
  <2> SUFFICES ASSUME session.tip = seen PROVE height \notin seen - MaxAge..seen
    BY EndLogin
  <2> HIDE DEF height
  <2> QED BY <1>1, <1>2, LoginAssumption DEF TooNew, TooOld
<1>4. VerdictInv'
  BY <1>1, <1>3 DEF VerdictInv, LoggedInMeansSigned, RevokedIsRefused, ProperLoginsSucceed
<1> QED BY <1>4, EndLogin DEF LoginInv

LEMMA DecideLogin == ASSUME LoginInv, ReadNowAndDecide PROVE LoginInv'
<1> DEFINE signature == session.signature
           request == session.request
           height == signature.block_height
           then == session.then
           now == history[seen]
           signed == SignedBy(outcome')
<1>1. /\ session # Absent /\ then # Absent
      /\ outcome'.verdict = IF Admits(signature, request, then, now) THEN "logged_in" ELSE "not_ready"
  BY DEF ReadNowAndDecide, End
<1>2. /\ height \in Nat \ {0} /\ session.tip \in 1..seen
      /\ history \in Seq(Records) /\ seen \in 1..Len(history)
  BY EndLogin DEF IsSignature, LoginInv, ChainInv
<1>3. ~TooNew(height, session.tip) /\ ~TooOld(height, session.tip)
  BY <1>1 DEF LoginInv, SessionInv
<1>4. PICK s \in session.tip..seen : then = RecordAt(height, s)
  BY <1>1 DEF LoginInv, SessionInv
<1> DEFINE known == IF height < s THEN height ELSE s
<1>5. /\ known \in 1..seen /\ then = history[known] /\ then \in Records
      /\ known = height \/ (known < height /\ known \geq session.tip)
  <2> HIDE DEF height
  <2>1. s \in Int /\ s \geq session.tip /\ s \leq seen /\ session.tip \in Nat \ {0}
    BY <1>2, <1>4
  <2>2. known \in 1..seen /\ (known = height \/ (known < height /\ known \geq session.tip))
    BY <1>2, <2>1
  <2>3. then = history[known]
    BY <1>4 DEF RecordAt
  <2>4. known \in 1..Len(history)
    BY <1>2, <2>2
  <2> HIDE DEF known
  <2>5. history[known] \in Records
    BY <1>2, <2>4
  <2> QED BY <2>2, <2>3, <2>5
<1>6. /\ IsFiniteSet(then.primary) /\ then.minimum \in Nat
      /\ recover_signers(signature, request) \cap then.primary = signed \cap then.primary
  BY <1>5, LoginAssumption, RecoveredSigned, EndLogin
<1>7. IsFiniteSet(signed \cap then.primary) /\ Cardinality(signed \cap then.primary) \in Nat
  BY <1>6, FS_Intersection, FS_CardinalityType
<1>8. verify_message(signature, request, then.primary, then.minimum) <=>
        Cardinality(signed \cap then.primary) \geq then.minimum
  BY <1>6 DEF verify_message
<1>9. /\ outcome'.signature.block_height = height /\ outcome'.started = session.tip
      /\ outcome'.ended = seen /\ history' = history
  BY EndLogin
<1> HIDE DEF signature, request, then, now, signed, known, height
<1>10. LoggedInMeansSigned'
  <2> SUFFICES ASSUME outcome'.verdict = "logged_in" PROVE LoggedInMeansSigned'
    BY DEF LoggedInMeansSigned
  <2>1. Admits(signature, request, then, now)
    BY <1>1
  <2>2. then.minimum # 0 /\ Cardinality(signed \cap then.primary) \geq then.minimum
    BY <1>8, <2>1 DEF Admits, Usable
  <2>3. signed \cap then.primary # {}
    BY <1>6, <1>7, <2>2, FS_EmptySet
  <2>4. /\ known \in 1..outcome'.ended
        /\ known = height \/ (known < height /\ known \geq outcome'.started)
    BY <1>5, <1>9
  <2>5. SignedBy(outcome') = signed
    BY DEF signed
  <2> QED BY <1>5, <1>9, <2>2, <2>3, <2>4, <2>5 DEF LoggedInMeansSigned
<1>11. RevokedIsRefused'
  <2> SUFFICES ASSUME outcome'.verdict = "logged_in" PROVE RevokedIsRefused'
    BY DEF RevokedIsRefused
  <2>1. ~now.revoked
    BY <1>1 DEF Admits
  <2>2. seen \in session.tip..seen
    BY <1>2
  <2>3. ~history[seen].revoked
    BY <2>1 DEF now
  <2>4. height \in session.tip - MaxAge..session.tip + MaxFuture
    BY <1>2, <1>3, LoginAssumption DEF TooNew, TooOld
  <2> QED BY <1>9, <2>2, <2>3, <2>4 DEF RevokedIsRefused
<1>12. ProperLoginsSucceed'
  <2> SUFFICES ASSUME outcome'.verdict # "logged_in", session.tip = seen, height \in seen - MaxAge..seen
               PROVE  \/ history[height].revoked \/ history[seen].revoked
                      \/ history[height].minimum = 0
                      \/ Cardinality(signed \cap history[height].primary) < history[height].minimum
    BY <1>9 DEF ProperLoginsSucceed, signed
  <2>1. ~Admits(signature, request, then, now)
    BY <1>1
  <2>2. s = seen /\ known = height
    BY <1>2, <1>4 DEF known
  <2>3. then = history[height] /\ now = history[seen]
    BY <1>5, <2>2 DEF now
  <2>4. CASE then.primary = {}
    <3>1. Cardinality(signed \cap then.primary) = 0
      BY <2>4, FS_EmptySet
    <3> QED BY <1>6, <2>3, <3>1
  <2>5. CASE then.primary # {}
    <3>1. \/ then.revoked \/ now.revoked \/ then.minimum = 0
          \/ ~(Cardinality(signed \cap then.primary) \geq then.minimum)
      BY <1>8, <2>1, <2>5 DEF Admits, Usable
    <3> QED BY <1>6, <1>7, <2>3, <3>1
  <2> QED BY <2>4, <2>5
<1> QED BY <1>10, <1>11, <1>12, EndLogin DEF LoginInv, VerdictInv

LEMMA LoginNextKeeps == ASSUME LoginInv, [LoginNext]_login_vars PROVE LoginInv'
<1>1. CASE UNCHANGED login_vars
  <2>1. UNCHANGED <<history, seen, gathered, session, outcome>>
    BY <1>1 DEF login_vars
  <2>2. ChainInv' /\ SessionInv'
    BY <2>1 DEF LoginInv, ChainInv, SessionInv, RecordAt
  <2>3. VerdictInv'
    BY <2>1 DEF LoginInv, VerdictInv, LoggedInMeansSigned, RevokedIsRefused, ProperLoginsSucceed, SignedBy
  <2> QED BY <2>2, <2>3 DEF LoginInv
<1>2. ASSUME LoginNext PROVE LoginInv'
  BY <1>2, MineLogin, CatchUpLogin, SignersLogin, ReadsLogin, RefuseLogin, DecideLogin DEF LoginNext
<1> QED BY <1>1, <1>2

LEMMA LoginInductive == LoginSpec => []LoginInv
BY LoginInitHolds, LoginNextKeeps, PTL DEF LoginSpec

-----------------------------------------------------------------------------
\* verify_login lets in only who enough of the identity's different keys signed
\* for, for this request and at this height, whatever the chain and the node do
\* between its reads.
THEOREM WhoIsInWasSignedFor == LoginSpec => []LoggedInMeansSigned
<1>1. LoginInv => LoggedInMeansSigned
  BY DEF LoginInv, VerdictInv
<1> QED BY <1>1, LoginInductive, PTL

\* No login that verify_login begins after a revocation succeeds, unless the
\* identity is recovered while it is being checked; and none is too old or new.
THEOREM TheRevokedStayOut == LoginSpec => []RevokedIsRefused
<1>1. LoginInv => RevokedIsRefused
  BY DEF LoginInv, VerdictInv
<1> QED BY <1>1, LoginInductive, PTL

\* verify_login turns nobody away who signed properly: the height it reads the
\* keys at is the one that was signed at, and a key recovered is a key that signed.
THEOREM NobodyProperIsTurnedAway == LoginSpec => []ProperLoginsSucceed
<1>1. LoginInv => ProperLoginsSucceed
  BY DEF LoginInv, VerdictInv
<1> QED BY <1>1, LoginInductive, PTL

-----------------------------------------------------------------------------
(***************************************************************************)
(* Published data.  An update is prepared from what the output it spends   *)
(* says, and the node takes it only while that is the identity's output;   *)
(* so what is mined is what was held, with the one key changed.            *)
(***************************************************************************)
Values == UNION {ToSet(values) : values \in Contents}

\* It states what is held with its own key's values replaced.
StatesOneKey(u) ==
  /\ u.key \in DataKeys /\ u.values \in Contents
  /\ u.states = set_multimap_entry(held, u.key, u.values)

UnsentInv ==
  /\ output \in Nat
  /\ DOMAIN unsent = Publishers
  /\ \A p \in Publishers : unsent[p] # Nothing =>
       /\ unsent[p].spends \in Nat /\ unsent[p].spends \leq output
       /\ unsent[p].spends = output => StatesOneKey(unsent[p])

PendingInv == pending # Nothing => StatesOneKey(pending)

\* The identity says of each key what was last said, and the history ends so.
HeldInv ==
  /\ DOMAIN held \subseteq DataKeys /\ DOMAIN told = DataKeys
  /\ \A k \in DataKeys :
       /\ told[k] \in Seq(Values) /\ past[k] \in Seq(Values)
       /\ told[k] = IF k \in DOMAIN held THEN held[k] ELSE <<>>
       /\ IsSuffix(told[k], past[k])

VdxfInv == UnsentInv /\ PendingInv /\ HeldInv

LEMMA ContentsAreValues == ASSUME NEW values \in Contents PROVE values \in Seq(Values)
<1>1. values \in Seq(ToSet(values)) /\ ToSet(values) \subseteq Values
  BY VdxfAssumption DEF Values
<1> QED BY <1>1, SeqMonotonic

LEMMA ReverseIs ==
  ASSUME NEW S, NEW s \in Seq(S)
  PROVE  /\ Reverse(s) \in Seq(S) /\ Len(Reverse(s)) = Len(s)
         /\ \A i \in 1..Len(s) : Reverse(s)[i] = s[Len(s) - i + 1]
<1>1. Len(s) \in Nat
  OBVIOUS
<1>2. \A i \in 1..Len(s) : Len(s) - i + 1 \in 1..Len(s)
  BY <1>1
<1>3. \A i \in 1..Len(s) : s[Len(s) - i + 1] \in S
  BY <1>2, ElementOfSeq
<1>4. Reverse(s) \in [1..Len(s) -> S]
  BY <1>3 DEF Reverse
<1> QED BY <1>1, <1>4, SeqDef DEF Reverse

\* What is appended is what it ends with.
LEMMA EndsWithIt ==
  ASSUME NEW S, NEW p \in Seq(S), NEW s \in Seq(S)
  PROVE  IsSuffix(s, p \o s)
<1> DEFINE t == p \o s
           n == Len(s)
<1>1. /\ t \in Seq(S) /\ Len(t) = Len(p) + n /\ n \in Nat /\ Len(p) \in Nat
      /\ \A i \in 1..Len(p) + n : t[i] = IF i <= Len(p) THEN p[i] ELSE s[i - Len(p)]
  BY ConcatProperties, LenProperties
<1>2. /\ Reverse(s) \in Seq(S) /\ Len(Reverse(s)) = n
      /\ \A i \in 1..n : Reverse(s)[i] = s[n - i + 1]
  BY ReverseIs
<1> HIDE DEF t
<1>3. /\ Reverse(t) \in Seq(S) /\ Len(Reverse(t)) = Len(t)
      /\ \A i \in 1..Len(t) : Reverse(t)[i] = t[Len(t) - i + 1]
  <2>1. t \in Seq(S)
    BY <1>1
  <2> QED BY <2>1, ReverseIs
<1> HIDE DEF n
<1>4. ASSUME NEW i \in 1..n PROVE Reverse(s)[i] = Reverse(t)[i]
  <2>1. Reverse(t)[i] = t[Len(p) + n - i + 1]
    <3>1. i \in 1..Len(t) /\ Len(t) - i + 1 = Len(p) + n - i + 1
      BY <1>1
    <3> QED BY <1>3, <3>1
  <2>2. t[Len(p) + n - i + 1] = s[n - i + 1]
    <3>1. /\ Len(p) + n - i + 1 \in 1..Len(p) + n /\ ~(Len(p) + n - i + 1 <= Len(p))
          /\ Len(p) + n - i + 1 - Len(p) = n - i + 1
      BY <1>1
    <3> QED BY <1>1, <3>1
  <2> QED BY <1>2, <2>1, <2>2
<1>5. /\ SubSeq(Reverse(s), 1, n) \in Seq(S) /\ Len(SubSeq(Reverse(s), 1, n)) = n
      /\ \A i \in 1..n : SubSeq(Reverse(s), 1, n)[i] = Reverse(s)[i]
  <2>1. \A i \in 1..n : Reverse(s)[i] \in S
    BY <1>2, ElementOfSeq
  <2> QED BY <1>1, <2>1, SubSeqProperties
<1>6. /\ SubSeq(Reverse(t), 1, n) \in Seq(S) /\ Len(SubSeq(Reverse(t), 1, n)) = n
      /\ \A i \in 1..n : SubSeq(Reverse(t), 1, n)[i] = Reverse(t)[i]
  <2>1. \A i \in 1..n : Reverse(t)[i] \in S
    BY <1>2, <1>4, ElementOfSeq
  <2> QED BY <1>1, <2>1, SubSeqProperties
<1>7. SubSeq(Reverse(s), 1, n) = SubSeq(Reverse(t), 1, n)
  BY <1>4, <1>5, <1>6, SeqEqual
<1>8. Len(Reverse(s)) <= Len(Reverse(t))
  BY <1>1, <1>2, <1>3
<1> QED BY <1>2, <1>7, <1>8 DEF IsSuffix, IsPrefix, t, n

LEMMA HistoryEndsWithIt ==
  ASSUME NEW S, NEW p \in Seq(S), NEW s \in Seq(S), NEW q,
         q = p \o s \/ (s = <<>> /\ q = p)
  PROVE  q \in Seq(S) /\ IsSuffix(s, q)
<1>1. p \o s \in Seq(S) /\ IsSuffix(s, p \o s)
  BY EndsWithIt, ConcatProperties
<1>2. p \o <<>> = p
  BY ConcatEmptySeq
<1> QED BY <1>1, <1>2

\* What set_multimap_entry leaves under each key.
LEMMA EntryIs ==
  ASSUME NEW map, NEW key, NEW values
  PROVE  LET new == set_multimap_entry(map, key, values)
         IN /\ DOMAIN new \subseteq DOMAIN map \cup {key}
            /\ \A k \in (DOMAIN map) \ {key} : k \in DOMAIN new /\ new[k] = map[k]
            /\ values = <<>> => key \notin DOMAIN new
            /\ values # <<>> => key \in DOMAIN new /\ new[key] = values
BY DEF set_multimap_entry

LEMMA VdxfInitHolds == VdxfInit => VdxfInv
<1> SUFFICES ASSUME VdxfInit PROVE VdxfInv
  OBVIOUS
<1>1. <<>> \in Seq(Values) /\ IsSuffix(<<>>, <<>>)
  BY EmptySeq, HistoryEndsWithIt
<1> QED BY <1>1 DEF VdxfInit, VdxfInv, UnsentInv, PendingInv, HeldInv

LEMMA PublishersKeep ==
  ASSUME VdxfInv, NEW p \in Publishers, prepare_publish(p) \/ publish(p)
  PROVE  VdxfInv'
<1>1. UNCHANGED <<held, output, revoked, past, told>>
  BY DEF prepare_publish, publish
<1>2. HeldInv'
  BY <1>1 DEF VdxfInv, HeldInv
<1>3. \A u : StatesOneKey(u) => StatesOneKey(u)'
  BY <1>1 DEF StatesOneKey
<1>4. CASE prepare_publish(p)
  <2>1. PICK key \in DataKeys, values \in Contents :
          unsent' = [unsent EXCEPT ![p] = [spends |-> output, key |-> key, values |-> values,
                       states |-> set_multimap_entry(held, key, values)]]
    BY <1>4 DEF prepare_publish
  <2> DEFINE u == [spends |-> output, key |-> key, values |-> values,
                   states |-> set_multimap_entry(held, key, values)]
  <2>2. StatesOneKey(u)
    BY DEF StatesOneKey
  <2>3. u.spends = output
    OBVIOUS
  <2>4. DOMAIN unsent' = Publishers /\ \A q \in Publishers : unsent'[q] = IF q = p THEN u ELSE unsent[q]
    BY <2>1 DEF VdxfInv, UnsentInv
  <2> HIDE DEF u
  <2>5. UnsentInv'
    <3>1. ASSUME NEW q \in Publishers, unsent'[q] # Nothing
          PROVE  /\ unsent'[q].spends \in Nat /\ unsent'[q].spends \leq output'
                 /\ unsent'[q].spends = output' => StatesOneKey(unsent[q])'
      <4>1. CASE q = p
        <5>1. unsent'[q] = u
          BY <2>4, <4>1
        <5> QED BY <1>1, <2>2, <2>3, <5>1 DEF StatesOneKey, VdxfInv, UnsentInv
      <4>2. CASE q # p
        <5>1. unsent'[q] = unsent[q]
          BY <2>4, <4>2
        <5> QED BY <1>1, <3>1, <5>1 DEF StatesOneKey, VdxfInv, UnsentInv
      <4> QED BY <4>1, <4>2
    <3> QED BY <1>1, <2>4, <3>1 DEF VdxfInv, UnsentInv
  <2>6. PendingInv'
    BY <1>1, <1>4 DEF prepare_publish, VdxfInv, PendingInv, StatesOneKey
  <2> QED BY <1>2, <2>5, <2>6 DEF VdxfInv
<1>5. CASE publish(p)
  <2>1. DOMAIN unsent' = Publishers /\ \A q \in Publishers : unsent'[q] = IF q = p THEN Nothing ELSE unsent[q]
    BY <1>5 DEF publish, VdxfInv, UnsentInv
  <2>2. UnsentInv'
    BY <1>1, <2>1 DEF VdxfInv, UnsentInv, StatesOneKey
  <2>3. pending' = pending \/ (pending' = unsent[p] /\ StatesOneKey(unsent[p]))
    BY <1>5 DEF publish, VdxfInv, UnsentInv
  <2>4. PendingInv'
    BY <1>1, <2>3 DEF VdxfInv, PendingInv, StatesOneKey
  <2> QED BY <1>2, <2>2, <2>4 DEF VdxfInv
<1> QED BY <1>4, <1>5

LEMMA MineUpdateKeeps == ASSUME VdxfInv, MineUpdate PROVE VdxfInv'
<1> DEFINE key == pending.key
           values == pending.values
<1>1. /\ held' = pending.states /\ output' = output + 1 /\ unsent' = unsent /\ pending' = Nothing
      /\ past' = [k \in DataKeys |-> IF k \in DOMAIN pending.states THEN past[k] \o pending.states[k] ELSE past[k]]
      /\ told' = [told EXCEPT ![key] = values]
  BY DEF MineUpdate
<1>2. /\ key \in DataKeys /\ values \in Contents
      /\ held' = set_multimap_entry(held, key, values)
  BY <1>1 DEF MineUpdate, VdxfInv, PendingInv, StatesOneKey
<1>3. values \in Seq(Values)
  BY <1>2, ContentsAreValues
<1> HIDE DEF key, values
<1>4. /\ DOMAIN held' \subseteq DOMAIN held \cup {key}
      /\ \A k \in (DOMAIN held) \ {key} : k \in DOMAIN held' /\ held'[k] = held[k]
      /\ values = <<>> => key \notin DOMAIN held'
      /\ values # <<>> => key \in DOMAIN held' /\ held'[key] = values
  BY <1>2, EntryIs
<1>5. UnsentInv'
  <2>1. output \in Nat /\ output' = output + 1
    BY <1>1 DEF VdxfInv, UnsentInv
  <2>2. \A n \in Nat : n \leq output => n \leq output' /\ n # output'
    BY <2>1
  <2> QED BY <1>1, <2>1, <2>2 DEF VdxfInv, UnsentInv
<1>6. PendingInv'
  BY <1>1 DEF PendingInv
<1>7. DOMAIN held \subseteq DataKeys /\ DOMAIN told = DataKeys
  BY DEF VdxfInv, HeldInv
<1>8. ASSUME NEW k \in DataKeys
      PROVE  /\ told'[k] \in Seq(Values) /\ past'[k] \in Seq(Values)
             /\ told'[k] = IF k \in DOMAIN held' THEN held'[k] ELSE <<>>
             /\ IsSuffix(told'[k], past'[k])
  <2>1. /\ told[k] \in Seq(Values) /\ past[k] \in Seq(Values)
        /\ told[k] = IF k \in DOMAIN held THEN held[k] ELSE <<>>
    BY DEF VdxfInv, HeldInv
  <2>2. told'[k] = IF k = key THEN values ELSE told[k]
    BY <1>1, <1>7
  <2>3. told'[k] = (IF k \in DOMAIN held' THEN held'[k] ELSE <<>>) /\ told'[k] \in Seq(Values)
    BY <1>3, <1>4, <2>1, <2>2
  <2>4. past'[k] = IF k \in DOMAIN held' THEN past[k] \o held'[k] ELSE past[k]
    BY <1>1
  <2>5. past'[k] = past[k] \o told'[k] \/ (told'[k] = <<>> /\ past'[k] = past[k])
    BY <2>3, <2>4
  <2>6. past'[k] \in Seq(Values) /\ IsSuffix(told'[k], past'[k])
    BY <2>1, <2>3, <2>5, HistoryEndsWithIt
  <2> QED BY <2>3, <2>6
<1>9. DOMAIN held' \subseteq DataKeys /\ DOMAIN told' = DataKeys
  BY <1>1, <1>2, <1>4, <1>7
<1> QED BY <1>5, <1>6, <1>8, <1>9 DEF VdxfInv, HeldInv

LEMMA RevokeKeeps == ASSUME VdxfInv, Revoke PROVE VdxfInv'
<1>1. /\ UNCHANGED <<held, unsent, told>> /\ output' = output + 1 /\ pending' = Nothing
      /\ past' = [k \in DataKeys |-> IF k \in DOMAIN held THEN past[k] \o held[k] ELSE past[k]]
  BY DEF Revoke
<1>2. UnsentInv'
  <2>1. output \in Nat /\ output' = output + 1
    BY <1>1 DEF VdxfInv, UnsentInv
  <2>2. \A n \in Nat : n \leq output => n \leq output' /\ n # output'
    BY <2>1
  <2> QED BY <1>1, <2>1, <2>2 DEF VdxfInv, UnsentInv
<1>3. PendingInv'
  BY <1>1 DEF PendingInv
<1>4. ASSUME NEW k \in DataKeys
      PROVE  past'[k] \in Seq(Values) /\ IsSuffix(told[k], past'[k])
  <2>1. /\ told[k] \in Seq(Values) /\ past[k] \in Seq(Values)
        /\ told[k] = IF k \in DOMAIN held THEN held[k] ELSE <<>>
    BY DEF VdxfInv, HeldInv
  <2>2. past'[k] = past[k] \o told[k] \/ (told[k] = <<>> /\ past'[k] = past[k])
    BY <1>1, <2>1
  <2> QED BY <2>1, <2>2, HistoryEndsWithIt
<1>5. HeldInv'
  BY <1>1, <1>4 DEF VdxfInv, HeldInv
<1> QED BY <1>2, <1>3, <1>5 DEF VdxfInv

LEMMA VdxfNextKeeps == ASSUME VdxfInv, [VdxfNext]_vdxf_vars PROVE VdxfInv'
<1>1. CASE Drop \/ UNCHANGED vdxf_vars
  <2>1. UNCHANGED <<held, output, past, unsent, told>> /\ (pending' = Nothing \/ pending' = pending)
    BY <1>1 DEF Drop, vdxf_vars
  <2>2. UnsentInv' /\ PendingInv' /\ HeldInv'
    BY <2>1 DEF VdxfInv, UnsentInv, PendingInv, HeldInv, StatesOneKey
  <2> QED BY <2>2 DEF VdxfInv
<1>2. ASSUME VdxfNext, ~Drop PROVE VdxfInv'
  BY <1>2, PublishersKeep, MineUpdateKeeps, RevokeKeeps DEF VdxfNext
<1> QED BY <1>1, <1>2

LEMMA VdxfInductive == VdxfSpec => []VdxfInv
BY VdxfInitHolds, VdxfNextKeeps, PTL DEF VdxfSpec

-----------------------------------------------------------------------------
\* However the node shows a value, what is read back is what it shows.
LEMMA ShownIsRead ==
  ASSUME NEW values, NEW S, values \in Seq(S), NEW shown \in Shown(values)
  PROVE  content_values(shown) = values
<1>1. CASE shown = [list |-> values]
  BY <1>1 DEF content_values
<1>2. CASE Len(values) = 1 /\ shown = [bare |-> values[1]]
  <2>1. content_values(shown) = <<values[1]>>
    BY <1>2 DEF content_values
  <2>2. <<values[1]>> = values
    BY <1>2
  <2> QED BY <2>1, <2>2
<1> QED BY <1>1, <1>2 DEF Shown

\* Whoever publishes under whatever key, from whatever it read, what is read
\* under a key is what the last publication mined for that key stated.
THEOREM PublishedIsRead == VdxfSpec => []WhatWasPublishedIsRead
<1>1. VdxfInv => WhatWasPublishedIsRead
  <2> SUFFICES ASSUME VdxfInv, NEW key \in DataKeys, NEW shown \in ShownNow
               PROVE  read(shown, key) = told[key] /\ IsSuffix(read(shown, key), read_history(key))
    BY DEF WhatWasPublishedIsRead
  <2>1. /\ told[key] \in Seq(Values) /\ IsSuffix(told[key], past[key])
        /\ told[key] = IF key \in DOMAIN held THEN held[key] ELSE <<>>
    BY DEF VdxfInv, HeldInv
  <2>2. DOMAIN shown = DOMAIN held /\ \A k \in DOMAIN held : shown[k] \in Shown(held[k])
    BY DEF ShownNow
  <2>3. read(shown, key) = told[key]
    <3>1. CASE key \in DOMAIN held
      <4>1. content_values(shown[key]) = held[key]
        BY <2>1, <2>2, <3>1, ShownIsRead
      <4> QED BY <2>1, <2>2, <3>1, <4>1 DEF read, read_all
    <3>2. CASE key \notin DOMAIN held
      BY <2>1, <2>2, <3>2 DEF read
    <3> QED BY <3>1, <3>2
  <2> QED BY <2>1, <2>3 DEF read_history
<1> QED BY <1>1, VdxfInductive, PTL

-----------------------------------------------------------------------------
(***************************************************************************)
(* Keys and addresses as texts.                                            *)
(***************************************************************************)
\* Bytes, of which one says that a public key is compressed; what is hashed,
\* and what is read, is of bytes, and a refusal is neither a key nor an
\* address.  The versions are told apart, and from that of a key.
KeyTexts(Bytes) ==
  /\ 1 \in Bytes /\ WIF_VERSION \in Bytes /\ \A s \in Seq(Bytes) : Digest(s) \in Bytes
  /\ Junk \notin Seq(Bytes)
  /\ ScalarBytes \in Nat /\ \A s \in Scalars : s \in Seq(Bytes) /\ Len(s) = ScalarBytes
  /\ \A k \in DOMAIN Versions : Versions[k] \in Bytes /\ Versions[k] # WIF_VERSION
  /\ \A j, k \in DOMAIN Versions : Versions[j] = Versions[k] => j = k
  /\ \A version, payload : [version |-> version, payload |-> payload] # Error
  /\ \A scalar, compressed : PrivateKey(scalar, compressed) # Error
  /\ \A kind, hash : Address(kind, hash) # Error

\* A list is its first element and the rest, and its last and what is before.
LEMMA ListsSplit ==
  ASSUME NEW S, NEW s \in Seq(S), NEW k \in 0..Len(s)
  PROVE  LET front == SubSeq(s, 1, k)  back == SubSeq(s, k + 1, Len(s))
         IN /\ s = front \o back /\ front \in Seq(S) /\ back \in Seq(S)
            /\ Len(front) = k /\ Len(back) = Len(s) - k
<1> DEFINE n == Len(s)
           front == SubSeq(s, 1, k)
           back == SubSeq(s, k + 1, n)
           t == front \o back
<1>1. n \in Nat /\ k \in Nat /\ k <= n /\ \A i \in 1..n : s[i] \in S
  BY LenProperties, ElementOfSeq
<1>2. front \in Seq(S) /\ Len(front) = k /\ \A i \in 1..k : front[i] = s[i]
  <2>1. 1 \in Int /\ k \in Int /\ \A i \in 1..k : s[i] \in S
    BY <1>1
  <2>2. front \in Seq(S) /\ Len(front) = (IF 1 <= k THEN k - 1 + 1 ELSE 0) /\ \A i \in 1..(k - 1 + 1) : front[i] = s[1 + i - 1]
    BY ONLY <2>1, SubSeqProperties
  <2>3. k - 1 + 1 = k /\ (IF 1 <= k THEN k ELSE 0) = k /\ \A i \in 1..k : 1 + i - 1 = i
    BY <1>1
  <2> HIDE DEF front
  <2> QED BY <2>2, <2>3
<1>3. back \in Seq(S) /\ Len(back) = n - k /\ \A i \in 1..(n - k) : back[i] = s[k + i]
  <2>1. k + 1 \in Int /\ n \in Int /\ \A i \in k + 1..n : s[i] \in S
    BY <1>1
  <2>2. back \in Seq(S) /\ Len(back) = (IF k + 1 <= n THEN n - (k + 1) + 1 ELSE 0) /\ \A i \in 1..(n - (k + 1) + 1) : back[i] = s[k + 1 + i - 1]
    <3> HIDE DEF n
    <3> QED BY ONLY <2>1, SubSeqProperties
  <2>3. n - (k + 1) + 1 = n - k /\ (IF k + 1 <= n THEN n - k ELSE 0) = n - k /\ \A i \in 1..(n - k) : k + 1 + i - 1 = k + i
    <3> HIDE DEF n
    <3> QED BY ONLY <1>1
  <2> HIDE DEF back, n
  <2> QED BY <2>2, <2>3
<1> HIDE DEF front, back
<1>4. t \in Seq(S) /\ Len(t) = k + (n - k) /\ \A i \in 1..(k + (n - k)) : t[i] = IF i <= k THEN front[i] ELSE back[i - k]
  BY <1>2, <1>3, ConcatProperties
<1> HIDE DEF t
<1>5. Len(t) = Len(s) /\ \A i \in 1..Len(t) : t[i] = s[i]
  <2>1. k + (n - k) = n
    <3> HIDE DEF n
    <3> QED BY <1>1
  <2>2. \A i \in 1..n : i <= k => i \in 1..k
    BY <1>1
  <2>3. \A i \in 1..n : ~(i <= k) => i - k \in 1..(n - k) /\ k + (i - k) = i
    BY <1>1
  <2>4. \A i \in 1..n : t[i] = s[i]
    <3> HIDE DEF n
    <3> QED BY <1>2, <1>3, <1>4, <2>1, <2>2, <2>3
  <2> HIDE DEF n
  <2>5. Len(t) = n
    BY <1>4, <2>1
  <2> QED BY <2>4, <2>5 DEF n
<1>6. t = s
  BY <1>4, <1>5, SeqEqual
<1> QED BY <1>2, <1>3, <1>6 DEF front, back, t, n

LEMMA OneByte ==
  ASSUME NEW S, NEW s \in Seq(S), Len(s) = 1
  PROVE  s = <<s[1]>> /\ s[1] \in S
<1>1. 1 \in 1..Len(s) /\ s[1] \in S
  BY ElementOfSeq
<1>2. <<s[1]>> \in Seq(S) /\ Len(<<s[1]>>) = 1 /\ <<s[1]>>[1] = s[1]
  BY <1>1
<1>3. \A i \in 1..Len(s) : s[i] = <<s[1]>>[i]
  BY <1>2
<1>4. s = <<s[1]>>
  BY <1>2, <1>3, SeqEqual
<1> QED BY <1>1, <1>4

\* What a list that was put together is put together from.
LEMMA ListsJoin ==
  ASSUME NEW S, NEW s \in Seq(S), NEW r \in Seq(S)
  PROVE  LET t == s \o r
         IN /\ t \in Seq(S) /\ Len(t) = Len(s) + Len(r)
            /\ SubSeq(t, 1, Len(s)) = s /\ SubSeq(t, Len(s) + 1, Len(t)) = r
<1> DEFINE t == s \o r
           front == SubSeq(t, 1, Len(s))
           back == SubSeq(t, Len(s) + 1, Len(t))
<1>1. /\ t \in Seq(S) /\ Len(t) = Len(s) + Len(r)
      /\ \A i \in 1..Len(s) + Len(r) : t[i] = IF i <= Len(s) THEN s[i] ELSE r[i - Len(s)]
  BY ConcatProperties
<1>2. Len(s) \in Nat /\ Len(r) \in Nat
  BY LenProperties
<1>3. Len(s) \in 0..Len(t)
  BY <1>1, <1>2
<1> HIDE DEF t
<1>4. /\ t = front \o back /\ front \in Seq(S) /\ back \in Seq(S)
      /\ Len(front) = Len(s) /\ Len(back) = Len(t) - Len(s)
  BY <1>1, <1>3, ListsSplit
<1> HIDE DEF front, back
<1>5. Len(back) = Len(r)
  BY <1>1, <1>2, <1>4
<1>6. \A i \in 1..Len(s) + Len(r) : t[i] = IF i <= Len(s) THEN front[i] ELSE back[i - Len(s)]
  BY <1>4, <1>5, ConcatProperties
<1>7. front = s
  <2>1. \A i \in 1..Len(s) : i \in 1..Len(s) + Len(r) /\ i <= Len(s)
    BY <1>2
  <2>2. \A i \in 1..Len(front) : front[i] = s[i]
    BY <1>1, <1>4, <1>6, <2>1
  <2> QED BY <1>4, <2>2, SeqEqual
<1>8. back = r
  <2>1. \A i \in 1..Len(r) : Len(s) + i \in 1..Len(s) + Len(r) /\ ~(Len(s) + i <= Len(s)) /\ (Len(s) + i) - Len(s) = i
    BY <1>2
  <2>2. \A i \in 1..Len(back) : back[i] = r[i]
    BY <1>1, <1>5, <1>6, <2>1
  <2> QED BY <1>4, <1>5, <2>2, SeqEqual
<1> QED BY <1>1, <1>7, <1>8 DEF front, back, t

\* The first byte of a text, and the bytes that follow.
LEMMA FirstIs ==
  ASSUME NEW S, NEW v \in S, NEW p \in Seq(S)
  PROVE  <<v>> \o p \in Seq(S) /\ Len(<<v>> \o p) = Len(p) + 1 /\ Head(<<v>> \o p) = v /\ Tail(<<v>> \o p) = p
<1> DEFINE d == <<v>> \o p
<1>1. <<v>> \in Seq(S) /\ Len(<<v>>) = 1 /\ <<v>>[1] = v /\ Len(p) \in Nat
  BY LenProperties
<1>2. d \in Seq(S) /\ Len(d) = 1 + Len(p) /\ SubSeq(d, 1 + 1, Len(d)) = p
  <2> HIDE DEF d
  <2>1. LET t == <<v>> \o p IN t \in Seq(S) /\ Len(t) = Len(<<v>>) + Len(p) /\ SubSeq(t, Len(<<v>>) + 1, Len(t)) = p
    BY <1>1, ListsJoin
  <2> QED BY <1>1, <2>1 DEF d
<1>3. d[1] = v
  <2>1. 1 \in 1..1 + Len(p) /\ 1 <= 1
    BY <1>1
  <2>2. \A i \in 1..1 + Len(p) : d[i] = IF i <= 1 THEN <<v>>[i] ELSE p[i - 1]
    BY <1>1, ConcatProperties
  <2> HIDE DEF d
  <2> QED BY <1>1, <2>1, <2>2
<1> HIDE DEF d
<1>4. d # <<>>
  BY <1>1, <1>2
<1>5. Head(d) = v
  BY <1>2, <1>3, <1>4
<1>6. Tail(d) = SubSeq(d, 2, Len(d))
  BY <1>2, <1>4, TailIsSubSeq
<1>7. 1 + 1 = 2 /\ 1 + Len(p) = Len(p) + 1
  BY <1>1
<1> QED BY <1>2, <1>5, <1>6, <1>7 DEF d

LEMMA FirstAndRest ==
  ASSUME NEW S, NEW d \in Seq(S), Len(d) >= 1
  PROVE  d = <<Head(d)>> \o Tail(d) /\ Head(d) \in S /\ Tail(d) \in Seq(S) /\ Len(Tail(d)) = Len(d) - 1
<1>1. 1 \in 0..Len(d) /\ d # <<>>
  BY LenProperties
<1> DEFINE x == SubSeq(d, 1, 1)
           y == SubSeq(d, 1 + 1, Len(d))
<1>2. d = x \o y /\ x \in Seq(S) /\ y \in Seq(S) /\ Len(x) = 1 /\ Len(y) = Len(d) - 1
  BY <1>1, ListsSplit
<1> HIDE DEF x, y
<1>3. x = <<x[1]>> /\ x[1] \in S
  BY <1>2, OneByte
<1>4. Head(d) = x[1] /\ Tail(d) = y
  BY <1>2, <1>3, FirstIs
<1> QED BY <1>2, <1>3, <1>4

LEMMA EncodedIs ==
  ASSUME NEW Bytes, KeyTexts(Bytes), NEW v \in Bytes, NEW p \in Seq(Bytes)
  PROVE  decode_check(encode_check(v, p)) = [version |-> v, payload |-> p] /\ encode_check(v, p) \in Seq(Bytes)
<1> DEFINE d == <<v>> \o p
           c == Checksum(d)
           t == d \o c
<1>1. d \in Seq(Bytes) /\ Len(d) = Len(p) + 1 /\ Head(d) = v /\ Tail(d) = p /\ Len(p) \in Nat
  BY FirstIs, LenProperties
<1> HIDE DEF d
<1>2. c \in Seq(Bytes) /\ Len(c) = 1
  <2>1. Digest(d) \in Bytes
    BY <1>1 DEF KeyTexts
  <2> QED BY <2>1 DEF Checksum
<1> HIDE DEF c
<1>3. t \in Seq(Bytes) /\ Len(t) = Len(d) + 1 /\ SubSeq(t, 1, Len(d)) = d /\ SubSeq(t, Len(d) + 1, Len(t)) = c
  <2>1. LET u == d \o c IN u \in Seq(Bytes) /\ Len(u) = Len(d) + Len(c) /\ SubSeq(u, 1, Len(d)) = d /\ SubSeq(u, Len(d) + 1, Len(u)) = c
    <3>1. d \in Seq(Bytes) /\ c \in Seq(Bytes)
      BY <1>1, <1>2
    <3> QED BY ONLY <3>1, ListsJoin
  <2> QED BY <1>2, <2>1
<1>4. t = encode_check(v, p)
  BY DEF encode_check, d, c
<1> HIDE DEF t
<1>5. t # Junk
  BY <1>3 DEF KeyTexts
<1>6. Len(t) - 1 = Len(d) /\ ~(Len(d) < 1)
  BY <1>1, <1>3
<1>7. decode_check(t) = [version |-> Head(d), payload |-> Tail(d)]
  <2>1. decode_check(t) = IF t = Junk \/ Len(t) - 1 < 1 THEN Error
          ELSE IF SubSeq(t, Len(t) - 1 + 1, Len(t)) # Checksum(SubSeq(t, 1, Len(t) - 1)) THEN Error
          ELSE [version |-> Head(SubSeq(t, 1, Len(t) - 1)), payload |-> Tail(SubSeq(t, 1, Len(t) - 1))]
    BY DEF decode_check
  <2>2. SubSeq(t, 1, Len(t) - 1) = d /\ SubSeq(t, Len(t) - 1 + 1, Len(t)) = c
    BY <1>3, <1>6
  <2>3. c = Checksum(d)
    BY DEF c
  <2> QED BY <1>5, <1>6, <2>1, <2>2, <2>3
<1> QED BY <1>1, <1>3, <1>4, <1>7

LEMMA DecodedIs ==
  ASSUME NEW Bytes, KeyTexts(Bytes), NEW text \in Seq(Bytes) \cup {Junk},
         NEW decoded, decoded = decode_check(text), decoded # Error
  PROVE  /\ text \in Seq(Bytes) /\ decoded.version \in Bytes /\ decoded.payload \in Seq(Bytes)
         /\ decoded = [version |-> decoded.version, payload |-> decoded.payload]
         /\ text = encode_check(decoded.version, decoded.payload)
<1> DEFINE n == Len(text) - 1
           d == SubSeq(text, 1, n)
           c == SubSeq(text, n + 1, Len(text))
<1>1. decoded = IF text = Junk \/ n < 1 THEN Error ELSE IF c # Checksum(d) THEN Error
             ELSE [version |-> Head(d), payload |-> Tail(d)]
  BY DEF decode_check
<1>2. text # Junk /\ ~(n < 1) /\ c = Checksum(d) /\ decoded = [version |-> Head(d), payload |-> Tail(d)]
  <2> HIDE DEF n, d, c
  <2> QED BY <1>1
<1>3. text \in Seq(Bytes) /\ Len(text) \in Nat
  BY <1>2, LenProperties
<1>4. n \in 0..Len(text) /\ n >= 1
  BY <1>2, <1>3
<1>5. text = d \o c /\ d \in Seq(Bytes) /\ c \in Seq(Bytes) /\ Len(d) = n
  <2> HIDE DEF n
  <2> QED BY <1>3, <1>4, ListsSplit
<1> HIDE DEF n, d, c
<1>6. d = <<Head(d)>> \o Tail(d) /\ Head(d) \in Bytes /\ Tail(d) \in Seq(Bytes)
  BY <1>4, <1>5, FirstAndRest
<1>7. decoded.version = Head(d) /\ decoded.payload = Tail(d)
  BY <1>2
<1>8. text = encode_check(Head(d), Tail(d))
  BY <1>2, <1>5, <1>6 DEF encode_check
<1> QED BY <1>2, <1>3, <1>6, <1>7, <1>8

Flag(compressed) == IF compressed THEN <<1>> ELSE <<>>

LEMMA FlagIs ==
  ASSUME NEW Bytes, 1 \in Bytes
  PROVE  /\ \A compressed \in BOOLEAN : Flag(compressed) \in Seq(Bytes) /\ (Flag(compressed) = <<1>> <=> compressed)
                                        /\ Flag(compressed) \in {<<>>, <<1>>}
         /\ \A flag \in {<<>>, <<1>>} : Flag(flag = <<1>>) = flag
<1>1. <<1>> \in Seq(Bytes) /\ <<>> \in Seq(Bytes) /\ <<1>> # <<>>
  BY EmptySeq
<1> QED BY <1>1 DEF Flag

\* What is read as a key is that key's text.
LEMMA KeyReadIs ==
  ASSUME NEW Bytes, KeyTexts(Bytes), NEW text \in Seq(Bytes) \cup {Junk}, from_wif(text) # Error
  PROVE  /\ to_wif(from_wif(text)) = text
         /\ decode_check(text) # Error /\ decode_check(text).version = WIF_VERSION
<1> DEFINE decoded == decode_check(text)
           payload == decoded.payload
           scalar == SubSeq(payload, 1, ScalarBytes)
           flag == SubSeq(payload, ScalarBytes + 1, Len(payload))
           key == PrivateKey(scalar, flag = <<1>>)
<1>1. from_wif(text) = IF decoded = Error THEN Error
        ELSE IF decoded.version # WIF_VERSION \/ Len(payload) < ScalarBytes \/ flag \notin {<<>>, <<1>>} THEN Error
        ELSE IF scalar \notin Scalars THEN Error ELSE key
  BY DEF from_wif
<1>2. /\ decoded # Error /\ decoded.version = WIF_VERSION /\ ~(Len(payload) < ScalarBytes) /\ flag \in {<<>>, <<1>>}
      /\ from_wif(text) = key
  <2> HIDE DEF decoded, payload, scalar, flag, key
  <2> QED BY <1>1
<1>3. payload \in Seq(Bytes) /\ text = encode_check(WIF_VERSION, payload)
  <2> HIDE DEF decoded
  <2>1. decoded = decode_check(text)
    BY DEF decoded
  <2>2. decoded.payload \in Seq(Bytes) /\ text = encode_check(decoded.version, decoded.payload)
    BY <1>2, <2>1, DecodedIs
  <2> QED BY <1>2, <2>2
<1> HIDE DEF payload
<1>4. payload = scalar \o flag
  <2>1. ScalarBytes \in Nat /\ Len(payload) \in Nat
    BY <1>3, LenProperties DEF KeyTexts
  <2>2. ScalarBytes \in 0..Len(payload)
    BY <1>2, <2>1
  <2> QED BY <1>3, <2>2, ListsSplit
<1>5. Flag(flag = <<1>>) = flag
  <2>1. 1 \in Bytes
    BY DEF KeyTexts
  <2> HIDE DEF flag
  <2> QED BY <1>2, <2>1, FlagIs
<1>6. to_wif(key) = encode_check(WIF_VERSION, scalar \o Flag(flag = <<1>>))
  <2> HIDE DEF scalar, flag
  <2> QED BY DEF to_wif, PrivateKey, Flag
<1>7. to_wif(key) = text
  <2> HIDE DEF scalar, flag, key
  <2> QED BY <1>3, <1>4, <1>5, <1>6
<1> HIDE DEF key
<1> QED BY <1>2, <1>7

LEMMA AddressReadIs ==
  ASSUME NEW Bytes, KeyTexts(Bytes), NEW text \in Seq(Bytes) \cup {Junk}, from_str(text) # Error
  PROVE  /\ to_string(from_str(text)) = text
         /\ \E kind \in DOMAIN Versions : decode_check(text).version = Versions[kind]
<1> DEFINE decoded == decode_check(text)
           kinds == from_version(decoded.version)
           kind == CHOOSE k \in kinds : TRUE
           address == Address(kind, decoded.payload)
<1>1. from_str(text) = IF decoded = Error THEN Error
        ELSE IF Len(decoded.payload) # HashBytes \/ kinds = {} THEN Error ELSE address
  BY DEF from_str
<1>2. decoded # Error /\ kinds # {} /\ from_str(text) = address
  <2> HIDE DEF decoded, kinds, address
  <2> QED BY <1>1
<1>3. kind \in kinds
  <2> HIDE DEF kinds
  <2> QED BY <1>2
<1>4. kind \in DOMAIN Versions /\ Versions[kind] = decoded.version
  <2> HIDE DEF kind, decoded
  <2> QED BY <1>3 DEF from_version
<1>5. text = encode_check(decoded.version, decoded.payload)
  <2>1. decoded = decode_check(text)
    BY DEF decoded
  <2> HIDE DEF decoded
  <2> QED BY <1>2, <2>1, DecodedIs
<1>6. to_string(address) = encode_check(Versions[kind], decoded.payload)
  <2> HIDE DEF kind, decoded
  <2> QED BY DEF to_string, Address
<1> HIDE DEF address, kind
<1>7. to_string(from_str(text)) = text
  <2> HIDE DEF decoded
  <2> QED BY <1>2, <1>4, <1>5, <1>6
<1> QED BY <1>4, <1>7

\* Every text that is taken for a key or an address is the one text of that
\* key or address, and none is taken for both (from_wif, Address::from_str).
THEOREM TextsAreReadOnce ==
  ASSUME NEW Bytes, KeyTexts(Bytes), NEW text \in Seq(Bytes) \cup {Junk}
  PROVE  TextsAreExact(text)
<1>1. ASSUME from_wif(text) # Error PROVE to_wif(from_wif(text)) = text /\ from_str(text) = Error
  <2>1. to_wif(from_wif(text)) = text /\ decode_check(text).version = WIF_VERSION
    BY <1>1, KeyReadIs
  <2>2. from_str(text) # Error => \E kind \in DOMAIN Versions : decode_check(text).version = Versions[kind]
    BY AddressReadIs
  <2>3. \A kind \in DOMAIN Versions : Versions[kind] # WIF_VERSION
    BY DEF KeyTexts
  <2> QED BY <2>1, <2>2, <2>3
<1>2. ASSUME from_str(text) # Error PROVE to_string(from_str(text)) = text
  BY <1>2, AddressReadIs
<1> QED BY <1>1, <1>2 DEF TextsAreExact

\* What a key or an address is shown as is read back as it, with the form of
\* public key the address of the key is of (to_wif, from_wif, Address).
THEOREM KeysAreReadBack ==
  ASSUME NEW Bytes, KeyTexts(Bytes), NEW scalar \in Scalars, NEW compressed \in BOOLEAN,
         NEW kind \in DOMAIN Versions, NEW hash \in Seq(Bytes), Len(hash) = HashBytes
  PROVE  KeysAreKept(scalar, compressed, kind, hash)
<1>1. from_wif(to_wif(PrivateKey(scalar, compressed))) = PrivateKey(scalar, compressed)
  <2> DEFINE payload == scalar \o Flag(compressed)
             text == encode_check(WIF_VERSION, payload)
             flag == SubSeq(payload, ScalarBytes + 1, Len(payload))
  <2>1. text = to_wif(PrivateKey(scalar, compressed))
    BY DEF to_wif, PrivateKey, Flag
  <2>2. /\ scalar \in Seq(Bytes) /\ Len(scalar) = ScalarBytes /\ ScalarBytes \in Nat /\ WIF_VERSION \in Bytes
        /\ Flag(compressed) \in Seq(Bytes) /\ (Flag(compressed) = <<1>> <=> compressed)
        /\ Flag(compressed) \in {<<>>, <<1>>}
    <3>1. 1 \in Bytes
      BY DEF KeyTexts
    <3>2. scalar \in Seq(Bytes) /\ Len(scalar) = ScalarBytes /\ ScalarBytes \in Nat /\ WIF_VERSION \in Bytes
      BY DEF KeyTexts
    <3>3. /\ Flag(compressed) \in Seq(Bytes) /\ (Flag(compressed) = <<1>> <=> compressed)
          /\ Flag(compressed) \in {<<>>, <<1>>}
      BY <3>1, FlagIs
    <3> QED BY <3>2, <3>3
  <2>3. /\ payload \in Seq(Bytes) /\ Len(payload) = ScalarBytes + Len(Flag(compressed))
        /\ SubSeq(payload, 1, ScalarBytes) = scalar /\ flag = Flag(compressed)
    <3> DEFINE f == Flag(compressed)
    <3>1. scalar \in Seq(Bytes) /\ f \in Seq(Bytes)
      BY <2>2
    <3> HIDE DEF f
    <3>2. LET t == scalar \o f
          IN /\ t \in Seq(Bytes) /\ Len(t) = Len(scalar) + Len(f)
             /\ SubSeq(t, 1, Len(scalar)) = scalar /\ SubSeq(t, Len(scalar) + 1, Len(t)) = f
      BY ONLY <3>1, ListsJoin
    <3> QED BY <2>2, <3>2 DEF f
  <2>4. ~(Len(payload) < ScalarBytes)
    <3>1. Len(Flag(compressed)) \in Nat
      BY <2>2, LenProperties
    <3> HIDE DEF payload
    <3> QED BY <2>2, <2>3, <3>1
  <2> HIDE DEF payload, flag
  <2>5. decode_check(text) = [version |-> WIF_VERSION, payload |-> payload]
    BY <2>2, <2>3, EncodedIs
  <2>6. decode_check(text) # Error
    BY <2>5 DEF KeyTexts
  <2> HIDE DEF text
  <2>7. from_wif(text) = IF decode_check(text) = Error THEN Error
          ELSE IF WIF_VERSION # WIF_VERSION \/ Len(payload) < ScalarBytes \/ flag \notin {<<>>, <<1>>} THEN Error
          ELSE IF SubSeq(payload, 1, ScalarBytes) \notin Scalars THEN Error
          ELSE PrivateKey(SubSeq(payload, 1, ScalarBytes), flag = <<1>>)
    BY <2>5 DEF from_wif, flag
  <2>8. from_wif(text) = PrivateKey(scalar, flag = <<1>>)
    BY <2>2, <2>3, <2>4, <2>6, <2>7
  <2>9. (flag = <<1>>) = compressed
    BY <2>2, <2>3
  <2> QED BY <2>1, <2>8, <2>9
<1>2. from_str(to_string(Address(kind, hash))) = Address(kind, hash)
  <2> DEFINE text == encode_check(Versions[kind], hash)
             kinds == from_version(Versions[kind])
  <2>1. text = to_string(Address(kind, hash))
    BY DEF to_string, Address
  <2>2. Versions[kind] \in Bytes
    BY DEF KeyTexts
  <2>3. decode_check(text) = [version |-> Versions[kind], payload |-> hash]
    BY <2>2, EncodedIs
  <2>4. decode_check(text) # Error
    BY <2>3 DEF KeyTexts
  <2>5. kinds = {kind}
    BY DEF from_version, KeyTexts
  <2> HIDE DEF text
  <2>6. from_str(text) = IF decode_check(text) = Error THEN Error
          ELSE IF Len(hash) # HashBytes \/ kinds = {} THEN Error
          ELSE Address(CHOOSE k \in kinds : TRUE, hash)
    BY <2>3 DEF from_str
  <2> HIDE DEF kinds
  <2>7. (CHOOSE k \in kinds : TRUE) = kind
    BY <2>5
  <2> QED BY <2>1, <2>4, <2>5, <2>6, <2>7
<1> QED BY <1>1, <1>2 DEF KeysAreKept

-----------------------------------------------------------------------------
(***************************************************************************)
(* The keys names stand for.  data_key hashes a name's components from     *)
(* right to left, one over the other; what is said here of such a chain of *)
(* hashes is said of every length.                                         *)
(***************************************************************************)
\* f gives every subset of D what the members of s in it are hashed to.
Hashes(f, s, D, base) ==
  f = [t \in SUBSET D |-> IF t = {} THEN base ELSE hash_component(s[Min(t)], f[t \ {Min(t)}])]

LEMMA LeastIs ==
  ASSUME NEW n \in Nat, NEW T, T \subseteq 1..n, T # {}
  PROVE  Min(T) \in T /\ Min(T) \in Nat /\ \A i \in T : Min(T) <= i
<1>1. T \subseteq Nat
  OBVIOUS
<1>2. \E x \in T : \A y \in T : x <= y
  BY <1>1, LeastNatural
<1>3. Min(T) \in T /\ \A y \in T : Min(T) <= y
  BY <1>2 DEF Min
<1> QED BY <1>1, <1>3

\* What stands before all others is hashed over them.
LEMMA HashesExtend ==
  ASSUME NEW n \in Nat, NEW D, D \subseteq 1..n, NEW d \in D, \A x \in D : d <= x,
         NEW s, NEW base, NEW g, Hashes(g, s, D \ {d}, base)
  PROVE  \E h : Hashes(h, s, D, base)
<1> DEFINE h == [t \in SUBSET D |-> IF d \in t THEN hash_component(s[d], g[t \ {d}]) ELSE g[t]]
           next(t) == IF t = {} THEN base ELSE hash_component(s[Min(t)], h[t \ {Min(t)}])
<1>1. \A t \in SUBSET (D \ {d}) :
        g[t] = IF t = {} THEN base ELSE hash_component(s[Min(t)], g[t \ {Min(t)}])
  BY DEF Hashes
<1>2. ASSUME NEW t \in SUBSET D PROVE h[t] = next(t)
  <2>1. CASE d \in t
    <3>1. Min(t) = d
      <4>1. t # {} /\ t \subseteq 1..n /\ d \in Nat
        BY <2>1
      <4>2. Min(t) \in t /\ Min(t) \in Nat /\ Min(t) <= d
        BY <2>1, <4>1, LeastIs
      <4>3. d <= Min(t)
        BY <4>2
      <4> HIDE DEF h
      <4> QED BY <4>1, <4>2, <4>3
    <3>2. h[t] = hash_component(s[d], g[t \ {d}]) /\ h[t \ {d}] = g[t \ {d}]
      BY <2>1
    <3> HIDE DEF h
    <3> QED BY <2>1, <3>1, <3>2
  <2>2. CASE d \notin t /\ t # {}
    <3> DEFINE m == Min(t)
    <3>1. t \subseteq 1..n
      OBVIOUS
    <3>2. m \in t
      BY <2>2, <3>1, LeastIs
    <3>3. t \in SUBSET (D \ {d}) /\ t \ {m} \in SUBSET D /\ d \notin t \ {m}
      BY <2>2
    <3>4. h[t] = g[t] /\ h[t \ {m}] = g[t \ {m}]
      BY <2>2, <3>3
    <3> HIDE DEF h
    <3> QED BY <1>1, <2>2, <3>3, <3>4
  <2>3. CASE t = {}
    <3>1. h[t] = g[t] /\ g[t] = base
      BY <1>1, <2>3
    <3> HIDE DEF h
    <3> QED BY <2>3, <3>1
  <2> QED BY <2>1, <2>2, <2>3
<1>3. h = [t \in SUBSET D |-> next(t)]
  <2>1. h = [t \in SUBSET D |-> h[t]]
    OBVIOUS
  <2> HIDE DEF h, next
  <2> QED BY <1>2, <2>1
<1>4. Hashes(h, s, D, base)
  <2> HIDE DEF h
  <2> QED BY <1>3 DEF Hashes
<1> QED BY <1>4

LEMMA HashesExist ==
  ASSUME NEW n \in Nat, NEW s, NEW base
  PROVE  \E h : Hashes(h, s, 1..n, base)
<1> DEFINE C == {t \in SUBSET (1..n) : ~ \E g : Hashes(g, s, t, base)}
<1>1. SUFFICES ASSUME C # {} PROVE FALSE
  OBVIOUS
<1>2. \E t \in C : IsFiniteSet(t) /\ \A r \in C : \A x \in t : r # t \ {x}
  <2> DEFINE N == 1..n
  <2>1. C \subseteq SUBSET N /\ IsFiniteSet(N)
    <3>1. 1 \in Int /\ n \in Int
      OBVIOUS
    <3>2. IsFiniteSet(1..n)
      BY <3>1, FS_Interval
    <3> QED BY <3>2
  <2>2. C # {}
    BY <1>1
  <2>3. ASSUME NEW X, NEW Y, Y \subseteq SUBSET X, IsFiniteSet(X), Y # {}
        PROVE  \E r \in Y : IsFiniteSet(r) /\ \A u \in Y : \A x \in r : u # r \ {x}
    BY ONLY <2>3, SmallestSubset
  <2> HIDE DEF C, N
  <2> QED BY ONLY <2>1, <2>2, <2>3
<1>3. PICK t \in C : IsFiniteSet(t) /\ \A r \in C : \A x \in t : r # t \ {x}
  BY <1>2
<1>4. CASE t = {}
  <2> DEFINE g == [r \in SUBSET {} |-> base]
  <2>1. g = [r \in SUBSET {} |-> IF r = {} THEN base ELSE hash_component(s[Min(r)], g[r \ {Min(r)}])]
    OBVIOUS
  <2>2. Hashes(g, s, t, base)
    <3> HIDE DEF g
    <3> QED BY <1>4, <2>1 DEF Hashes
  <2> QED BY <1>3, <2>2
<1>5. CASE t # {}
  <2> DEFINE d == Min(t)
  <2>1. t \subseteq 1..n
    BY <1>3
  <2>2. d \in t /\ \A x \in t : d <= x
    BY <1>5, <2>1, LeastIs
  <2>3. t \ {d} \in SUBSET (1..n) /\ t \ {d} \notin C
    BY <1>3, <2>1, <2>2
  <2>4. PICK g : Hashes(g, s, t \ {d}, base)
    BY <2>3
  <2>5. \E h : Hashes(h, s, t, base)
    <3> HIDE DEF d, C
    <3> QED BY <2>1, <2>2, <2>4, HashesExtend
  <2> QED BY <1>3, <2>5
<1> QED BY <1>4, <1>5

\* R gives at each place what that component and those after it are hashed to.
IsChain(R, s, n, base) ==
  R[n + 1] = base /\ \A k \in 1..n : R[k] = hash_component(s[k], R[k + 1])

HashedOver(name, base) == FoldRight(LAMBDA part, parent : hash_component(part, parent), name, base)

LEMMA HashedIsAChain ==
  ASSUME NEW n \in Nat, NEW s, DOMAIN s = 1..n, NEW base
  PROVE  \E R : IsChain(R, s, n, base) /\ HashedOver(s, base) = R[1]
<1> DEFINE it == CHOOSE f : f = [t \in SUBSET (1..n) |->
                   IF t = {} THEN base ELSE hash_component(s[Min(t)], f[t \ {Min(t)}])]
           R == [k \in 1..(n + 1) |-> it[k..n]]
<1>1. HashedOver(s, base) = it[1..n]
  BY DEF HashedOver, FoldRight, MapThenFoldSet
<1>2. it = [t \in SUBSET (1..n) |-> IF t = {} THEN base ELSE hash_component(s[Min(t)], it[t \ {Min(t)}])]
  <2>1. \E f : f = [t \in SUBSET (1..n) |-> IF t = {} THEN base ELSE hash_component(s[Min(t)], f[t \ {Min(t)}])]
    <3>1. PICK h : Hashes(h, s, 1..n, base)
      BY HashesExist
    <3> QED BY <3>1 DEF Hashes
  <2> QED BY <2>1
<1> HIDE DEF it
<1>3. R[n + 1] = base
  <2>1. n + 1 \in 1..(n + 1) /\ (n + 1)..n = {} /\ {} \in SUBSET (1..n)
    OBVIOUS
  <2> QED BY <1>2, <2>1
<1>4. ASSUME NEW k \in 1..n PROVE R[k] = hash_component(s[k], R[k + 1])
  <2>1. k..n \subseteq 1..n /\ k..n # {} /\ k \in k..n /\ k \in 1..(n + 1) /\ k + 1 \in 1..(n + 1) /\ k \in Nat
    <3>1. k \in Nat /\ 1 <= k /\ k <= n
      OBVIOUS
    <3>2. k \in k..n /\ k \in 1..(n + 1) /\ k + 1 \in 1..(n + 1)
      BY <3>1
    <3>3. \A i \in k..n : i \in 1..n
      BY <3>1
    <3> QED BY <3>1, <3>2, <3>3
  <2>2. Min(k..n) = k
    <3>1. Min(k..n) \in k..n /\ Min(k..n) <= k
      BY <2>1, LeastIs
    <3> QED BY <2>1, <3>1
  <2>3. (k..n) \ {k} = (k + 1)..n
    OBVIOUS
  <2>4. it[k..n] = hash_component(s[k], it[(k + 1)..n])
    <3> DEFINE T == k..n
    <3>1. T \in SUBSET (1..n) /\ T # {}
      BY <2>1
    <3>2. it[T] = hash_component(s[Min(T)], it[T \ {Min(T)}])
      <4> HIDE DEF T
      <4> QED BY <1>2, <3>1
    <3> QED BY <2>2, <2>3, <3>2
  <2> QED BY <2>1, <2>4
<1>5. R[1] = it[1..n]
  <2>1. 1 \in 1..(n + 1)
    OBVIOUS
  <2> QED BY <2>1
<1> HIDE DEF R
<1>6. IsChain(R, s, n, base)
  BY <1>3, <1>4 DEF IsChain
<1> QED BY <1>1, <1>5, <1>6

\* No component that is accepted is spelled as the separator, which has a
\* character of its own; and nothing is no hash and no name.
NamesAreApart ==
  /\ Lower \in [Components -> Components] /\ Allowed \subseteq Components
  /\ \A c \in Allowed : c # Separator /\ Lower[c] # Separator
  /\ Nothing \notin Seq(Components)
  /\ \A x, y : Nothing # <<"hash", x, y>>

LEMMA HashIs ==
  ASSUME NamesAreApart
  PROVE  /\ \A c \in Allowed : \A x : hash_component(c, x) = <<"hash", Lower[c], x>>
         /\ \A x : hash_component(Separator, x) = <<"hash", Separator, x>>
         /\ \A c, x : hash_component(c, x) # Nothing
         /\ \A c, d \in Allowed : \A x, y : hash_component(c, x) = hash_component(d, y) <=> Lower[c] = Lower[d] /\ x = y
         /\ \A x, y : hash_component(Separator, x) = hash_component(Separator, y) <=> x = y
         /\ \A c \in Allowed : \A x, y : hash_component(c, x) # hash_component(Separator, y)
<1>1. \A c \in Allowed : \A x : hash_component(c, x) = <<"hash", Lower[c], x>>
  BY DEF hash_component, NamesAreApart
<1>2. \A x : hash_component(Separator, x) = <<"hash", Separator, x>>
  BY DEF hash_component
<1>3. \A c, x : hash_component(c, x) # Nothing
  BY DEF hash_component, NamesAreApart
<1>4. \A u, v, x, y : <<"hash", u, x>> = <<"hash", v, y>> <=> u = v /\ x = y
  OBVIOUS
<1>5. \A c \in Allowed : Lower[c] # Separator
  BY DEF NamesAreApart
<1>6. \A c, d \in Allowed : \A x, y : hash_component(c, x) = hash_component(d, y) <=> Lower[c] = Lower[d] /\ x = y
  BY <1>1, <1>4
<1>7. \A x, y : hash_component(Separator, x) = hash_component(Separator, y) <=> x = y
  BY <1>2, <1>4
<1>8. \A c \in Allowed : \A x, y : hash_component(c, x) # hash_component(Separator, y)
  BY <1>1, <1>2, <1>4, <1>5
<1> QED BY <1>1, <1>2, <1>3, <1>6, <1>7, <1>8

\* What nothing that is accepted is hashed to.
Root(base) == \A c \in Allowed : \A x : base # hash_component(c, x)

\* As far as both chains go, they are the same from the first on.
LEMMA ChainsStayTogether ==
  ASSUME NamesAreApart, NEW n \in Nat, NEW m \in Nat, NEW s, NEW t, NEW p, NEW q, NEW R, NEW Q,
         IsChain(R, s, n, p), IsChain(Q, t, m, q), R[1] = Q[1],
         \A k \in 1..n : s[k] \in Allowed, \A k \in 1..m : t[k] \in Allowed
  PROVE  \A k \in Nat : k <= n /\ k <= m => R[k + 1] = Q[k + 1]
<1> DEFINE F == {k \in Nat : k <= n /\ k <= m /\ R[k + 1] # Q[k + 1]}
<1>1. SUFFICES ASSUME F # {} PROVE FALSE
  OBVIOUS
<1>2. PICK k \in F : \A j \in F : k <= j
  <2>1. F \subseteq Nat
    OBVIOUS
  <2> HIDE DEF F
  <2> QED BY <1>1, <2>1, LeastNatural
<1>3. k \in Nat /\ k <= n /\ k <= m /\ R[k + 1] # Q[k + 1]
  OBVIOUS
<1>4. k # 0
  <2>1. k = 0 => k + 1 = 1
    OBVIOUS
  <2> QED BY <1>3, <2>1
<1>5. k - 1 \in Nat /\ (k - 1) + 1 = k /\ ~(k <= k - 1) /\ k - 1 <= n /\ k - 1 <= m /\ k \in 1..n /\ k \in 1..m
  BY <1>3, <1>4
<1>6. R[k] = Q[k]
  <2>1. k - 1 \notin F
    <3> HIDE DEF F
    <3> QED BY <1>2, <1>5
  <2> QED BY <1>5, <2>1
<1>7. R[k] = hash_component(s[k], R[k + 1]) /\ Q[k] = hash_component(t[k], Q[k + 1])
  BY <1>5 DEF IsChain
<1>8. R[k + 1] = Q[k + 1]
  <2>1. \A c, d \in Allowed : \A x, y : hash_component(c, x) = hash_component(d, y) => x = y
    BY HashIs
  <2>2. s[k] \in Allowed /\ t[k] \in Allowed
    BY <1>5
  <2> HIDE DEF F
  <2> QED BY ONLY <1>6, <1>7, <2>1, <2>2
<1> QED BY <1>3, <1>8

LEMMA ChainsTell ==
  ASSUME NamesAreApart, NEW n \in Nat, NEW m \in Nat, NEW s, NEW t, NEW p, NEW q, NEW R, NEW Q,
         IsChain(R, s, n, p), IsChain(Q, t, m, q), R[1] = Q[1], Root(p), Root(q),
         \A k \in 1..n : s[k] \in Allowed, \A k \in 1..m : t[k] \in Allowed
  PROVE  n = m /\ p = q /\ \A k \in 1..n : Lower[s[k]] = Lower[t[k]]
<1>1. \A k \in Nat : k <= n /\ k <= m => R[k + 1] = Q[k + 1]
  BY ChainsStayTogether
<1>2. ~(n < m)
  <2> SUFFICES ASSUME n < m PROVE FALSE
    OBVIOUS
  <2>1. n \in Nat /\ n <= n /\ n <= m /\ n + 1 \in 1..m
    OBVIOUS
  <2>2. R[n + 1] = p /\ Q[n + 1] = hash_component(t[n + 1], Q[n + 1 + 1])
    BY <2>1 DEF IsChain
  <2> QED BY <1>1, <2>1, <2>2 DEF Root
<1>3. ~(m < n)
  <2> SUFFICES ASSUME m < n PROVE FALSE
    OBVIOUS
  <2>1. m \in Nat /\ m <= m /\ m <= n /\ m + 1 \in 1..n
    OBVIOUS
  <2>2. Q[m + 1] = q /\ R[m + 1] = hash_component(s[m + 1], R[m + 1 + 1])
    BY <2>1 DEF IsChain
  <2> QED BY <1>1, <2>1, <2>2 DEF Root
<1>4. n = m
  BY <1>2, <1>3
<1>5. p = q
  <2>1. n <= n /\ n <= m
    BY <1>4
  <2>2. R[n + 1] = p /\ Q[n + 1] = q
    BY <1>4 DEF IsChain
  <2> QED BY <1>1, <2>1, <2>2
<1>6. ASSUME NEW k \in 1..n PROVE Lower[s[k]] = Lower[t[k]]
  <2>1. k - 1 \in Nat /\ k - 1 <= n /\ k - 1 <= m /\ (k - 1) + 1 = k /\ k \in 1..m
    BY <1>4
  <2>2. R[k] = Q[k]
    BY <1>1, <2>1
  <2>3. R[k] = hash_component(s[k], R[k + 1]) /\ Q[k] = hash_component(t[k], Q[k + 1])
    BY <2>1 DEF IsChain
  <2>4. \A c, d \in Allowed : \A x, y : hash_component(c, x) = hash_component(d, y) => Lower[c] = Lower[d]
    BY HashIs
  <2>5. s[k] \in Allowed /\ t[k] \in Allowed
    BY <2>1
  <2> QED BY ONLY <2>2, <2>3, <2>4, <2>5
<1> QED BY <1>4, <1>5, <1>6

LEMMA ChainsAgree ==
  ASSUME NamesAreApart, NEW n \in Nat, NEW s, NEW t, NEW p, NEW R, NEW Q,
         IsChain(R, s, n, p), IsChain(Q, t, n, p),
         \A k \in 1..n : s[k] \in Allowed /\ t[k] \in Allowed /\ Lower[s[k]] = Lower[t[k]]
  PROVE  R[1] = Q[1]
<1> DEFINE F == {k \in Nat : k <= n /\ R[n + 1 - k] # Q[n + 1 - k]}
<1>1. CASE F = {}
  <2>1. n <= n /\ n + 1 - n = 1
    OBVIOUS
  <2>2. n \notin F
    <3> HIDE DEF F
    <3> QED BY <1>1
  <2>3. R[n + 1 - n] = Q[n + 1 - n]
    BY <2>1, <2>2
  <2> QED BY <2>1, <2>3
<1>2. CASE F # {}
  <2>1. PICK k \in F : \A j \in F : k <= j
    <3>1. F \subseteq Nat
      OBVIOUS
    <3> HIDE DEF F
    <3> QED BY <1>2, <3>1, LeastNatural
  <2>2. k \in Nat /\ k <= n /\ R[n + 1 - k] # Q[n + 1 - k]
    OBVIOUS
  <2>3. k # 0
    <3>1. n + 1 - 0 = n + 1 /\ R[n + 1] = Q[n + 1]
      BY DEF IsChain
    <3> QED BY <2>2, <3>1
  <2> DEFINE i == n + 1 - k
  <2>4. k - 1 \in Nat /\ k - 1 <= n /\ ~(k <= k - 1) /\ n + 1 - (k - 1) = i + 1 /\ i \in 1..n
    BY <2>2, <2>3
  <2>5. R[i + 1] = Q[i + 1]
    <3>1. k - 1 \notin F
      <4> HIDE DEF F
      <4> QED BY <2>1, <2>4
    <3> QED BY <2>4, <3>1
  <2>6. R[i] = hash_component(s[i], R[i + 1]) /\ Q[i] = hash_component(t[i], Q[i + 1])
    BY <2>4 DEF IsChain
  <2>7. R[i] = Q[i]
    <3> HIDE DEF i
    <3> QED BY <2>4, <2>5, <2>6, HashIs
  <2> QED BY <2>2, <2>7
<1> QED BY <1>1, <1>2

LEMMA FrontIs ==
  ASSUME NEW S, NEW s \in Seq(S), Len(s) > 1
  PROVE  Front(s) \in Seq(S)
<1>1. Len(s) \in Nat /\ \A i \in 1..Len(s) : s[i] \in S
  BY LenProperties, ElementOfSeq
<1>2. 1 \in Int /\ Len(s) - 1 \in Int /\ \A i \in 1..(Len(s) - 1) : s[i] \in S
  BY <1>1
<1>3. SubSeq(s, 1, Len(s) - 1) \in Seq(S)
  BY ONLY <1>2, SubSeqProperties
<1> QED BY <1>3 DEF Front

LEMMA TrimmedNameIs ==
  ASSUME NEW name \in Seq(Components)
  PROVE  Trimmed(name) \in Seq(Components)
BY FrontIs DEF Trimmed

\* The components of a name are accepted, or there are none.
LEMMA ComponentsAre ==
  ASSUME NamesAreApart, NEW name \in Seq(Components), components(name) # Nothing
  PROVE  LET parts == components(name)
         IN /\ parts \in Seq(Components) /\ Len(parts) \in Nat /\ DOMAIN parts = 1..Len(parts)
            /\ \A i \in 1..Len(parts) : parts[i] \in Allowed
<1> DEFINE trimmed == Trimmed(name)
           parts == IF Len(trimmed) > 1 /\ Lower[Last(trimmed)] = Lower[ChainName] THEN Front(trimmed) ELSE trimmed
<1>1. trimmed \in Seq(Components)
  BY TrimmedNameIs
<1>2. parts \in Seq(Components)
  <2> HIDE DEF trimmed
  <2> QED BY <1>1, FrontIs
<1>3. components(name) = IF \E i \in DOMAIN parts : ~check_component(parts[i]) THEN Nothing ELSE parts
  BY DEF components
<1> HIDE DEF parts
<1>4. components(name) = parts /\ \A i \in DOMAIN parts : check_component(parts[i])
  BY <1>3
<1>5. Len(parts) \in Nat /\ DOMAIN parts = 1..Len(parts)
  BY <1>2, LenProperties
<1>6. \A i \in 1..Len(parts) : parts[i] \in Allowed
  BY <1>4, <1>5 DEF check_component
<1> QED BY <1>2, <1>4, <1>5, <1>6

\* A key is the end of a chain that starts at its namespace.
LEMMA KeyIs ==
  ASSUME NamesAreApart, NEW name \in Seq(Components), NEW namespace
  PROVE  /\ components(name) = Nothing => data_key(name, namespace) = Nothing
         /\ components(name) # Nothing =>
              /\ data_key(name, namespace) # Nothing
              /\ \E R : /\ IsChain(R, components(name), Len(components(name)), hash_component(Separator, namespace))
                        /\ data_key(name, namespace) = R[1]
<1>1. components(name) = Nothing => data_key(name, namespace) = Nothing
  BY DEF data_key
<1>2. ASSUME components(name) # Nothing
      PROVE  /\ data_key(name, namespace) # Nothing
             /\ \E R : /\ IsChain(R, components(name), Len(components(name)), hash_component(Separator, namespace))
                       /\ data_key(name, namespace) = R[1]
  <2> DEFINE parts == components(name)
             n == Len(parts)
             base == hash_component(Separator, namespace)
  <2>1. data_key(name, namespace) = HashedOver(parts, base)
    BY <1>2 DEF data_key, HashedOver
  <2>2. n \in Nat /\ DOMAIN parts = 1..n
    BY <1>2, ComponentsAre
  <2>3. base # Nothing
    BY HashIs
  <2> HIDE DEF parts, n, base
  <2>4. PICK R : IsChain(R, parts, n, base) /\ HashedOver(parts, base) = R[1]
    BY <2>2, HashedIsAChain
  <2>5. R[1] # Nothing
    <3>1. CASE n = 0
      <4>1. n + 1 = 1
        BY <3>1
      <4> QED BY <2>3, <2>4, <4>1 DEF IsChain
    <3>2. CASE n # 0
      <4>1. 1 \in 1..n
        BY <2>2, <3>2
      <4>2. R[1] = hash_component(parts[1], R[1 + 1])
        BY <2>4, <4>1 DEF IsChain
      <4> QED BY <4>2, HashIs
    <3> QED BY <3>1, <3>2
  <2> QED BY <2>1, <2>4, <2>5 DEF parts, n, base
<1> QED BY <1>1, <1>2

\* So is an id, from nothing.
LEMMA IdIs ==
  ASSUME NamesAreApart, NEW name \in Seq(Components), components(name) # Nothing
  PROVE  \E R : IsChain(R, components(name), Len(components(name)), Nothing) /\ IdOf(components(name)) = R[1]
<1> DEFINE parts == components(name)
           n == Len(parts)
<1>1. IdOf(parts) = HashedOver(parts, Nothing)
  BY DEF IdOf, HashedOver
<1>2. n \in Nat /\ DOMAIN parts = 1..n
  BY ComponentsAre
<1> HIDE DEF parts, n
<1>3. \E R : IsChain(R, parts, n, Nothing) /\ HashedOver(parts, Nothing) = R[1]
  BY <1>2, HashedIsAChain
<1> QED BY <1>1, <1>3 DEF parts, n

\* The id of a root name.
LEMMA RootIs ==
  ASSUME NamesAreApart, NEW name \in Seq(Components), root_namespace(name) # Nothing
  PROVE  components(name) # Nothing /\ root_namespace(name) = IdOf(components(name))
<1> DEFINE parts == Trimmed(name)
<1>1. parts \in Seq(Components)
  BY TrimmedNameIs
<1>2. root_namespace(name) = IF Len(parts) # 1 \/ ~check_component(parts[1]) \/ parts[1] \in Spaced THEN Nothing
                             ELSE hash_component(parts[1], Nothing)
  BY DEF root_namespace
<1>3. Len(parts) = 1 /\ check_component(parts[1]) /\ root_namespace(name) = hash_component(parts[1], Nothing)
  <2> HIDE DEF parts
  <2> QED BY <1>2
<1>4. components(name) = parts
  <2>1. DOMAIN parts = {1} /\ ~(Len(parts) > 1)
    <3>1. DOMAIN parts = 1..1
      <4> HIDE DEF parts
      <4> QED BY <1>1, <1>3, LenProperties
    <3>2. 1..1 = {1} /\ ~(1 > 1)
      OBVIOUS
    <3> HIDE DEF parts
    <3> QED BY <1>3, <3>1, <3>2
  <2>2. components(name) =
          LET these == IF Len(parts) > 1 /\ Lower[Last(parts)] = Lower[ChainName] THEN Front(parts) ELSE parts
          IN IF \E i \in DOMAIN these : ~check_component(these[i]) THEN Nothing ELSE these
    BY DEF components
  <2> HIDE DEF parts
  <2> QED BY <1>3, <2>1, <2>2
<1>5. parts # Nothing
  <2> HIDE DEF parts
  <2> QED BY <1>1 DEF NamesAreApart
<1>6. PICK R : IsChain(R, parts, 1, Nothing) /\ IdOf(parts) = R[1]
  <2> HIDE DEF parts
  <2>1. \E R : IsChain(R, components(name), Len(components(name)), Nothing) /\ IdOf(components(name)) = R[1]
    BY <1>4, <1>5, IdIs
  <2> QED BY <1>3, <1>4, <2>1
<1>7. R[1] = hash_component(parts[1], Nothing)
  <2> HIDE DEF parts
  <2>1. 1 \in 1..1 /\ 1 + 1 = 2
    OBVIOUS
  <2>2. R[2] = Nothing /\ R[1] = hash_component(parts[1], R[2])
    BY <1>6, <2>1 DEF IsChain
  <2> QED BY <2>2
<1> QED BY <1>3, <1>4, <1>5, <1>6, <1>7

Spelled(parts) == [i \in DOMAIN parts |-> Lower[parts[i]]]

\* Two chains from their roots end in one hash only if they are one chain.
LEMMA OneChain ==
  ASSUME NamesAreApart, NEW a \in Seq(Components), NEW b \in Seq(Components),
         components(a) # Nothing, components(b) # Nothing, NEW p, NEW q, Root(p), Root(q), NEW R, NEW Q,
         IsChain(R, components(a), Len(components(a)), p), IsChain(Q, components(b), Len(components(b)), q)
  PROVE  R[1] = Q[1] <=> Spelled(components(a)) = Spelled(components(b)) /\ p = q
<1> DEFINE s == components(a)
           t == components(b)
           n == Len(s)
           m == Len(t)
<1>1. /\ n \in Nat /\ DOMAIN s = 1..n /\ \A i \in 1..n : s[i] \in Allowed
      /\ m \in Nat /\ DOMAIN t = 1..m /\ \A i \in 1..m : t[i] \in Allowed
  BY ComponentsAre
<1>2. IsChain(R, s, n, p) /\ IsChain(Q, t, m, q)
  OBVIOUS
<1> HIDE DEF s, t, n, m
<1>3. ASSUME R[1] = Q[1] PROVE Spelled(s) = Spelled(t) /\ p = q
  <2>1. n = m /\ p = q /\ \A k \in 1..n : Lower[s[k]] = Lower[t[k]]
    BY <1>1, <1>2, <1>3, ChainsTell
  <2> QED BY <1>1, <2>1 DEF Spelled
<1>4. ASSUME Spelled(s) = Spelled(t), p = q PROVE R[1] = Q[1]
  <2>1. DOMAIN Spelled(s) = 1..n /\ DOMAIN Spelled(t) = 1..m
    BY <1>1 DEF Spelled
  <2>2. 1..n = 1..m
    BY <1>4, <2>1
  <2>3. n = m
    <3>1. n \in 1..n \/ n = 0
      BY <1>1
    <3>2. m \in 1..m \/ m = 0
      BY <1>1
    <3>3. n <= m
      BY <1>1, <2>2, <3>1
    <3>4. m <= n
      BY <1>1, <2>2, <3>2
    <3> QED BY <1>1, <3>3, <3>4
  <2>4. \A k \in 1..n : s[k] \in Allowed /\ t[k] \in Allowed /\ Lower[s[k]] = Lower[t[k]]
    <3>1. \A k \in 1..n : Spelled(s)[k] = Lower[s[k]] /\ Spelled(t)[k] = Lower[t[k]]
      BY <1>1, <2>3 DEF Spelled
    <3> QED BY <1>1, <1>4, <2>3, <3>1
  <2>5. IsChain(R, s, n, p) /\ IsChain(Q, t, n, p)
    BY <1>2, <1>4, <2>3
  <2> QED BY <1>1, <2>4, <2>5, ChainsAgree
<1> QED BY <1>3, <1>4 DEF s, t

\* Names of any length are the same key only if they spell the same components
\* in the same namespace, and no key is the id of a name; a key is the same
\* however its namespace is written (data_key, qualified_key).
THEOREM DataKeysNameOneThingAlways ==
  ASSUME NamesAreApart, NEW a \in Seq(Components), NEW b \in Seq(Components), NEW in, NEW at
  PROVE  DataKeysNameOneThing(a, b, in, at)
<1> SUFFICES
      ASSUME data_key(a, in) # Nothing
      PROVE  /\ (data_key(b, at) = data_key(a, in)) <=>
                  (components(b) # Nothing /\ Spelled(components(a)) = Spelled(components(b)) /\ in = at)
             /\ components(b) # Nothing => data_key(a, in) # IdOf(components(b))
             /\ qualified_key(Uri(<<>>, a), in) = data_key(a, in)
             /\ qualified_key(Uri(<<[kind |-> "Identity", of |-> in]>>, a), at) = data_key(a, in)
             /\ LET uri == Uri(<<[kind |-> "name", of |-> b]>>, a)
                IN qualified_key(uri, in) # Nothing => \A chain_id \in {in, at} :
                     qualified_key(uri, chain_id) = data_key(a, IdOf(components(b)))
  BY DEF DataKeysNameOneThing, Spelled
<1>1. components(a) # Nothing
  BY KeyIs
<1> DEFINE p == hash_component(Separator, in)
           q == hash_component(Separator, at)
<1>2. Root(p) /\ Root(q) /\ Root(Nothing) /\ (p = q <=> in = at) /\ p # Nothing
  BY HashIs DEF Root
<1>3. PICK R : IsChain(R, components(a), Len(components(a)), p) /\ data_key(a, in) = R[1]
  BY <1>1, KeyIs
<1> HIDE DEF p, q
<1>4. (data_key(b, at) = data_key(a, in)) <=>
        (components(b) # Nothing /\ Spelled(components(a)) = Spelled(components(b)) /\ in = at)
  <2>1. CASE components(b) = Nothing
    <3>1. data_key(b, at) = Nothing
      BY <2>1, KeyIs
    <3> QED BY <2>1, <3>1
  <2>2. CASE components(b) # Nothing
    <3>1. PICK Q : IsChain(Q, components(b), Len(components(b)), q) /\ data_key(b, at) = Q[1]
      BY <2>2, KeyIs DEF q
    <3>2. R[1] = Q[1] <=> Spelled(components(a)) = Spelled(components(b)) /\ p = q
      BY <1>1, <1>2, <1>3, <2>2, <3>1, OneChain
    <3> QED BY <1>2, <1>3, <2>2, <3>1, <3>2
  <2> QED BY <2>1, <2>2
<1>5. ASSUME components(b) # Nothing PROVE data_key(a, in) # IdOf(components(b))
  <2>1. PICK Q : IsChain(Q, components(b), Len(components(b)), Nothing) /\ IdOf(components(b)) = Q[1]
    BY <1>5, IdIs
  <2>2. R[1] = Q[1] <=> Spelled(components(a)) = Spelled(components(b)) /\ p = Nothing
    BY <1>1, <1>2, <1>3, <1>5, <2>1, OneChain
  <2> QED BY <1>2, <1>3, <2>1, <2>2
<1>6. qualified_key(Uri(<<>>, a), in) = data_key(a, in)
  <2>1. Uri(<<>>, a).before = <<>> /\ Uri(<<>>, a).name = a
    BY DEF Uri
  <2> QED BY <2>1 DEF qualified_key
<1>7. \A ns : /\ Uri(<<ns>>, a).before = <<ns>> /\ Uri(<<ns>>, a).before[1] = ns /\ Uri(<<ns>>, a).name = a
              /\ <<ns>> # <<>> /\ ~(Len(<<ns>>) > 1)
  BY DEF Uri
<1>8. qualified_key(Uri(<<[kind |-> "Identity", of |-> in]>>, a), at) = data_key(a, in)
  <2> DEFINE ns == [kind |-> "Identity", of |-> in]
  <2>1. ns.kind = "Identity" /\ ns.of = in /\ "Identity" # "name"
    OBVIOUS
  <2> HIDE DEF ns
  <2>2. qualified_key(Uri(<<ns>>, a), at) = data_key(a, ns.of)
    BY <1>7, <2>1 DEF qualified_key
  <2> QED BY <2>1, <2>2 DEF ns
<1>9. \A chain_id : qualified_key(Uri(<<[kind |-> "name", of |-> b]>>, a), chain_id) =
                      IF root_namespace(b) = Nothing THEN Nothing ELSE data_key(a, root_namespace(b))
  <2> DEFINE ns == [kind |-> "name", of |-> b]
  <2>1. ns.kind = "name" /\ ns.of = b /\ "Identity" # "name"
    OBVIOUS
  <2> HIDE DEF ns
  <2>2. \A chain_id : qualified_key(Uri(<<ns>>, a), chain_id) =
                        IF root_namespace(ns.of) = Nothing THEN Nothing ELSE data_key(a, root_namespace(ns.of))
    BY <1>7, <2>1 DEF qualified_key
  <2> QED BY <2>1, <2>2 DEF ns
<1>10. ASSUME qualified_key(Uri(<<[kind |-> "name", of |-> b]>>, a), in) # Nothing
       PROVE  \A chain_id \in {in, at} :
                qualified_key(Uri(<<[kind |-> "name", of |-> b]>>, a), chain_id) = data_key(a, IdOf(components(b)))
  <2>1. root_namespace(b) # Nothing
    BY <1>9, <1>10
  <2>2. root_namespace(b) = IdOf(components(b))
    BY <2>1, RootIs
  <2> QED BY <1>9, <2>1, <2>2
<1> QED BY <1>4, <1>5, <1>6, <1>8, <1>10
=============================================================================
