----------------------------- MODULE CoSigning -----------------------------
(***************************************************************************)
(* A transaction that is signed in more than one place                     *)
(* (src/crates/verus-tx-market/src/partial.rs) under the sighash of        *)
(* src/crates/verus-wire/src/tx.rs.                                        *)
(*                                                                         *)
(* A partial transaction travels between signers over a channel that       *)
(* duplicates, reorders, loses and alters.  A hash is the record of what   *)
(* it commits to, so two hashes are equal exactly when they commit to the  *)
(* same.  A gathered signature is the key it names (by), the key that made *)
(* it (maker), the hash it covers (over) and, for a key hash, the sighash  *)
(* type in its last byte (says).  Whether enough signed is the chain's     *)
(* decision: identities are not in the transaction.                        *)
(***************************************************************************)
EXTENDS Integers, FiniteSets, SequencesExt

CONSTANTS
  None,
  Keys,
  Identities,
  Primary,       \* [Identities -> SUBSET Keys]: the primary addresses
  Minimum,       \* [Identities -> Nat]: how many of them must sign
  Plans,         \* what transactions are started from: [inputs, outputs, expiry]
  Strangers,     \* keys of nobody who signs: an altered output may pay them, and
                 \* they may sign
  HashTypes,     \* sighash types signers choose
  MaxCopies,     \* bound: different copies on their way
  MaxAlterations \* bound: changes the channel makes

ASSUME CoSigningAssumption ==
  /\ Keys \cap Identities = {} /\ Strangers \cap (Keys \cup Identities) = {}
  /\ Primary \in [Identities -> SUBSET Keys]
  /\ \A i \in Identities : Minimum[i] \in 1..Cardinality(Primary[i])

\* A coin belongs to a key, or to an identity.
ASSUME PlansAssumption ==
  \A plan \in Plans :
    /\ plan.inputs \in Seq(ToSet(plan.inputs))
    /\ \A input \in ToSet(plan.inputs) : input.kind # "key" => input.owner \in Identities

VARIABLES
  hand,        \* [Keys -> the partial transaction a signer has, or None]
  carried,     \* serialized partials on their way
  approved,    \* [Keys -> the transactions a signer looked at and signed]
  finished,    \* what finalize returned, once
  alterations

vars == <<hand, carried, approved, finished, alterations>>

-----------------------------------------------------------------------------
(***************************************************************************)
(* Sighash types: a base (what of the outputs is bound) and whether the    *)
(* other inputs may change.                                                *)
(***************************************************************************)
All == [base |-> "all", anyone_can_pay |-> FALSE]

check_sighash_type(type) == type.base \in {"all", "none", "single"}

\* sighash_prefix_for: what the hash says of the transaction as a whole.
Prevouts(tx, type) ==
  IF type.anyone_can_pay THEN None
  ELSE [i \in DOMAIN tx.inputs |-> tx.inputs[i].outpoint]

BoundOutputs(tx, type, index) ==
  CASE type.base = "all"    -> tx.outputs
    [] type.base = "single" -> <<tx.outputs[index]>>
    [] OTHER                -> <<>>

\* transparent_sighash: refused for an unknown type, and for SINGLE where the
\* input has no output beside it.
Hashable(tx, type, index) ==
  /\ check_sighash_type(type)
  /\ type.base = "single" => index \in DOMAIN tx.outputs

sighash(tx, index) ==
  LET input == tx.inputs[index] IN
  [prevouts |-> Prevouts(tx, input.hash_type),
   outputs  |-> BoundOutputs(tx, input.hash_type, index),
   type     |-> input.hash_type,
   expiry   |-> tx.expiry,
   spends   |-> [outpoint |-> input.outpoint, script |-> input.owner, value |-> input.value]]

-----------------------------------------------------------------------------
(***************************************************************************)
(* PartialTransaction                                                      *)
(***************************************************************************)
\* Nothing signed, everything bound.
start(plan) ==
  [inputs  |-> [i \in DOMAIN plan.inputs |->
                  [outpoint |-> plan.inputs[i].outpoint, owner |-> plan.inputs[i].owner,
                   value |-> plan.inputs[i].value, kind |-> plan.inputs[i].kind,
                   hash_type |-> All, signatures |-> <<>>]],
   outputs |-> plan.outputs,
   expiry  |-> plan.expiry]

Signers(input) == {input.signatures[j].by : j \in DOMAIN input.signatures}

\* with_hash_type: before the input is signed, and only to a type that can be
\* hashed; a refused call changes nothing.
MayRetype(tx, index, type) ==
  /\ tx.inputs[index].signatures = <<>>
  /\ Hashable([tx EXCEPT !.inputs[index].hash_type = type], type, index)

\* Mutant: every input is signed, whoever it belongs to.
Signable_Any(input, key) == key \notin Signers(input)

\* sign, for one input: once per key, and a key hash only by its owner.  A
\* condition is signed by whoever asks.
Signable(input, key) ==
  /\ key \notin Signers(input)
  /\ input.kind = "key" => input.owner = key

\* The loop stops at the first input it cannot hash, with an error, and keeps
\* the signatures it already made.
Reached(tx, index) == \A i \in 1..index : Hashable(tx, tx.inputs[i].hash_type, i)

\* A key hash's signature ends in the byte of its type; a condition's does not
\* carry one, finalize writes it into the fulfillment.
new_signature(tx, index, key) ==
  [by |-> key, maker |-> key, over |-> sighash(tx, index),
   says |-> IF tx.inputs[index].kind = "key" THEN tx.inputs[index].hash_type ELSE None]

sign(tx, key) ==
  [tx EXCEPT !.inputs = [i \in DOMAIN tx.inputs |->
     IF Reached(tx, i) /\ Signable(tx.inputs[i], key)
     THEN [tx.inputs[i] EXCEPT !.signatures = Append(@, new_signature(tx, i, key))]
     ELSE tx.inputs[i]]]

Total(list) == FoldSeq(LAMBDA x, sum : x.value + sum, 0, list)

\* summary: what a signer sees.  Refused when more goes out than comes in.
Summarizable(tx) == Total(tx.inputs) \geq Total(tx.outputs)
summary(tx) ==
  [fee_and_burn |-> Total(tx.inputs) - Total(tx.outputs),
   outputs      |-> tx.outputs,
   hash_types   |-> [i \in DOMAIN tx.inputs |-> tx.inputs[i].hash_type]]

commits_to_all_outputs(seen) == \A i \in DOMAIN seen.hash_types : seen.hash_types[i] = All

\* verify: against the hash this transaction has now and the key that is named.
\* The last byte of a key hash's signature is dropped, and compared to nothing.
verify(tx, index, s) == s.maker = s.by /\ s.over = sighash(tx, index)

\* Mutant: signatures are trusted.
Finalizable_Unverified(tx) ==
  \A i \in DOMAIN tx.inputs : tx.inputs[i].signatures # <<>>

\* finalize refuses an input without a signature, and any that does not verify.
Finalizable(tx) ==
  /\ Reached(tx, Len(tx.inputs))
  /\ \A i \in DOMAIN tx.inputs :
       /\ tx.inputs[i].signatures # <<>>
       /\ \A j \in DOMAIN tx.inputs[i].signatures :
            verify(tx, i, tx.inputs[i].signatures[j])

\* A key hash takes the first signature, as it came, and a condition all of them.
Unlocking(input) ==
  IF input.kind = "key" THEN SubSeq(input.signatures, 1, 1) ELSE input.signatures

finalize(tx) ==
  [tx EXCEPT !.inputs = [i \in DOMAIN tx.inputs |->
     [tx.inputs[i] EXCEPT !.signatures = Unlocking(tx.inputs[i])]]]

\* The format carries everything; version 1 had no hash types, because all
\* were ALL.
to_bytes(tx) == [version |-> 2, tx |-> tx]
from_bytes(blob) ==
  IF blob.version = 2 THEN blob.tx
  ELSE [blob.tx EXCEPT !.inputs = [i \in DOMAIN blob.tx.inputs |->
          [blob.tx.inputs[i] EXCEPT !.hash_type = All]]]

-----------------------------------------------------------------------------
(***************************************************************************)
(* The chain: a key hash needs its key, a condition enough of the primary  *)
(* addresses, each counted once.  The type a signature is checked under is *)
(* the one in the scriptSig.                                               *)
(***************************************************************************)
CheckSig(tx, index, s) ==
  LET type  == IF tx.inputs[index].kind = "key" THEN s.says ELSE tx.inputs[index].hash_type
      typed == [tx EXCEPT !.inputs[index].hash_type = type]
  IN Hashable(tx, type, index) /\ s.maker = s.by /\ s.over = sighash(typed, index)

Satisfied(tx, index) ==
  LET input == tx.inputs[index]
      by    == {s.by : s \in {s \in ToSet(input.signatures) : CheckSig(tx, index, s)}}
  IN IF input.kind = "key" THEN by = {input.owner}
     ELSE Cardinality(by \cap Primary[input.owner]) \geq Minimum[input.owner]

Accepted(tx) == \A i \in DOMAIN tx.inputs : Satisfied(tx, i)

-----------------------------------------------------------------------------
Start(k) ==
  /\ hand[k] = None /\ carried = {}
  /\ \E plan \in Plans : hand' = [hand EXCEPT ![k] = start(plan)]
  /\ \A j \in Keys : hand[j] = None
  /\ UNCHANGED <<carried, approved, finished, alterations>>

Retype(k) ==
  /\ hand[k] # None
  /\ \E i \in DOMAIN hand[k].inputs, type \in HashTypes :
       /\ MayRetype(hand[k], i, type)
       /\ hand' = [hand EXCEPT ![k].inputs[i].hash_type = type]
  /\ UNCHANGED <<carried, approved, finished, alterations>>

\* A signer looks at the summary, and signs what it can.
Sign(k) ==
  /\ hand[k] # None /\ Summarizable(hand[k]) /\ sign(hand[k], k) # hand[k]
  /\ hand' = [hand EXCEPT ![k] = sign(hand[k], k)]
  /\ approved' = [approved EXCEPT ![k] = @ \cup
       {[seen |-> summary(hand[k]),
         spends |-> [i \in DOMAIN hand[k].inputs |-> hand[k].inputs[i].outpoint]]}]
  /\ UNCHANGED <<carried, finished, alterations>>

Hand(k) ==
  /\ hand[k] # None /\ Cardinality(carried) < MaxCopies
  /\ carried' = carried \cup {to_bytes(hand[k])}
  /\ UNCHANGED <<hand, approved, finished, alterations>>

\* Whatever arrives replaces what there was: partials are not merged.
Receive(k) ==
  /\ \E blob \in carried : hand' = [hand EXCEPT ![k] = from_bytes(blob)]
  /\ UNCHANGED <<carried, approved, finished, alterations>>

\* What may become of a signature: the byte behind it, or the key it names.
Mangled(s) ==
  {[s EXCEPT !.by = p] : p \in Strangers}
  \cup (IF s.says = None THEN {} ELSE {[s EXCEPT !.says = type] : type \in HashTypes \cup {All}})

\* What may become of an input: another hash type, a signature gone or mangled,
\* another order of them, or a stranger's signature before them.
AlteredInput(tx, i) ==
  LET input == tx.inputs[i] IN
  {[input EXCEPT !.hash_type = type] : type \in HashTypes}
  \cup {[input EXCEPT !.signatures = Reverse(@)]}
  \cup {[input EXCEPT !.signatures = Tail(@)] : j \in DOMAIN input.signatures}
  \cup (UNION {{[input EXCEPT !.signatures[j] = m] : m \in Mangled(input.signatures[j])} :
                 j \in DOMAIN input.signatures})
  \cup {[input EXCEPT !.signatures = <<new_signature(tx, i, p)>> \o @] :
          p \in {p \in Strangers : Hashable(tx, input.hash_type, i)}}

\* What may become of a partial on the way: another payee, or another input.
Altered(tx) ==
  {[tx EXCEPT !.outputs[o].owner = p] : o \in DOMAIN tx.outputs, p \in Strangers}
  \cup UNION {{[tx EXCEPT !.inputs[i] = input] : input \in AlteredInput(tx, i)} : i \in DOMAIN tx.inputs}

Alter ==
  /\ alterations < MaxAlterations
  /\ alterations' = alterations + 1
  /\ \E blob \in carried : \E tx \in Altered(blob.tx) :
       carried' = (carried \ {blob}) \cup {to_bytes(tx)}
  /\ carried' # carried
  /\ UNCHANGED <<hand, approved, finished>>

\* A copy written before there were hash types: all of its inputs bind all.
\* Where they do not, the old writer could not have made it.
CarryOld ==
  /\ \E blob \in carried :
       /\ commits_to_all_outputs(summary(blob.tx))
       /\ carried' = (carried \ {blob}) \cup {[version |-> 1, tx |-> blob.tx]}
  /\ carried' # carried
  /\ UNCHANGED <<hand, approved, finished, alterations>>

Lose == \E blob \in carried : /\ carried' = carried \ {blob}
                             /\ UNCHANGED <<hand, approved, finished, alterations>>

Finalize(k) ==
  /\ hand[k] # None /\ Finalizable(hand[k])
  /\ finished' = finalize(hand[k])
  /\ UNCHANGED <<hand, carried, approved, alterations>>

Init ==
  /\ hand = [k \in Keys |-> None]
  /\ carried = {}
  /\ approved = [k \in Keys |-> {}]
  /\ finished = None
  /\ alterations = 0

\* The first transaction finalized is sent, and spends the coins.
Next ==
  /\ finished = None
  /\ \/ \E k \in Keys : \/ Start(k) \/ Retype(k) \/ Sign(k) \/ Hand(k) \/ Receive(k)
                        \/ Finalize(k)
     \/ Alter
     \/ CarryOld
     \/ Lose

Spec == Init /\ [][Next]_vars

-----------------------------------------------------------------------------
(***************************************************************************)
(* Properties                                                              *)
(***************************************************************************)
\* What was looked at agrees with a transaction as far as a signature of its
\* input binds: where the summary said that everything is bound, in the very
\* outputs and inputs.
Agrees(a, tx, i) ==
  /\ a.seen.hash_types[i] = tx.inputs[i].hash_type
  /\ commits_to_all_outputs(a.seen) =>
       /\ a.seen.outputs = tx.outputs
       /\ a.spends = [j \in DOMAIN tx.inputs |-> tx.inputs[j].outpoint]
  /\ tx.inputs[i].hash_type.base = "single" => a.seen.outputs[i] = tx.outputs[i]

\* Whatever finalize returns, each signer in it looked at a transaction that
\* agrees with it; others may have signed besides.
WhatWasSeenIsWhatIsSpent ==
  finished # None => \A i \in DOMAIN finished.inputs :
    \A s \in ToSet(finished.inputs[i].signatures) :
      s.by \in Keys => \E a \in approved[s.by] : Agrees(a, finished, i)

\* The owners, or as many of them as their identity asks for, have signed.
Enough(tx) ==
  \A i \in DOMAIN tx.inputs :
    LET input == tx.inputs[i] IN
    IF input.kind = "key" THEN input.owner \in Signers(input)
    ELSE Cardinality(Signers(input) \cap Primary[input.owner]) \geq Minimum[input.owner]

\* What finalize puts into a key hash's scriptSig is its owner's, and says the
\* type it was made under.
AsSigned(input) ==
  input.kind = "key" =>
    input.signatures[1].by = input.owner /\ input.signatures[1].says = input.hash_type

\* Enough signers, gathered in any order, over any route and whatever hash
\* types they chose, make a transaction that finalizes and that the chain takes:
\* no call makes a signature stop verifying, none gets in another's way
\* (sign, with_hash_type, finalize).  Where a copy was altered, what still
\* finalizes is taken but for the two things of a key hash that finalize does
\* not compare: whose the first signature is, and the type in its last byte.
EnoughIsAccepted ==
  \A k \in Keys : hand[k] # None /\ Enough(hand[k]) =>
    /\ alterations = 0 => Finalizable(hand[k]) /\ Accepted(finalize(hand[k]))
    /\ Finalizable(hand[k]) /\ (\A i \in DOMAIN hand[k].inputs : AsSigned(hand[k].inputs[i])) =>
         Accepted(finalize(hand[k]))

\* "A mangled or malicious partial fails there rather than at the daemon": what
\* enough signers signed and finalize lets through, the chain takes.
MangledFailsHere ==
  \A k \in Keys : hand[k] # None /\ Enough(hand[k]) /\ Finalizable(hand[k]) =>
    Accepted(finalize(hand[k]))
=============================================================================
