------------------------------ MODULE Encoding ------------------------------
(***************************************************************************)
(* How the library writes and reads bytes: the compact size and slices of  *)
(* verus-wire, the VARINT of verus-tx-primitives/src/cc.rs, the readers of *)
(* verus-tx-protocol (decode, convert, identity), and the transaction of   *)
(* verus-wire/src/tx.rs.                                                   *)
(*                                                                         *)
(* Bytes are a sequence of words, a word being what one field occupies: a  *)
(* tag, which stands for its width, and a value.  A reader that meets      *)
(* another tag than it reads for would make something else of the bytes;   *)
(* here it refuses them.                                                   *)
(***************************************************************************)
EXTENDS Integers, SequencesExt

CONSTANTS
  Base,          \* of a VARINT: 128
  U64Max, I64Max,
  SizeLimits,    \* the most a compact size of one, three and five bytes says
  Refused        \* no value and no words

Id(x)    == <<"id", x>>         \* twenty bytes
Fixed(x) == <<"fixed", x>>      \* an integer, a hash or a signature
Slice(x) == <<"slice", x>>      \* a compact size and that many bytes

\* Written one after the other; nothing when one cannot be written.
Joined(parts) == IF \E i \in DOMAIN parts : parts[i] = Refused THEN Refused ELSE FlattenSeq(parts)

-----------------------------------------------------------------------------
(***************************************************************************)
(* Numbers                                                                 *)
(***************************************************************************)
\* var_int: most significant digit first, every digit but the last counted
\* from one.
Digits(n) ==
  LET digits[k \in 0..n] == IF k < Base THEN <<k>> ELSE Append(digits[(k \div Base) - 1], k % Base)
  IN digits[n]
var_int(n) ==
  <<"varint", [i \in DOMAIN Digits(n) |-> [digit |-> Digits(n)[i], more |-> i < Len(Digits(n))]]>>

\* Mutant: a digit that is followed by another is not counted from one.
VarIntOf_Plain(digits) == FoldLeft(LAMBDA n, d : n * Base + d.digit, 0, digits)

VarIntOf(digits) ==
  FoldLeft(LAMBDA n, d : IF n = Refused THEN Refused
                         ELSE LET next == n * Base + d.digit + (IF d.more THEN 1 ELSE 0)
                              IN IF next > U64Max THEN Refused ELSE next,
           0, digits)

\* The narrowest of the four widths.
WidthOf(n) == CHOOSE w \in 1..(Len(SizeLimits) + 1) :
                /\ w \leq Len(SizeLimits) => n \leq SizeLimits[w]
                /\ w > 1 => n > SizeLimits[w - 1]
compact_size(n) == <<"size", <<WidthOf(n), n>>>>

Canonical(size) == size[1] = WidthOf(size[2])

-----------------------------------------------------------------------------
(***************************************************************************)
(* Readers: what was got so far and what is left, or Refused.              *)
(***************************************************************************)
Reading(words) == [rest |-> words, got |-> <<>>]

\* The rest of a reader, unless what came before it was refused: a `?`.
Then(r, Rest(_)) == IF r = Refused THEN Refused ELSE Rest(r)
\* What holds of whatever is not refused.
IfGot(r, Holds(_)) == r # Refused => Holds(r)

Take(r, tag) ==
  IF r = Refused \/ r.rest = <<>> THEN Refused
  ELSE IF Head(r.rest)[1] # tag THEN Refused
  ELSE [rest |-> Tail(r.rest), got |-> Append(r.got, Head(r.rest)[2])]

\* The last word got, by what it says; nothing for what it may not say.
Said(r, value) == IF r = Refused \/ value = Refused THEN Refused
                  ELSE [r EXCEPT !.got = Append(Front(@), value)]
Got(r) == Last(r.got)

read_var_int(r) == Then(Take(r, "varint"), LAMBDA t : Said(t, VarIntOf(Got(t))))

\* read_compact_size: only the narrowest width.
read_compact_size(r) ==
  Then(Take(r, "size"), LAMBDA t : IF Canonical(Got(t)) THEN Said(t, Got(t)[2]) ELSE Refused)

\* No count is taken of more than the bytes that are left could hold.
Bounded(r) == Then(r, LAMBDA n : IF Got(n) > Len(n.rest) THEN Refused ELSE n)
\* Of the transaction's reader.
compact_size_at(r) == Bounded(read_compact_size(r))

\* As many as were counted of what Item reads, got as one sequence.
Many(counted, Item(_)) ==
  LET one(s, i) == Then(s, LAMBDA so_far : Then(Item([so_far EXCEPT !.got = <<>>]), LAMBDA item :
                     [rest |-> item.rest, got |-> Append(so_far.got, item.got)]))
  IN Then(counted, LAMBDA c :
       Then(FoldLeft(one, [rest |-> c.rest, got |-> <<>>], [i \in 1..Got(c) |-> i]), LAMBDA all :
         [rest |-> all.rest, got |-> Append(Front(c.got), all.got)]))

AtEnd(r) == r # Refused /\ r.rest = <<>>
\* As many single words as a count says.
Singles(got) == [i \in DOMAIN got |-> got[i][1]]

-----------------------------------------------------------------------------
(***************************************************************************)
(* A transaction.  inputs: [txid, vout, script_sig, sequence]; outputs:    *)
(* [value, script_pubkey]; spends: [body, sig], sig None until signed.     *)
(***************************************************************************)
is_shielded(tx) == tx.spends # <<>> \/ tx.shielded_outputs # <<>>

Inputs(tx) == [i \in DOMAIN tx.inputs |->
  <<Id(tx.inputs[i].txid), Fixed(tx.inputs[i].vout), Slice(tx.inputs[i].script_sig), Fixed(tx.inputs[i].sequence)>>]
Outputs(tx) == [i \in DOMAIN tx.outputs |-> <<Fixed(tx.outputs[i].value), Slice(tx.outputs[i].script_pubkey)>>]
Spends(tx) == [i \in DOMAIN tx.spends |->
  IF tx.spends[i].sig = Refused THEN Refused ELSE <<<<"spend", tx.spends[i].body>>, Fixed(tx.spends[i].sig)>>]

serialize(tx) ==
  IF is_shielded(tx) /\ tx.binding_sig = Refused THEN Refused
  ELSE Joined(<<<<<<"header", "v4">>, <<"header", "sapling">>, compact_size(Len(tx.inputs))>>>> \o Inputs(tx)
        \o <<<<compact_size(Len(tx.outputs))>>>> \o Outputs(tx)
        \o <<<<Fixed(tx.lock_time), Fixed(tx.expiry_height), Fixed(tx.value_balance), compact_size(Len(tx.spends))>>>>
        \o Spends(tx)
        \o <<<<compact_size(Len(tx.shielded_outputs))>>,
             [i \in DOMAIN tx.shielded_outputs |-> <<"output", tx.shielded_outputs[i]>>],
             <<compact_size(0)>>,
             IF is_shielded(tx) THEN <<Fixed(tx.binding_sig)>> ELSE <<>>>>)

ReadInput(r)  == FoldLeft(Take, r, <<"id", "fixed", "slice", "fixed">>)
ReadOutput(r) == FoldLeft(Take, r, <<"fixed", "slice">>)
ReadSpend(r)  == FoldLeft(Take, r, <<"spend", "fixed">>)

\* header, group, inputs, outputs, lock time, expiry, balance, spends, outputs
\* and joinsplits, and what follows them.
Body(words) ==
  LET start   == FoldLeft(Take, Reading(words), <<"header", "header">>)
      inputs  == Many(compact_size_at(start), ReadInput)
      outputs == Many(compact_size_at(inputs), ReadOutput)
      spends  == Many(compact_size_at(FoldLeft(Take, outputs, <<"fixed", "fixed", "fixed">>)), ReadSpend)
      descs   == Many(compact_size_at(spends), LAMBDA r : Take(r, "output"))
  IN compact_size_at(descs)

TxOf(got, sig) ==
  [inputs  |-> [i \in DOMAIN got[3] |-> [txid |-> got[3][i][1], vout |-> got[3][i][2], script_sig |-> got[3][i][3],
                                         sequence |-> got[3][i][4]]],
   outputs |-> [i \in DOMAIN got[4] |-> [value |-> got[4][i][1], script_pubkey |-> got[4][i][2]]],
   lock_time |-> got[5], expiry_height |-> got[6], value_balance |-> got[7],
   spends  |-> [i \in DOMAIN got[8] |-> [body |-> got[8][i][1], sig |-> got[8][i][2]]],
   shielded_outputs |-> Singles(got[9]), binding_sig |-> sig]

\* Nothing follows the body but the binding signature of a shielded one.
Ended(body) ==
  LET tx == TxOf(body.got, Refused)
  IN IF body.got[1] # "v4" \/ body.got[2] # "sapling" \/ body.got[10] # 0 THEN Refused
     ELSE IF ~is_shielded(tx) THEN (IF AtEnd(body) THEN tx ELSE Refused)
     ELSE Then(Take(body, "fixed"), LAMBDA bound : IF AtEnd(bound) THEN TxOf(body.got, Got(bound)) ELSE Refused)
deserialize(words) == Then(Body(words), Ended)

\* The transaction a run of bytes was read as is written as those bytes, so
\* the txid of what was read is the txid of the bytes.
BytesAreOneTransaction(words) == IfGot(deserialize(words), LAMBDA tx : serialize(tx) = words)

\* Every number has one VARINT and one canonical compact size, and every run
\* of digits that is read is the one its number is written as.
NumbersAreWrittenOnce(n, digits) ==
  /\ n \leq U64Max => VarIntOf(var_int(n)[2]) = n
  /\ VarIntOf(digits) # Refused => var_int(VarIntOf(digits))[2] = digits
=============================================================================
