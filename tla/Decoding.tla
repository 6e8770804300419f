------------------------------ MODULE Decoding ------------------------------
(***************************************************************************)
(* Reading an output script (verus-tx-protocol/src/decode.rs), an identity *)
(* in it (identity.rs), and a whole transaction for the page               *)
(* (verus-wasm/src/decode.rs).                                             *)
(***************************************************************************)
EXTENDS Scripts

-----------------------------------------------------------------------------
(***************************************************************************)
(* Identities                                                              *)
(***************************************************************************)
\* content_multimap and content_map are sequences of pairs, as they are kept.
Versions == 1..3

identity_to_bytes(i) ==
  IF i.version \notin Versions \/ (i.version < 3 /\ i.content_multimap # <<>>) THEN Refused
  ELSE Joined(<<<<Fixed(i.version), Fixed(i.flags), compact_size(Len(i.primary_addresses))>>,
         [k \in DOMAIN i.primary_addresses |-> Slice(to_push(i.primary_addresses[k]))],
         <<Fixed(i.min_sigs), Id(i.parent), Slice(i.name)>>,
         IF i.version < 3 THEN <<>> ELSE <<compact_size(Len(i.content_multimap))>>>>
       \o [k \in DOMAIN i.content_multimap |->
             <<Id(i.content_multimap[k][1]), compact_size(Len(i.content_multimap[k][2]))>>
             \o [v \in DOMAIN i.content_multimap[k][2] |-> Slice(i.content_multimap[k][2][v])]]
       \o <<<<compact_size(Len(i.content_map))>>>>
       \o [k \in DOMAIN i.content_map |-> <<Id(i.content_map[k][1]), Fixed(i.content_map[k][2])>>]
       \o <<<<Id(i.revocation_authority), Id(i.recovery_authority), compact_size(Len(i.private_addresses))>>,
            [k \in DOMAIN i.private_addresses |-> <<"sapling", i.private_addresses[k]>>],
            IF i.version < 2 THEN <<>> ELSE <<Id(i.system_id), Fixed(i.unlock_after)>>>>)

\* The identity's reader takes any width of a count.
identity_compact_size(r) ==
  Bounded(Then(Take(r, "size"), LAMBDA t : Said(t, Got(t)[2])))

ReadPrimary(r) == Then(Take(r, "slice"), LAMBDA s : Said(s, from_push(Got(s))))
ReadValues(r)  == Many(identity_compact_size(Take(r, "id")), LAMBDA v : Take(v, "slice"))
ReadEntry(r)   == FoldLeft(Take, r, <<"id", "fixed">>)

\* content_multimap is of version 3, the system and the timelock of 2.
ReadMultimap(r) ==
  Then(r, LAMBDA named : IF named.got[1] < 3 THEN [named EXCEPT !.got = Append(@, <<>>)]
                         ELSE Many(identity_compact_size(named), ReadValues))
ReadSystem(r) ==
  Then(r, LAMBDA held : IF held.got[1] < 2 THEN held ELSE FoldLeft(Take, held, <<"id", "fixed">>))
IdentityWords(r) ==
  LET named == FoldLeft(Take, Many(identity_compact_size(r), ReadPrimary), <<"fixed", "id", "slice">>)
      held  == FoldLeft(Take, Many(identity_compact_size(ReadMultimap(named)), ReadEntry), <<"id", "id">>)
  IN ReadSystem(Many(identity_compact_size(held), LAMBDA z : Take(z, "sapling")))

IdentityOf(got) ==
  [version |-> got[1], flags |-> got[2], primary_addresses |-> Singles(got[3]),
   min_sigs |-> got[4], parent |-> got[5], name |-> got[6],
   content_multimap |-> [k \in DOMAIN got[7] |-> <<got[7][k][1], Singles(got[7][k][2])>>],
   content_map |-> got[8],
   revocation_authority |-> got[9], recovery_authority |-> got[10],
   private_addresses |-> Singles(got[11]),
   system_id |-> IF got[1] < 2 THEN got[5] ELSE got[12],
   unlock_after |-> IF got[1] < 2 THEN 0 ELSE got[13]]

identity_from_bytes(words) ==
  Then(FoldLeft(Take, Reading(words), <<"fixed", "fixed">>), LAMBDA start :
    IF start.got[1] \notin Versions THEN Refused
    ELSE Then(IdentityWords(start), LAMBDA end : IF AtEnd(end) THEN IdentityOf(end.got) ELSE Refused))

-----------------------------------------------------------------------------
(***************************************************************************)
(* What a script carries                                                   *)
(***************************************************************************)
\* A map of no more entries than the bytes that are left could hold.
MapCount(r) == Then(read_compact_size(r), LAMBDA n : IF 2 * Got(n) > Len(n.rest) THEN Refused ELSE n)

\* A currency and an amount each, none negative.
read_currency_value_map(r) ==
  Then(Many(MapCount(r), LAMBDA e : FoldLeft(Take, e, <<"id", "fixed">>)), LAMBDA map :
    IF \E i \in DOMAIN Got(map) : Got(map)[i][2] < 0 THEN Refused ELSE map)

\* One currency's amount, or a map of them: a sequence of pairs, got as one.
parse_token_output_at(r) ==
  Then(Take(r, "token version"), LAMBDA version :
    IF Got(version).base # 1 THEN Refused
    ELSE IF Got(version).multi THEN
      Then(read_currency_value_map(version), LAMBDA map : [rest |-> map.rest, got |-> Append(r.got, Got(map))])
    ELSE Then(read_var_int(Take(version, "id")), LAMBDA single :
           [rest |-> single.rest, got |-> Append(r.got, <<<<single.got[Len(single.got) - 1], Got(single)>>>>)]))

parse_token_output(words) ==
  Then(parse_token_output_at(Reading(words)), LAMBDA read : IF AtEnd(read) THEN Got(read) ELSE Refused)

ReadFlags(r) == Take(r, "flags")

\* A currency more, if the flags say so.
ReadIf(flag, r) == Then(r, LAMBDA said : IF flag \in said.got[2] THEN Take(said, "id") ELSE said)

TransferOf(got) ==
  [tokens |-> got[1], flags |-> got[2], fee_currency |-> got[3], fees |-> got[4],
   destination |-> got[5], destination_currency |-> got[6],
   second_reserve |-> IF "RESERVE_TO_RESERVE" \in got[2] THEN got[7] ELSE None,
   destination_system |-> IF "CROSS_SYSTEM" \in got[2] THEN Last(got) ELSE None]

from_payload(words) ==
  LET fees   == read_var_int(Take(ReadFlags(parse_token_output_at(Reading(words))), "id"))
      target == Take(destination_deserialize(fees), "id")
  IN Then(ReadIf("CROSS_SYSTEM", ReadIf("RESERVE_TO_RESERVE", target)), LAMBDA end :
       IF AtEnd(end) THEN TransferOf(end.got) ELSE Refused)

-----------------------------------------------------------------------------
(***************************************************************************)
(* decode_output_script                                                    *)
(***************************************************************************)
\* The outputs whose tokens the node counts.
CurrencyCarriers == {"RESERVE_TRANSFER", "RESERVE_OUTPUT", "RESERVE_DEPOSIT", "CROSSCHAIN_IMPORT", "IDENTITY_COMMITMENT"}
may_carry_currency(eval_code) == eval_code \in CurrencyCarriers

\* The pushes of a chunk, all of them, or Refused.
Chunk(words) == FoldLeft(LAMBDA r, i : take_push(r), Reading(words), [i \in DOMAIN words |-> i])

\* The header of a chunk: of version 3.
Stated(words) ==
  Then(take_push(Reading(words)), LAMBDA header :
    IF Len(Got(header)) # 1 \/ Got(header)[1][1] # "condition" THEN Refused
    ELSE IF Got(header)[1][2][1] # 3 THEN Refused ELSE Got(header)[1][2])

\* The condition a chunk states, its destinations, and the pushes after them;
\* those are read only for what has them, so they may be Refused.
Condition(words) ==
  Then(Stated(words), LAMBDA stated :
    IF stated[4] + 1 > Len(words) THEN Refused
    ELSE Then(Chunk(SubSeq(words, 2, stated[4] + 1)), LAMBDA listed :
      IF \E i \in DOMAIN listed.got : from_push(listed.got[i]) = Refused THEN Refused
      ELSE [eval_code |-> stated[2], destinations |-> [i \in DOMAIN listed.got |-> from_push(listed.got[i])],
            vdata |-> Then(Chunk(SubSeq(words, stated[4] + 2, Len(words))), LAMBDA vdata : vdata.got)]))

\* The eval code an auxiliary condition states, its header all that is read.
AuxiliaryCode(words) == Then(Stated(words), LAMBDA stated : stated[2])

\* Mutant: what follows a commitment's hash is not looked at.
CommitmentTokens_None(words) == IF words = <<>> \/ Head(words)[1] # "commitment" THEN Refused ELSE <<>>

\* After the hash, tokens, if the hash is one that says so.
CommitmentTokens(words) ==
  IF words = <<>> \/ Head(words)[1] # "commitment" THEN Refused
  ELSE IF Tail(words) = <<>> THEN <<>>
  ELSE IF Head(words)[2].advanced THEN parse_token_output(Tail(words)) ELSE Refused

\* The tokens of every push, one list.
AllTokens(vdata) == Joined([i \in DOMAIN vdata |-> parse_token_output(vdata[i])])

OutputKind(kind, c, more) == [kind |-> kind, destination |-> c.destinations[1]] @@ more

DecodedDeposit(c) ==
  Then(Take(parse_token_output_at(Reading(c.vdata[1])), "id"), LAMBDA read :
    IF ~AtEnd(read) THEN Refused
    ELSE OutputKind("ReserveDeposit", c, [tokens |-> read.got[1], controlling_currency |-> read.got[2]]))
DecodedTransfer(c) ==
  Then(from_payload(c.vdata[1]), LAMBDA transfer :
    OutputKind("ReserveTransfer", c, [transfer |-> transfer, tokens |-> transfer.tokens]))
DecodedCommitment(c) ==
  Then(CommitmentTokens(c.vdata[1]), LAMBDA tokens :
    OutputKind("IdentityCommitment", c, [commitment |-> Head(c.vdata[1])[2], tokens |-> tokens]))
DecodedIdentity(c) ==
  IF [i \in 1..(Len(c.vdata) - 1) |-> AuxiliaryCode(c.vdata[i + 1])] # <<"IDENTITY_REVOKE", "IDENTITY_RECOVER">>
  THEN Refused
  ELSE Then(identity_from_bytes(c.vdata[1]), LAMBDA identity : [kind |-> "IdentityPrimary", identity |-> identity])

\* The conditions whose pushes are read.
Read == {"IDENTITY_PRIMARY", "RESERVE_DEPOSIT", "RESERVE_TRANSFER", "IDENTITY_COMMITMENT", "RESERVE_OUTPUT"}

\* What the condition of an output says it is.
DecodedCondition(c) ==
  CASE c.eval_code = "NONE" ->
         IF c.destinations = <<>> \/ c.vdata # <<>> THEN Refused
         ELSE IF c.destinations[1].kind # "Identity" THEN Refused
         ELSE [kind |-> "IdentityPayment", identity |-> c.destinations[1].of]
    [] c.eval_code \in Read /\ c.vdata = Refused -> Refused
    [] c.eval_code = "IDENTITY_PRIMARY" -> IF c.vdata = <<>> THEN Refused ELSE DecodedIdentity(c)
    [] c.eval_code \in {"RESERVE_DEPOSIT", "RESERVE_TRANSFER", "IDENTITY_COMMITMENT"} ->
         IF Len(c.vdata) # 1 \/ c.destinations = <<>> THEN Refused
         ELSE IF c.eval_code = "RESERVE_DEPOSIT" THEN DecodedDeposit(c)
         ELSE IF c.eval_code = "RESERVE_TRANSFER" THEN DecodedTransfer(c)
         ELSE DecodedCommitment(c)
    [] c.eval_code = "RESERVE_OUTPUT" ->
         IF c.destinations = <<>> THEN Refused
         ELSE Then(AllTokens(c.vdata), LAMBDA tokens : OutputKind("ReserveOutput", c, [tokens |-> tokens]))
    [] OTHER -> [kind |-> "UnsupportedCryptoCondition", eval_code |-> c.eval_code,
                 may_carry_currency |-> may_carry_currency(c.eval_code)]

pay_to_pubkey(words) == IF Len(words) = 1 /\ words[1][1] = "p2pk" THEN words[1][2] ELSE Refused

decode_output_script(words) ==
  IF Len(words) = 1 /\ words[1][1] = "p2pkh" THEN [kind |-> "PubKeyHash", hash |-> words[1][2]]
  ELSE IF pay_to_pubkey(words) # Refused THEN
    [kind |-> "PubKey", pubkey |-> pay_to_pubkey(words), hash |-> hash160(pay_to_pubkey(words))]
  ELSE IF Len(words) # 4 THEN Refused
  ELSE IF \/ take_push(Reading(words)) = Refused \/ take_push(Reading(SubSeq(words, 3, 4))) = Refused
          \/ words[2] # <<"op", "CHECKCRYPTOCONDITION">> \/ words[4] # <<"op", "DROP">> THEN Refused
  ELSE Then(Condition(words[3][2]), DecodedCondition)

-----------------------------------------------------------------------------
(***************************************************************************)
(* What the page is shown                                                  *)
(***************************************************************************)
\* The address of a destination: that of a key is its hash's.
destination_address(d) ==
  IF d.kind = "PubKey" THEN To("PubKeyHash", hash160(d.of)) ELSE d

\* Of a transfer, the first auxiliary is shown as where a refund goes.
DecodedOutput(o) ==
  CASE o.kind \in {"PubKeyHash", "PubKey"} -> [kind |-> o.kind, address |-> To("PubKeyHash", o.hash)]
    [] o.kind = "IdentityPayment" -> [kind |-> o.kind, address |-> To("Identity", o.identity)]
    [] o.kind = "IdentityPrimary" ->
         [kind |-> o.kind, address |-> To("Identity", identity_id(o.identity.name, o.identity.parent)),
          name |-> o.identity.name, minimum_signatures |-> o.identity.min_sigs,
          primary_addresses |-> [i \in DOMAIN o.identity.primary_addresses |->
                                   destination_address(o.identity.primary_addresses[i])]]
    [] o.kind \in {"ReserveOutput", "IdentityCommitment", "ReserveDeposit"} ->
         [o EXCEPT !.destination = destination_address(@)]
    [] o.kind = "ReserveTransfer" ->
         [kind |-> o.kind, address |-> destination_address(o.destination), tokens |-> o.tokens,
          flags |-> o.transfer.flags, fee_currency |-> o.transfer.fee_currency, fees |-> o.transfer.fees,
          destination_currency |-> o.transfer.destination_currency,
          recipient |-> destination_address(o.transfer.destination.recipient),
          refund |-> IF o.transfer.destination.auxiliary = <<>> THEN None
                     ELSE destination_address(o.transfer.destination.auxiliary[1]),
          second_reserve |-> o.transfer.second_reserve]
    [] OTHER -> o
decode(words) == Then(decode_output_script(words), DecodedOutput)

\* All of its outputs, or none of it.
ShownTx(tx, shown) ==
  IF \E i \in DOMAIN shown : shown[i].output = Refused THEN Refused
  ELSE [inputs |-> [i \in DOMAIN tx.inputs |-> <<tx.inputs[i].txid, tx.inputs[i].vout, tx.inputs[i].sequence>>],
        outputs |-> shown, lock_time |-> tx.lock_time, expiry_height |-> tx.expiry_height,
        shielded |-> is_shielded(tx), value_balance |-> tx.value_balance]
decode_tx(words) ==
  Then(deserialize(words), LAMBDA tx :
    ShownTx(tx, [i \in DOMAIN tx.outputs |->
                   [satoshis |-> tx.outputs[i].value, output |-> decode(tx.outputs[i].script_pubkey)]]))
=============================================================================
