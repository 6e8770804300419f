------------------------------ MODULE Scripts -------------------------------
(***************************************************************************)
(* Output scripts: what verus-tx-primitives/src/cc.rs and                  *)
(* verus-tx-protocol/src/convert.rs and identity.rs write, what decode.rs  *)
(* reads, and what the page is shown of it (verus-wasm/src/decode.rs).     *)
(*                                                                         *)
(* A script is words; a push is a word <<"push", words, size>>, its size   *)
(* the number of words in it, those of the pushes in it included.          *)
(***************************************************************************)
EXTENDS Encoding

CONSTANTS
  MaxPush,              \* the largest push: 65535 bytes
  ReserveHolder,        \* RESERVE_TRANSFER_ADDRESS
  RecoverKeyHash,       \* IDENTITY_RECOVER_KEYHASH
  None,
  hash160(_), identity_id(_, _)

\* A destination: kind is "PubKeyHash", "PubKey", "ScriptHash" or "Identity".
To(kind, x)  == [kind |-> kind, of |-> x]

-----------------------------------------------------------------------------
(***************************************************************************)
(* Pushes and conditions                                                   *)
(***************************************************************************)
SizeOf(words) == FoldLeft(LAMBDA n, w : n + (IF w[1] = "push" THEN w[3] ELSE 1), 0, words)
push_data(words) == IF words = Refused \/ SizeOf(words) > MaxPush THEN Refused
                    ELSE <<<<"push", words, SizeOf(words)>>>>

\* A push of nothing is the opcode 0, which the reader takes for none.
take_push(r) ==
  Then(Take(r, "push"), LAMBDA t : IF SizeOf(Head(r.rest)[2]) = 0 THEN Refused ELSE t)

to_push(destination) ==
  CASE destination.kind = "PubKeyHash" -> <<Id(destination.of)>>
    [] destination.kind = "PubKey"     -> <<<<"key", destination.of>>>>
    [] destination.kind = "ScriptHash" -> <<<<"tagged", <<3, destination.of>>>>>>
    [] destination.kind = "Identity"   -> <<<<"tagged", <<4, destination.of>>>>>>

from_push(words) ==
  IF Len(words) # 1 THEN Refused
  ELSE LET w == words[1]
       IN CASE w[1] = "id" -> To("PubKeyHash", w[2])
            [] w[1] = "key" -> To("PubKey", w[2])
            [] w[1] = "tagged" /\ w[2][1] = 3 -> To("ScriptHash", w[2][2])
            [] w[1] = "tagged" /\ w[2][1] = 4 -> To("Identity", w[2][2])
            [] OTHER -> Refused

\* OptCcParams: version 3 unless a reader is tested with another.
Params(eval_code, m, destinations, vdata) ==
  [version |-> 3, eval_code |-> eval_code, m |-> m, n |-> Len(destinations),
   destinations |-> destinations, vdata |-> vdata]
one_of_one(eval_code, destination) == Params(eval_code, 1, <<destination>>, <<>>)

to_chunk(p) ==
  Joined(<<push_data(<<<<"condition", <<p.version, p.eval_code, p.m, p.n>>>>>>)>>
         \o [i \in DOMAIN p.destinations |-> push_data(to_push(p.destinations[i]))]
         \o [i \in DOMAIN p.vdata |-> push_data(p.vdata[i])])

cc_script(master, params) ==
  Joined(<<push_data(to_chunk(master)), <<<<"op", "CHECKCRYPTOCONDITION">>>>,
           push_data(to_chunk(params)), <<<<"op", "DROP">>>>>>)

-----------------------------------------------------------------------------
(***************************************************************************)
(* What is written                                                         *)
(***************************************************************************)
p2pkh_script(hash) == <<<<"p2pkh", hash>>>>

identity_payment_script(identity) ==
  cc_script(Params("NONE", 0, <<>>, <<>>), one_of_one("NONE", To("Identity", identity)))

token_output(currency, amount) == <<<<"token version", [base |-> 1, multi |-> FALSE]>>, Id(currency), var_int(amount)>>

reserve_output_script_to(destination, currency, amount) ==
  cc_script(one_of_one("NONE", destination),
            Params("RESERVE_OUTPUT", 1, <<destination>>, <<token_output(currency, amount)>>))

identity_primary_script(id, bytes, revocation, recovery, tokenized_control) ==
  LET revoke  == one_of_one("IDENTITY_REVOKE", To("Identity", revocation))
      recover == Params("IDENTITY_RECOVER", 1,
                        <<To("Identity", recovery)>>
                        \o (IF tokenized_control THEN <<To("PubKeyHash", RecoverKeyHash)>> ELSE <<>>), <<>>)
  IN cc_script(Params("NONE", 1, <<To("Identity", id), To("Identity", revocation), To("Identity", recovery)>>, <<>>),
               Params("IDENTITY_PRIMARY", 1, <<To("Identity", id)>>, <<bytes, to_chunk(revoke), to_chunk(recover)>>))

\* The signatures of a condition's input.
fulfillment_script_sig(signatures, hash_type) ==
  IF signatures = <<>> \/ Len(signatures) > SizeLimits[1] THEN Refused
  ELSE push_data(<<Fixed(hash_type), compact_size(Len(signatures))>>
                 \o [i \in DOMAIN signatures |-> <<"signature", signatures[i]>>])

-----------------------------------------------------------------------------
(***************************************************************************)
(* Reserve transfers                                                       *)
(***************************************************************************)
\* TransferDestination: its recipient, what goes where if it fails, and the
\* leg past a gateway, or None.
converting(recipient) == [recipient |-> recipient, auxiliary |-> <<recipient>>, gateway |-> None]
converting_with_refund(recipient, refund) ==
  [recipient |-> recipient, auxiliary |-> <<refund>>, gateway |-> None]
plain(recipient) == [recipient |-> recipient, auxiliary |-> <<>>, gateway |-> None]

destination_type(d) == CASE d.kind = "PubKey" -> 1 [] d.kind = "PubKeyHash" -> 2
                         [] d.kind = "ScriptHash" -> 3 [] d.kind = "Identity" -> 4
destination_bytes(d) == Slice(<<IF d.kind = "PubKey" THEN <<"key", d.of>> ELSE Id(d.of)>>)
destination_from(type, body) ==
  IF Len(body) # 1 \/ type \notin 1..4 THEN Refused
  ELSE IF body[1][1] # (IF type = 1 THEN "key" ELSE "id") THEN Refused
  ELSE To(<<"PubKey", "PubKeyHash", "ScriptHash", "Identity">>[type], body[1][2])

type_byte(d) == [type |-> destination_type(d.recipient),
                 aux |-> d.auxiliary # <<>>, gateway |-> d.gateway # None]

GatewayWords(d) == IF d.gateway = None THEN <<>>
                   ELSE IF d.gateway.fees > I64Max THEN Refused
                   ELSE <<Id(d.gateway.gateway), Id(d.gateway.code), Fixed(d.gateway.fees)>>
AuxiliaryWords(d) == IF d.auxiliary = <<>> THEN <<>>
  ELSE <<compact_size(Len(d.auxiliary))>>
       \o [i \in DOMAIN d.auxiliary |->
             Slice(<<<<"type", [type |-> destination_type(d.auxiliary[i]), aux |-> FALSE, gateway |-> FALSE]>>,
                     destination_bytes(d.auxiliary[i])>>)]

destination_serialize(d) ==
  Joined(<<<<<<"type", type_byte(d)>>, destination_bytes(d.recipient)>>, GatewayWords(d), AuxiliaryWords(d)>>)

\* The masked flag bits of an auxiliary's own type are ignored.
ReadAuxiliary(r) ==
  Then(Take(r, "slice"), LAMBDA slice :
    Then(FoldLeft(Take, Reading(Got(slice)), <<"type", "slice">>), LAMBDA inner :
      IF AtEnd(inner) THEN Said(slice, destination_from(inner.got[1].type, inner.got[2])) ELSE Refused))

\* Added to what r got, as one.
ReadGateway(r) ==
  IF ~r.got[1].gateway THEN r
  ELSE Then(FoldLeft(Take, r, <<"id", "id", "fixed">>), LAMBDA leg : IF leg.got[5] < 0 THEN Refused ELSE leg)
ReadAuxiliaries(r) ==
  Then(r, LAMBDA leg : IF leg.got[1].aux THEN Many(Bounded(read_compact_size(leg)), ReadAuxiliary) ELSE leg)
\* type, recipient, the three of a gateway's leg, auxiliaries: as there are.
DestinationOf(got) ==
  [recipient |-> destination_from(got[1].type, got[2]),
   auxiliary |-> IF got[1].aux THEN Singles(Last(got)) ELSE <<>>,
   gateway   |-> IF got[1].gateway THEN [gateway |-> got[3], code |-> got[4], fees |-> got[5]] ELSE None]

destination_deserialize(r) ==
  Then(r, LAMBDA before :
    Then(FoldLeft(Take, Reading(before.rest), <<"type", "slice">>), LAMBDA start :
      IF destination_from(start.got[1].type, start.got[2]) = Refused THEN Refused
      ELSE Then(ReadAuxiliaries(ReadGateway(start)), LAMBDA end :
             [rest |-> end.rest, got |-> Append(before.got, DestinationOf(end.got))])))

\* kind: [name, of], of the currency it is about, and target of one through a basket.
kind_flags(kind) == {"VALID"} \cup
  CASE kind.name = "IntoFractional"   -> {"CONVERT"}
    [] kind.name = "Preconvert"       -> {"CONVERT", "PRECONVERT"}
    [] kind.name = "Mint"             -> {"MINT_CURRENCY"}
    [] kind.name = "IntoReserve"      -> {"CONVERT", "IMPORT_TO_SOURCE"}
    [] kind.name = "ReserveToReserve" -> {"CONVERT", "RESERVE_TO_RESERVE"}
    [] kind.name = "Burn"             -> {"BURN_CHANGE_PRICE", "IMPORT_TO_SOURCE"}
    [] kind.name = "Contribution"     -> {"PRECONVERT"}
destination_currency(kind, source) == IF kind.name = "Burn" THEN source ELSE kind.of
second_reserve(kind) == IF kind.name = "ReserveToReserve" THEN kind.target ELSE None

to_payload(t) ==
  Joined(<<token_output(t.source, t.amount),
           <<<<"flags", kind_flags(t.kind)>>, Id(t.fee_currency), var_int(t.fee)>>,
           destination_serialize(t.destination),
           <<Id(destination_currency(t.kind, t.source))>>,
           IF second_reserve(t.kind) = None THEN <<>> ELSE <<Id(second_reserve(t.kind))>>>>)

to_script(t) ==
  Then(to_payload(t), LAMBDA payload :
    cc_script(one_of_one("NONE", To("PubKeyHash", ReserveHolder)),
              Params("RESERVE_TRANSFER", 1, <<To("PubKeyHash", ReserveHolder)>>, <<payload>>)))
=============================================================================
