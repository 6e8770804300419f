------------------------------- MODULE Launch -------------------------------
(***************************************************************************)
(* A currency: its definition (verus-tx-currency/src/currency_definition), *)
(* the outputs of the transaction that launches it (currency_launch), and  *)
(* the flow that decides whether to (verus-flows/src/launch).              *)
(*                                                                         *)
(* A definition is a record of what is written; amounts are integers, and  *)
(* those above I64Max do not fit the encoding.  An identity is launched    *)
(* from with the keys of its primaries.                                    *)
(***************************************************************************)
EXTENDS Naming

CONSTANTS
  I64Max,
  SATOSHIDEN, SUCCESS_FEE, CONTRIBUTION_TRANSFER_FEE,
  MAX_TRUSTED_FEE,        \* what a node may say a launch costs
  Chain                   \* the system's identity, whose currency is Native

-----------------------------------------------------------------------------
(***************************************************************************)
(* The definition                                                          *)
(***************************************************************************)
\* CurrencyDefinition::token
CurrencyDefinition_token(parent, name, start_block) ==
  [options |-> {"TOKEN"}, parent |-> parent, name |-> name, system |-> parent, launch_system |-> parent,
   start_block |-> start_block, initial_supply |-> 0, preallocations |-> <<>>, currencies |-> <<>>,
   weights |-> <<>>, conversions |-> <<>>, min_preconversion |-> <<>>, max_preconversion |-> <<>>,
   initial_contributions |-> <<>>, preconverted |-> <<>>]

with_contributions(def, contributions) ==
  [def EXCEPT !.initial_contributions = contributions, !.preconverted = contributions]

\* CurrencyDefinition::nft
CurrencyDefinition_nft(parent, name, start_block, holder) ==
  LET def == CurrencyDefinition_token(parent, name, start_block) IN
  with_contributions([def EXCEPT !.options = @ \cup {"NFT_TOKEN"},
                        !.preallocations = <<[recipient |-> holder, amount |-> 1]>>,
                        !.currencies = <<def.system>>, !.conversions = <<0>>, !.max_preconversion = <<0>>],
                     <<0>>)

is_nft(def)        == "NFT_TOKEN" \in def.options
is_fractional(def) == "FRACTIONAL" \in def.options
total_preallocation(def) == FoldSeq(LAMBDA p, sum : p.amount + sum, 0, def.preallocations)

push_amount_vector(list) == \A i \in DOMAIN list : list[i] \leq I64Max

\* What is said of each reserve is said of all of them or of none.
Attributed(def) ==
  \A list \in {def.weights, def.conversions, def.min_preconversion, def.max_preconversion,
               def.initial_contributions, def.preconverted} :
    list = <<>> \/ Len(list) = Len(def.currencies)

\* serialize_definition, which encodes or refuses.
serialize_definition(def) ==
  CASE def.options \cap {"GATEWAY", "PBAAS", "GATEWAY_CONVERTER"} # {} -> Refused("trailing fields")
    [] is_nft(def) /\ <<total_preallocation(def), def.max_preconversion>> \notin {<<1, <<0>>>>, <<0, <<1>>>>}
         -> Refused("nft supply")
    [] ~Attributed(def) -> Refused("attribution")
    [] ~push_amount_vector(<<def.initial_supply>> \o [i \in DOMAIN def.preallocations |-> def.preallocations[i].amount]
                           \o def.conversions \o def.min_preconversion \o def.max_preconversion
                           \o def.initial_contributions \o def.preconverted)
         -> Refused("overflow")
    [] OTHER -> [kind |-> "serialized", def |-> def]

currency_definition_script(def) == Carrying("definition", Protocol, def)

-----------------------------------------------------------------------------
(***************************************************************************)
(* The launch outputs.  context is [identity, height, launch_fee].         *)
(***************************************************************************)

\* What is sent so that the declared amount is left when the fee is taken.
Grossed(amount) == (amount * SATOSHIDEN) \div (SATOSHIDEN - SUCCESS_FEE)

Contributed(def) == {i \in DOMAIN def.initial_contributions : def.initial_contributions[i] # 0}

\* contribution_output: at most one contribution, of the chain's own currency.
contribution_output(def, context) ==
  LET one    == CHOOSE i \in Contributed(def) : TRUE
      amount == Grossed(def.initial_contributions[one])
  IN CASE Contributed(def) = {} -> [kind |-> "outputs", outs |-> <<>>]
       [] Cardinality(Contributed(def)) > 1 -> Refused("several contributions")
       [] Contributed(def) # {} /\ one \notin DOMAIN def.currencies -> Refused("no such reserve")
       [] Cardinality(Contributed(def)) = 1 /\ one \in DOMAIN def.currencies /\ def.currencies[one] # def.system
            -> Refused("token contribution")
       [] OTHER -> [kind |-> "outputs", outs |->
                     <<Scripted("transfer", Protocol, amount + CONTRIBUTION_TRANSFER_FEE,
                                [kind |-> "contribution", amount |-> amount, to |-> context.identity.id])>>]

\* The price of the new currency in each reserve, of which only a basket has one.
serialize_currency_state(def, id) ==
  LET n       == DOMAIN def.currencies
      weights == IF DOMAIN def.weights = n THEN def.weights ELSE [i \in n |-> 0]
      priced  == is_fractional(def) /\ def.initial_supply > 0
  IN [currency |-> id, reserves |-> def.currencies, weights |-> weights,
      supply |-> IF is_fractional(def) THEN def.initial_supply ELSE total_preallocation(def),
      prices |-> [i \in n |-> IF priced /\ weights[i] > 0
                              THEN (SATOSHIDEN * SATOSHIDEN * SATOSHIDEN) \div (def.initial_supply * weights[i])
                              ELSE 0]]

serialize_import(def, context) ==
  [system |-> def.system, currency |-> context.identity.id, height |-> context.height, export |-> 4]
serialize_notarization(def, context) ==
  [currency |-> context.identity.id, height |-> context.height,
   state |-> serialize_currency_state(def, context.identity.id)]
serialize_export(def, context, fee) ==
  [system |-> def.system, to |-> def.system, currency |-> context.identity.id, height |-> context.height, fee |-> fee]
serialize_reserve_deposit(def, context, fee) == [system |-> def.system, controlling |-> context.identity.id, amount |-> fee]
identity_change_script(id) == Carrying("identity change", id, None)

ImportFee(fee) == fee - fee \div 2

\* The identity now defines a currency, and a token controls it if it is an NFT.
Defining(def, identity) ==
  [identity EXCEPT !.flags = @ \cup {"ACTIVE_CURRENCY"} \cup (IF is_nft(def) THEN {"TOKENIZED_CONTROL"} ELSE {})]

\* What build_launch_outputs refuses, or that it is ready.
LaunchRefusal(def, context) ==
  LET contribution == contribution_output(def, context) IN
  CASE "ACTIVE_CURRENCY" \in context.identity.flags -> Refused("active currency")
    [] identity_id(def.name, def.parent) # context.identity.id -> Refused("another identity")
    [] def.start_block \leq context.height -> Refused("start block")
    [] context.launch_fee = 0 -> Refused("launch fee")
    [] contribution.kind = "refused" -> contribution
    [] is_nft(def) /\ (def.currencies # <<def.system>> \/ def.initial_supply # 0) -> Refused("nft")
    [] serialize_definition(def).kind = "refused" -> serialize_definition(def)
    [] \E i \in DOMAIN def.currencies : serialize_currency_state(def, None).prices[i] > I64Max
         -> Refused("overflow")
    [] OTHER -> [kind |-> "ready"]

\* build_launch_outputs, in the order the chain wants; the last is dropped.
build_launch_outputs(def, context) ==
  LET contribution == contribution_output(def, context).outs
      fee == ImportFee(context.launch_fee)
  IN IF LaunchRefusal(def, context).kind = "refused" THEN LaunchRefusal(def, context)
     ELSE [kind |-> "outputs", deposit |-> 6 + Len(contribution), outs |->
        <<Primary(Defining(def, context.identity)), currency_definition_script(def),
          Carrying("import", Protocol, serialize_import(def, context)),
          Carrying("notarization", Protocol, serialize_notarization(def, context)),
          Carrying("export", Protocol, serialize_export(def, context, fee))>>
        \o contribution
        \o <<Scripted("deposit", Protocol, fee, serialize_reserve_deposit(def, context, fee)),
             identity_change_script(context.identity.id)>>]

reserve_deposit_value(built) == Sat(built.outs[built.deposit])
consensus_outputs(built)     == SubSeq(built.outs, 1, built.deposit)

-----------------------------------------------------------------------------
(***************************************************************************)
(* The transaction.  keys is a sequence, one key possibly more than once.  *)
(***************************************************************************)
\* Mutant: the deposit, where it stands without a contribution.
LaunchBurn_FixedIndex(built, context) == context.launch_fee - Sat(built.outs[6])

LaunchBurn(built, context) == context.launch_fee - reserve_deposit_value(built)

\* p: [identity_output, definition, context, utxos, back]
build_currency_launch(key, keys, p) ==
  LET built   == build_launch_outputs(p.definition, p.context)
      current == p.identity_output.data
  IN CASE built.kind = "refused" -> built
       [] p.identity_output.shape # "identity primary" \/ current.id # p.context.identity.id
            -> Refused("identity output mismatch")
       [] Len(keys) < current.min_sigs -> Refused("not enough signers")
       [] \E i \in DOMAIN keys : \A j \in DOMAIN current.primaries : current.primaries[j] # keys[i]
            -> Refused("not a primary address")
       [] LaunchBurn(built, p.context) < 0 -> Refused("overflow")
       [] OTHER -> assemble(key, [burn |-> LaunchBurn(built, p.context), leading |-> <<p.identity_output>>,
                                  funding |-> p.utxos, outs |-> consensus_outputs(built),
                                  counted |-> built.deposit + 1, change |-> p.back, bearing |-> FALSE])

(***************************************************************************)
(* prepare_launch.  node is what it says of the identity, the tip, the     *)
(* parent's policy and the coins: [record, revoked, tip, policy, utxos].   *)
(***************************************************************************)
\* holding_output: the identity is what its output says, not what the record does.
holding_output(node) == node.output.data

\* An NFT is charged what an import is.
Reported(def, policy) == IF is_nft(def) THEN policy.id_import_fee ELSE policy.currency_registration_fee

LaunchFee(def, node, pin) ==
  IF pin # None THEN pin ELSE IF Reported(def, node.policy) > MAX_TRUSTED_FEE THEN -1 ELSE Reported(def, node.policy)

prepare_launch(keys, def, pin, node) ==
  LET identity == holding_output(node)
      named    == {keys[i] : i \in DOMAIN keys}
      fee      == LaunchFee(def, node, pin)
      needed   == fee + FoldSeq(LAMBDA c, sum : c + sum, 0, def.initial_contributions)
  IN CASE keys = <<>> -> Refused("no signatures")
       [] node.output = None -> Refused("no such identity")
       [] node.revoked -> Refused("revoked")
       [] node.output.shape # "identity primary" -> Refused("not an identity output")
       [] "ACTIVE_CURRENCY" \in identity.flags -> Refused("active currency")
       [] \E k \in named : \A j \in DOMAIN identity.primaries : identity.primaries[j] # k
            -> Refused("not a primary address")
       [] Cardinality(named) < identity.min_sigs -> Refused("not enough signers")
       [] Lower[def.name] # Lower[identity.name] -> Refused("name")
       [] def.parent # identity.parent \/ def.system # Chain \/ def.launch_system # Chain -> Refused("not ready")
       [] def.start_block \leq node.tip -> Refused("start block")
       [] fee = -1 -> Refused("implausible fee")
       [] fee = 0 -> Refused("no fee reported")
       [] Total(node.utxos, Native) < needed -> Refused("funds")
       [] OTHER -> build_currency_launch(keys[1], keys,
                     [identity_output |-> node.output, definition |-> def, utxos |-> node.utxos, back |-> keys[1],
                      context |-> [identity |-> identity, height |-> node.tip, launch_fee |-> fee]])

-----------------------------------------------------------------------------
\* A launch leaves the chain what it charges, half of it in the deposit, and
\* no more than the transaction's own fee on top; what was contributed is what
\* was declared once the conversion fee is taken out of it; the import points
\* at the export it is of, wherever a contribution moved the deposit to; and as
\* many different keys stand behind it as the identity asks for.
PaysItsFee(t, fee, keys, def, node) ==
  LET at(shape) == {i \in DOMAIN t.outs : t.outs[i].shape = shape}
  IN t.kind = "built" =>
       /\ \E i \in DOMAIN t.outs :
            /\ at("deposit") = {i} /\ 2 * Sat(t.outs[i]) \in {fee, fee + 1}
            /\ Left(t) + Sat(t.outs[i]) \in fee..(fee + OwnFee(t))
       /\ \A i \in at("transfer") :
            LET sent == t.outs[i].data.amount IN
            /\ \E j \in Contributed(def) :
                 sent - (sent * SUCCESS_FEE) \div SATOSHIDEN = def.initial_contributions[j]
            /\ Sat(t.outs[i]) = sent + CONTRIBUTION_TRANSFER_FEE
       /\ Cardinality(at("transfer")) = Cardinality(Contributed(def))
       /\ at("import") # {} /\ \A i \in at("import") : t.outs[t.outs[i].data.export + 1].shape = "export"
       /\ Cardinality({keys[i] : i \in DOMAIN keys}) \geq node.output.data.min_sigs
LaunchPaysItsFee(keys, def, pin, node) ==
  PaysItsFee(prepare_launch(keys, def, pin, node), LaunchFee(def, node, pin), keys, def, node)
=============================================================================
