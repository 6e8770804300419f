------------------------------ MODULE Builders ------------------------------
(***************************************************************************)
(* The transaction builders of the SDK, as functions from the coins a      *)
(* caller hands over to a transaction or a refusal: transparent sends,     *)
(* token sends, spends of what an identity holds, conversions, burns and   *)
(* mints, and the two halves of an offer.  All are pure; what becomes of   *)
(* the transactions is in Ledger.                                          *)
(*                                                                         *)
(* A value is a function from assets to amounts.  An output has a shape,   *)
(* which decides how it is unlocked, and an owner; a coin is an output     *)
(* with an id.  A signature is who made it and the part of the transaction *)
(* it commits to.  Amounts do not overflow here (CoinSelection has that).  *)
(***************************************************************************)
EXTENDS Integers, FiniteSets, SequencesExt

CONSTANTS
  None,            \* what is left out, or not there
  Native,          \* the chain's own currency
  Tokens,
  Keys,            \* one address each
  Identities,
  Protocol,        \* holder of reserve transfers until they are imported
  Issuer,          \* [Tokens -> Identities]: a currency is named after its identity
  Authority,       \* [Identities -> Keys]: the primary address
  TX_OVERHEAD, INPUT_SIZE, P2PKH_OUTPUT_SIZE, SMART_OUTPUT_SIZE,
  MIN_FEE, DUST_THRESHOLD

ASSUME BuildersAssumption ==
  /\ Native \notin Tokens /\ IsFiniteSet(Tokens)
  /\ Keys \cap Identities = {} /\ Protocol \notin Keys \cup Identities
  /\ Issuer \in [Tokens -> Identities] /\ Authority \in [Identities -> Keys]
  /\ {TX_OVERHEAD, INPUT_SIZE, P2PKH_OUTPUT_SIZE, SMART_OUTPUT_SIZE, DUST_THRESHOLD}
       \subseteq Nat
  /\ MIN_FEE \in Nat \ {0}

Assets == {Native} \cup Tokens
Owners == Keys \cup Identities \cup {Protocol}

Of(asset, amount)   == [a \in Assets |-> IF a = asset THEN amount ELSE 0]
Sat(coin)           == coin.value[Native]
CarriesTokens(coin) == \E t \in Tokens : coin.value[t] > 0
Total(list, asset)  == SumFunction([i \in DOMAIN list |-> list[i].value[asset]])

Output(shape, owner, value) == [shape |-> shape, owner |-> owner, value |-> value]

\* A plain payment: P2PKH to a key, pay-to-identity to an identity.
Pay(owner, amount) ==
  Output(IF owner \in Keys THEN "p2pkh" ELSE "identity", owner, Of(Native, amount))
\* A reserve output carries tokens and no satoshis.
Reserve(owner, token, amount) == Output("reserve", owner, Of(token, amount))

Repeats(list) == \E i, j \in DOMAIN list : i < j /\ list[i].id = list[j].id

-----------------------------------------------------------------------------
(***************************************************************************)
(* Results                                                                 *)
(***************************************************************************)
Refused(why) == [kind |-> "refused", why |-> why]

\* Signed by `key` over the whole transaction, on every input.
Built(key, ins, outs, fee, unpriced) ==
  [kind |-> "built", ins |-> ins, outs |-> outs, fee |-> fee, unpriced |-> unpriced,
   sigs |-> [i \in DOMAIN ins |-> [by |-> key, hash |-> "all"]]]

(***************************************************************************)
(* Orders.  An order is a set of pairs of positions, the earlier one first.*)
(* Sorts are stable: what is equal stays in the caller's order.            *)
(***************************************************************************)
Pairs(list)       == (DOMAIN list) \X (DOMAIN list)
Listed(list)      == {p \in Pairs(list) : p[1] < p[2]}
LargerFirst(list) ==
  {p \in Pairs(list) :
     \/ Sat(list[p[1]]) > Sat(list[p[2]])
     \/ Sat(list[p[1]]) = Sat(list[p[2]]) /\ p[1] < p[2]}

\* Those without tokens first, then the larger.
PlainFirst(list) ==
  {p \in Pairs(list) :
     \/ ~CarriesTokens(list[p[1]]) /\ CarriesTokens(list[p[2]])
     \/ CarriesTokens(list[p[1]]) = CarriesTokens(list[p[2]]) /\ p \in LargerFirst(list)}

\* What a list has at the positions S, in that order.
InOrder(list, S, order) ==
  [n \in 1..Cardinality(S) |->
     list[CHOOSE i \in S : Cardinality({j \in S : <<j, i>> \in order}) = n - 1]]

(***************************************************************************)
(* Fee and selection                                                       *)
(***************************************************************************)
\* estimate_fee: one smart output makes every output a smart one.  The rate is
\* folded into the sizes.
Price(inputs, outputs, smart) ==
  LET size == TX_OVERHEAD + inputs * INPUT_SIZE
              + outputs * (IF smart THEN SMART_OUTPUT_SIZE ELSE P2PKH_OUTPUT_SIZE)
  IN IF size > MIN_FEE THEN size ELSE MIN_FEE

\* What is left over is change, or more fee when it is dust.
Settle(left, fee) ==
  IF left > DUST_THRESHOLD THEN [change |-> left, fee |-> fee]
  ELSE [change |-> 0, fee |-> fee + left]

\* The loop's exits: every n at which the first n candidates bring what n
\* inputs need.  The first estimate counts an input that is not taken yet.
Exits(sorted, needed) ==
  {n \in 0..Len(sorted) : Total(SubSeq(sorted, 1, n), Native) \geq needed[n]}

select_utxos(list, required, outputs, smart) ==
  LET sorted  == InOrder(list, DOMAIN list, LargerFirst(list))
      fee(n)  == Price(IF n = 0 THEN 1 ELSE n, outputs + 1, smart)
      needed  == [n \in 0..Len(list) |-> required + fee(n)]
      exits   == Exits(sorted, needed)
  IN IF Repeats(list) THEN Refused("duplicate")
     ELSE IF exits = {} THEN Refused("funds")
     ELSE LET n == Min(exits)
              taken == SubSeq(sorted, 1, n)
              s == Settle(Total(taken, Native) - needed[n], fee(n))
          IN [kind |-> "selected", taken |-> taken, change |-> s.change, fee |-> s.fee]

-----------------------------------------------------------------------------
(***************************************************************************)
(* assemble: leading inputs that are unlocked by a fulfillment, funding    *)
(* that is P2PKH.  `bearing` declares that the leading inputs pay.  What   *)
(* is burned is left to the fee, which Built reports with it.              *)
(***************************************************************************)
\* Mutant: the bytes of the change address, paid as if they were a key's.
ChangeOut_ToKey(plan, amount) ==
  IF amount > 0 THEN <<Output("p2pkh", plan.change, Of(Native, amount))>> ELSE <<>>

\* change: the output that change of an amount becomes.
ChangeOut(plan, amount) == IF amount > 0 THEN <<Pay(plan.change, amount)>> ELSE <<>>

\* The leading inputs pay for everything and the surplus stays with them.
PaidByLeading(key, plan) ==
  LET required == Total(plan.outs, Native) + plan.burn
      fee      == Price(Len(plan.leading), plan.counted, TRUE)
      left     == Total(plan.leading, Native) - required - fee
      s        == Settle(left, fee)
  IN CASE plan.change \notin Identities -> Refused("no change script")
       [] plan.funding # <<>>           -> Refused("mixed funding")
       [] Repeats(plan.leading)         -> Refused("duplicate")
       [] left < 0                      -> Refused("funds")
       [] OTHER -> Built(key, plan.leading, plan.outs \o ChangeOut(plan, s.change),
                         s.fee + plan.burn, 0)

\* The leading inputs bring no satoshis, and selection does not count them.
PaidByFunding(key, plan) ==
  LET s == select_utxos(plan.funding, Total(plan.outs, Native) + plan.burn, plan.counted, TRUE)
  IN CASE \E i \in DOMAIN plan.leading : Sat(plan.leading[i]) > 0
            -> Refused("leading input carries value")
       [] s.kind = "refused" -> s
       [] OTHER -> Built(key, plan.leading \o s.taken, plan.outs \o ChangeOut(plan, s.change),
                         s.fee + plan.burn, Len(plan.leading))

assemble(key, plan) ==
  IF plan.bearing THEN PaidByLeading(key, plan) ELSE PaidByFunding(key, plan)

-----------------------------------------------------------------------------
(***************************************************************************)
(* Transparent sends                                                       *)
(***************************************************************************)
\* recipients: sequence of [to, amount], at least one.
plan_transparent_send(key, list, recipients, back) ==
  LET outs  == [i \in DOMAIN recipients |-> Pay(recipients[i].to, recipients[i].amount)]
      smart == \E i \in DOMAIN recipients : recipients[i].to \in Identities
      s     == select_utxos(list, Total(outs, Native), Len(recipients), smart)
  IN CASE recipients = <<>> -> Refused("no outputs")
       [] \E i \in DOMAIN list : list[i].shape # "p2pkh" -> Refused("unsupported funding")
       [] \E i \in DOMAIN recipients : recipients[i].amount = 0 -> Refused("zero value")
       [] s.kind = "refused" -> s
       [] OTHER -> Built(key, s.taken, outs \o ChangeOut([change |-> back], s.change), s.fee, 0)

-----------------------------------------------------------------------------
(***************************************************************************)
(* Token sends                                                             *)
(***************************************************************************)
\* What a key can sign for: P2PKH, and a reserve output that pays a key.
KeySpendable(coin) ==
  \/ coin.shape = "p2pkh"
  \/ coin.shape = "reserve" /\ coin.owner \in Keys

\* What the outputs still demand of each token; negative is a surplus.
Balances(demand, ins) == [t \in Tokens |-> demand[t] - Total(ins, t)]
Demand(recipients) ==
  [t \in Tokens |-> SumFunction([i \in DOMAIN recipients |->
                             IF recipients[i].asset = t THEN recipients[i].amount ELSE 0])]
Short(balances)   == {t \in Tokens : balances[t] > 0}
Surplus(balances) == {t \in Tokens : balances[t] < 0}

\* Mutant: tokens that ride along have no change output.
TokenChange_OnlyNeeded(balances, demand, back) ==
  LET over == SetToSeq({t \in Surplus(balances) : demand[t] > 0})
  IN [i \in DOMAIN over |-> Reserve(back, over[i], -balances[over[i]])]

\* One reserve output for each token the inputs bring too much of.
TokenChange(balances, demand, back) ==
  LET over == SetToSeq(Surplus(balances))
  IN [i \in DOMAIN over |-> Reserve(back, over[i], -balances[over[i]])]

\* First phase: coins that carry a token still needed, in the caller's order.
\* While it is needed every coin that carries it is taken, so what was supplied
\* of it is what all earlier coins carry.
ForTokens(list, demand) ==
  {i \in DOMAIN list : \E t \in Tokens :
     list[i].value[t] > 0 /\ demand[t] > Total(SubSeq(list, 1, i - 1), t)}

\* Mutant: what the first phase took is offered again.
ForNative_All(list, chosen) == InOrder(list, DOMAIN list, PlainFirst(list))

\* Second phase candidates: those without tokens first, then the larger.
ForNative(list, chosen) == InOrder(list, DOMAIN list \ chosen, PlainFirst(list))

\* recipients: sequence of [to, asset, amount] with tokens as assets.
build_token_send(key, list, recipients, back) ==
  LET demand == Demand(recipients)
      chosen == ForTokens(list, demand)
      first  == InOrder(list, chosen, Listed(list))
      rest   == ForNative(list, chosen)
      taken(n) == first \o SubSeq(rest, 1, n)
      after(n) == Balances(demand, taken(n))
      fee(n) == Price(Len(first) + (IF n = 0 THEN 1 ELSE n),
                      Len(recipients) + 1 + Cardinality(Surplus(after(n))), TRUE)
      needed == [n \in 0..Len(rest) |-> fee(n) - Total(first, Native)]
      exits  == Exits(rest, needed)
  IN CASE recipients = <<>> -> Refused("no outputs")
       [] \E i \in DOMAIN list : ~KeySpendable(list[i]) -> Refused("unsupported funding")
       [] \E i \in DOMAIN recipients : recipients[i].amount = 0 -> Refused("zero value")
       [] Short(Balances(demand, first)) # {} -> Refused("tokens")
       [] exits = {} -> Refused("funds")
       [] OTHER ->
            LET n    == Min(exits)
                s    == Settle(Total(taken(n), Native) - fee(n), fee(n))
                paid == [i \in DOMAIN recipients |->
                           Reserve(recipients[i].to, recipients[i].asset, recipients[i].amount)]
            IN Built(key, taken(n),
                     paid \o TokenChange(after(n), demand, back)
                          \o ChangeOut([change |-> back], s.change),
                     s.fee, 0)

-----------------------------------------------------------------------------
(***************************************************************************)
(* Spending what an identity holds                                         *)
(***************************************************************************)
IsPaymentTo(coin, identity) == coin.shape = "identity" /\ coin.owner = identity

build_identity_spend(key, identity, list, recipients) ==
  LET outs == [i \in DOMAIN recipients |-> Pay(recipients[i].to, recipients[i].amount)]
  IN CASE recipients = <<>> -> Refused("no outputs")
       [] list = <<>> -> Refused("funds")
       [] \E i \in DOMAIN list : ~IsPaymentTo(list[i], identity) -> Refused("output mismatch")
       [] \E i \in DOMAIN recipients : recipients[i].amount = 0 -> Refused("zero value")
       [] OTHER -> assemble(key, [burn |-> 0, leading |-> list, funding |-> <<>>, outs |-> outs,
                                  counted |-> Len(outs) + 1, change |-> identity,
                                  bearing |-> TRUE])

HoldsOnly(coin, token) ==
  coin.shape = "reserve" /\ \A t \in Tokens : (coin.value[t] > 0) = (t = token)

\* Every input must carry exactly `token`: the others would be destroyed.
\* The miner fee is paid from `funding`, and its change goes to `back`.
build_identity_token_spend(key, identity, token, list, funding, to, amount, back) ==
  LET surplus == Total(list, token) - amount
      outs == <<Reserve(to, token, amount)>>
              \o (IF surplus > 0 THEN <<Reserve(identity, token, surplus)>> ELSE <<>>)
  IN CASE amount = 0 -> Refused("zero value")
       [] list = <<>> -> Refused("tokens")
       [] \E i \in DOMAIN list : ~HoldsOnly(list[i], token) \/ list[i].owner # identity
            -> Refused("output mismatch")
       [] surplus < 0 -> Refused("tokens")
       [] OTHER -> assemble(key, [burn |-> 0, leading |-> list, funding |-> funding, outs |-> outs,
                                  counted |-> Len(outs) + 1, change |-> back,
                                  bearing |-> FALSE])

-----------------------------------------------------------------------------
(***************************************************************************)
(* Conversions, burns and mints.  A transfer is [kind, source, path,       *)
(* amount, fee_currency, fee]; path is the currencies it is converted      *)
(* through, the last one the result (for a mint, what is created).  It     *)
(* becomes an output the protocol holds until it imports it.               *)
(***************************************************************************)
Minting(transfer) == transfer.kind = "mint"
Minted(transfer)  == transfer.path[1]

\* build_conversion: nothing is converted into itself, by way of itself.
WellFormed(transfer) ==
  /\ transfer.amount > 0
  /\ transfer.kind # "burn" =>
       \A i \in DOMAIN transfer.path :
         /\ transfer.path[i] # transfer.source
         /\ \A j \in 1..(i - 1) : transfer.path[j] # transfer.path[i]

\* native_value: the satoshis of the output.
native_value(transfer) ==
  IF ~Minting(transfer) /\ transfer.source = Native THEN transfer.amount + transfer.fee
  ELSE IF transfer.fee_currency = Native THEN transfer.fee
  ELSE 0

\* reserve_value: the tokens in it as consensus counts them, the fee on top
\* of the amount, and of a mint the fee alone.
reserve_value(transfer) ==
  [t \in Tokens |->
     (IF t = transfer.source /\ ~Minting(transfer) THEN transfer.amount ELSE 0)
     + (IF t = transfer.fee_currency THEN transfer.fee ELSE 0)]

TransferOut(transfer) ==
  LET tokens == reserve_value(transfer)
  IN Output("transfer", Protocol,
            [a \in Assets |-> IF a = Native THEN native_value(transfer) ELSE tokens[a]])

\* The tokens that are not the converted ones go where these came from.
Converted(transfer, list, back) ==
  LET surplus == Total(list, transfer.source) - transfer.amount
      holder  == IF list # <<>> /\ list[1].owner \in Identities THEN list[1].owner ELSE back
  IN <<TransferOut(transfer)>>
     \o (IF surplus > 0 THEN <<Reserve(holder, transfer.source, surplus)>> ELSE <<>>)

Mint(key, transfer, utxos, identity_funding) ==
  CASE transfer.source # Native -> Refused("invalid conversion")
    [] identity_funding = <<>> \/ utxos # <<>> -> Refused("invalid conversion")
    [] \E i \in DOMAIN identity_funding :
         ~IsPaymentTo(identity_funding[i], Issuer[Minted(transfer)])
         -> Refused("invalid conversion")
    [] OTHER -> assemble(key, [burn |-> 0, leading |-> identity_funding, funding |-> <<>>,
                               outs |-> <<TransferOut(transfer)>>,
                               counted |-> 2, change |-> Issuer[Minted(transfer)],
                               bearing |-> TRUE])

ConvertNative(key, transfer, utxos, token_inputs, back) ==
  IF token_inputs # <<>> THEN Refused("invalid conversion")
  ELSE assemble(key, [burn |-> 0, leading |-> <<>>, funding |-> utxos,
                      outs |-> <<TransferOut(transfer)>>,
                      counted |-> 2, change |-> back, bearing |-> FALSE])

\* The token inputs are one identity's, or a key's.
ConvertToken(key, transfer, utxos, token_inputs, back) ==
  LET outs == Converted(transfer, token_inputs, back) IN
  CASE \E i \in DOMAIN token_inputs :
         \/ ~HoldsOnly(token_inputs[i], transfer.source)
         \/ token_inputs[i].owner \in Identities
            /\ token_inputs[i].owner # token_inputs[1].owner
         \/ token_inputs[i].owner \in Keys /\ token_inputs[1].owner \in Identities
         -> Refused("invalid conversion")
    [] Total(token_inputs, transfer.source) < transfer.amount -> Refused("tokens")
    [] OTHER -> assemble(key, [burn |-> 0, leading |-> token_inputs, funding |-> utxos, outs |-> outs,
                               counted |-> Len(outs) + 1, change |-> back,
                               bearing |-> FALSE])

build_conversion_transaction(key, transfer, utxos, token_inputs, identity_funding, back) ==
  IF ~WellFormed(transfer) THEN Refused("invalid conversion")
  ELSE IF Minting(transfer) THEN Mint(key, transfer, utxos, identity_funding)
  ELSE IF transfer.source = Native
       THEN ConvertNative(key, transfer, utxos, token_inputs, back)
  ELSE ConvertToken(key, transfer, utxos, token_inputs, back)

-----------------------------------------------------------------------------
(***************************************************************************)
(* Offers.  wanted is an output; an offer is the maker's coin, what is     *)
(* wanted for it, and a signature over these two and the expiry alone.     *)
(***************************************************************************)
Offered(key, amount) == Output("offer", key, Of(Native, amount))

fund_offer(key, list, amount, back) ==
  IF amount = 0 THEN Refused("invalid offer")
  ELSE assemble(key, [burn |-> 0, leading |-> <<>>, funding |-> list, outs |-> <<Offered(key, amount)>>,
                      counted |-> 2, change |-> back, bearing |-> FALSE])

\* SIGHASH_SINGLE | ANYONECANPAY: this input and the output beside it.
SigSingle(key, out, expiry) == [by |-> key, hash |-> "single", out |-> out, expiry |-> expiry]

make_offer(key, funding, wanted, expiry) ==
  IF funding.shape # "offer" \/ funding.owner # key THEN Refused("invalid offer")
  ELSE [kind |-> "offer", spends |-> funding.id, wanted |-> wanted, expiry |-> expiry,
        sig |-> SigSingle(key, wanted, expiry)]

\* The taker's coins are spent whole, whatever they are worth, and there is
\* no dust rule.  `offered` is what the caller believes the maker's coin holds.
take_offer(key, offer, maker_coin, list, to, back, offered, fee) ==
  LET owed     == offer.wanted.value
      balances == Balances(owed, list)
      change   == Total(list, Native) - owed[Native] - fee
      ins      == <<maker_coin>> \o list
  IN CASE \E i \in DOMAIN list : list[i].shape = "reserve" /\ ~KeySpendable(list[i])
            -> Refused("unsupported funding")
       [] Short(balances) # {} \/ change < 0 -> Refused("invalid offer")
       [] OTHER ->
            [Built(key, ins,
                   <<offer.wanted, Pay(to, offered)>>
                     \o TokenChange(balances, owed, back) \o ChangeOut([change |-> back], change),
                   fee, 0)
             EXCEPT !.sigs[1] = offer.sig]

(***************************************************************************)
(* PartialTransaction with one signer: start, sign, finalize.  A condition *)
(* is signed unconditionally, a key hash only by its key.  This is how a   *)
(* maker takes a coin back: no message cancels an offer.                   *)
(***************************************************************************)
partial_transaction(key, ins, outs) ==
  LET in == Total(ins, Native)  out == Total(outs, Native) IN
  IF \E i \in DOMAIN ins : ins[i].shape = "p2pkh" /\ ins[i].owner # key
  THEN Refused("missing signature")
  ELSE Built(key, ins, outs, IF in \geq out THEN in - out ELSE 0, 0)
=============================================================================
