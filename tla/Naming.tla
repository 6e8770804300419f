------------------------------- MODULE Naming -------------------------------
(***************************************************************************)
(* The builders of a registration: the name reservation, the commitment to *)
(* it, the fee with its referrals, and the registration that spends the    *)
(* commitment, under the chain or under a currency                         *)
(* (src/crates/verus-tx-identity/src/register.rs).  The flow that drives   *)
(* them, and waits between them, is Registration.                          *)
(*                                                                         *)
(* An identity's id is its lower-case name and its parent.  A serialized   *)
(* object is the record of what is written, a hash the thing it is of.     *)
(***************************************************************************)
EXTENDS Builders

CONSTANTS
  Names, Reservable,     \* what may be asked for, and what may be reserved
  Lower,                 \* [Names -> Names]
  NoId,                  \* twenty zero bytes
  U64Max, MAX_REFERRAL_LEVELS,
  CENTRALIZED_PROOF_PROTOCOL

identity_id(name, parent) == <<Lower[name], parent>>
CurrencyOf(id) == CHOOSE t \in Tokens : Issuer[t] = id

\* An output with an object in its script, of an amount and of none.
Scripted(shape, owner, amount, data) ==
  [shape |-> shape, owner |-> owner, value |-> Of(Native, amount), data |-> data]
Carrying(shape, owner, data) == Scripted(shape, owner, 0, data)
Primary(identity) == Carrying("identity primary", identity.id, identity)

-----------------------------------------------------------------------------
\* NameReservation::new
NameReservation(name, parent, referral, salt) ==
  IF name \notin Reservable THEN Refused("invalid name")
  ELSE [kind |-> "reservation", name |-> name, parent |-> parent, referral |-> referral, salt |-> salt]

\* NameReservation::to_bytes: no referral is written as no id.
to_bytes(r) == <<r.name, r.parent, IF r.referral = None THEN NoId ELSE r.referral, r.salt>>
commitment_hash(r) == to_bytes(r)

commitment_script(hash, control) == [commits |-> hash, control |-> control]
reservation_script(id, r) == Carrying("reservation", id, to_bytes(r))

build_name_commitment(key, list, r, back) ==
  IF \E i \in DOMAIN list : list[i].shape # "p2pkh" THEN Refused("unsupported funding")
  ELSE assemble(key, [burn |-> 0, leading |-> <<>>, funding |-> list,
                      outs |-> <<Carrying("commitment", key, commitment_script(commitment_hash(r), key))>>,
                      counted |-> 1, change |-> back, bearing |-> FALSE])

-----------------------------------------------------------------------------
(***************************************************************************)
(* The fee.  fee is what is charged without a referral.                    *)
(***************************************************************************)
\* Mutant: the registrant's own share is left out of the division.
checked_registration_fees_Levels(fee, levels, referred) ==
  IF ~referred THEN [referral |-> 0, outlay |-> fee]
  ELSE IF levels > MAX_REFERRAL_LEVELS THEN Refused("implausible levels")
  ELSE [referral |-> fee \div (levels + 1), outlay |-> (fee * (levels + 1)) \div (levels + 2)]

checked_registration_fees(fee, levels, referred) ==
  IF ~referred THEN [referral |-> 0, outlay |-> fee]
  ELSE IF levels > MAX_REFERRAL_LEVELS THEN Refused("implausible levels")
  ELSE IF fee * (levels + 1) > U64Max THEN Refused("overflow")
  ELSE [referral |-> fee \div (levels + 2), outlay |-> (fee * (levels + 1)) \div (levels + 2)]

\* What a display is told: an implausible policy is shown as no referral.
registration_fees(fee, levels, referred) ==
  LET f == checked_registration_fees(fee, levels, referred)
  IN IF "kind" \in DOMAIN f THEN [referral |-> 0, outlay |-> fee] ELSE f

\* Nobody is paid for a sub-identity, whatever its reservation says.
Referrers(p) ==
  IF p.parent_currency # None THEN <<>>
  ELSE IF p.reservation.referral # None /\ p.chain = <<>> THEN <<p.reservation.referral>>
  ELSE p.chain

Referred(p) == p.parent_currency = None /\ p.reservation.referral # None

-----------------------------------------------------------------------------
(***************************************************************************)
(* The registration.  parent_currency is None or [fee, native_import_fee,  *)
(* token_funding, proof_protocol, transfer_fee].                           *)
(***************************************************************************)
RegistrationParams(commitment, reservation, list, primaries, fee, back) ==
  [commitment |-> commitment, reservation |-> reservation, utxos |-> list, primaries |-> primaries,
   min_sigs |-> 1, revocation |-> None, recovery |-> None, registration_fee |-> fee,
   parent_currency |-> None, levels |-> 0, chain |-> <<>>, back |-> back]

Registered(p) ==
  LET id == identity_id(p.reservation.name, p.reservation.parent)
      OrItself(authority) == IF authority = None THEN id ELSE authority
  IN [id |-> id, name |-> p.reservation.name, parent |-> p.reservation.parent,
      primaries |-> p.primaries, min_sigs |-> p.min_sigs, flags |-> {}, unlock_after |-> 0,
      revocation |-> OrItself(p.revocation), recovery |-> OrItself(p.recovery)]

\* The fee of a sub-identity: tokens to the parent of a centralized currency,
\* a burn of any other's.
SubFee(key, p) ==
  LET sub == p.parent_currency  own == CurrencyOf(p.reservation.parent) IN
  CASE sub = None -> <<>>
    [] sub # None /\ sub.proof_protocol = CENTRALIZED_PROOF_PROTOCOL
         -> <<Reserve(p.reservation.parent, own, sub.fee)>>
    [] OTHER -> <<TransferOut([kind |-> "burn", source |-> own, path |-> <<>>, amount |-> sub.fee,
                               fee_currency |-> Native, fee |-> sub.transfer_fee])>>

\* Mutant: any token counts towards the fee.
Payable_AnyToken(p) ==
  LET sub == p.parent_currency IN
  sub = None \/ \A i \in DOMAIN sub.token_funding : KeySpendable(sub.token_funding[i])

\* What pays the fee of a sub-identity holds the parent's currency only.
Payable(p) ==
  LET sub == p.parent_currency IN
  \/ sub = None
  \/ \A i \in DOMAIN sub.token_funding :
       /\ HoldsOnly(sub.token_funding[i], CurrencyOf(p.reservation.parent))
       /\ KeySpendable(sub.token_funding[i])

TokensOver(p) ==
  IF p.parent_currency = None THEN 0
  ELSE Total(p.parent_currency.token_funding, CurrencyOf(p.reservation.parent)) - p.parent_currency.fee

RegistrationOutputs(key, p, fees) ==
  <<Primary(Registered(p))>> \o SubFee(key, p)
  \o [i \in DOMAIN Referrers(p) |-> Pay(Referrers(p)[i], fees.referral)]
  \o <<reservation_script(Registered(p).id, p.reservation)>>
  \o (IF TokensOver(p) > 0 THEN <<Reserve(p.back, CurrencyOf(p.reservation.parent), TokensOver(p))>> ELSE <<>>)

\* What is left to the fee: the share that no referrer takes.
Burned(p, fees) ==
  IF p.parent_currency # None THEN p.parent_currency.native_import_fee
  ELSE fees.outlay - Len(Referrers(p)) * fees.referral

TooLong(p) == Len(Referrers(p)) > p.levels

Mismatched(key, p) ==
  \/ p.commitment.shape # "commitment"
  \/ p.commitment.data # commitment_script(commitment_hash(p.reservation), key)

build_identity_registration(key, p) ==
  LET fees == checked_registration_fees(p.registration_fee, p.levels, Referred(p)) IN
  CASE \E i \in DOMAIN p.utxos : p.utxos[i].shape # "p2pkh" -> Refused("unsupported funding")
    [] p.primaries = <<>> -> Refused("no outputs")
    [] p.min_sigs = 0 \/ p.min_sigs > Len(p.primaries) -> Refused("invalid min sigs")
    [] Mismatched(key, p) -> Refused("commitment mismatch")
    [] \E i \in DOMAIN p.primaries : p.primaries[i] \notin Keys -> Refused("unsupported recipient")
    [] "kind" \in DOMAIN fees -> fees
    [] p.parent_currency = None /\ p.reservation.referral = None /\ p.chain # <<>>
         -> Refused("referral not committed")
    [] TooLong(p) -> Refused("referral chain too long")
    [] ~Payable(p) -> Refused("unsupported funding")
    [] TokensOver(p) < 0 -> Refused("tokens")
    [] OTHER ->
         assemble(key, [burn |-> Burned(p, fees),
                        leading |-> <<p.commitment>>
                          \o (IF p.parent_currency = None THEN <<>> ELSE p.parent_currency.token_funding),
                        funding |-> p.utxos, outs |-> RegistrationOutputs(key, p, fees),
                        counted |-> 3 + Len(Referrers(p)), change |-> p.back, bearing |-> FALSE])

-----------------------------------------------------------------------------
Left(t) == Total(t.ins, Native) - Total(t.outs, Native)
\* What a builder charges for itself: estimated with change and an input more
\* than it may have, and keeping the dust.
OwnFee(t) == Price(Len(t.ins) + 1, Len(t.outs) + 2, TRUE) + DUST_THRESHOLD

\* A referral makes a registration cheaper, however long the chain that is paid,
\* every referrer in it gets the same, and at least as much again is burned
\* (checked_registration_fees, build_identity_registration).
SharesTheFee(t, p) ==
  LET share == p.registration_fee \div (p.levels + 2)
      paid  == {i \in DOMAIN t.outs : t.outs[i].shape = "identity" /\ t.outs[i].owner # p.back}
  IN t.kind = "built" /\ p.parent_currency = None =>
       /\ Cardinality(paid) * share + Left(t) \leq p.registration_fee + OwnFee(t)
       /\ Left(t) \geq share
       /\ \A i \in paid : t.outs[i].value = Of(Native, share)
       /\ Referred(p) <=> paid # {}
ReferralsComeOutOfTheFee(key, p) == SharesTheFee(build_identity_registration(key, p), p)

\* What a registration takes in comes out of it again: tokens are its parent's,
\* and what is not the fee comes back; the rest is the fee it reports.  It
\* reveals what the commitment it spends hides, of its own key
\* (build_identity_registration).
LosesNothing(t, key) ==
  LET revealed == {i \in DOMAIN t.outs : t.outs[i].shape = "reservation"}
  IN t.kind = "built" =>
       /\ \A a \in Assets \ {Native} : Total(t.ins, a) = Total(t.outs, a)
       /\ Left(t) = t.fee
       /\ revealed # {}
       /\ \A i \in revealed : /\ t.ins[1].data = [commits |-> t.outs[i].data, control |-> key]
                              /\ t.outs[1].owner = t.outs[i].owner
RegistrationLosesNothing(key, p) == LosesNothing(build_identity_registration(key, p), key)

\* A commitment takes its miner's fee and nothing else, and is one that the
\* registration of the name it hides accepts (build_name_commitment).
CommitsToTheName(t, key, p) ==
  t.kind = "built" =>
    /\ \A a \in Assets : Total(t.ins, a) = Total(t.outs, a) + (IF a = Native THEN t.fee ELSE 0)
    /\ ~Mismatched(key, [p EXCEPT !.commitment = t.outs[1]])
CommitmentLosesNothing(key, p) ==
  CommitsToTheName(build_name_commitment(key, p.utxos, p.reservation, p.back), key, p)
=============================================================================
