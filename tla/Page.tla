-------------------------------- MODULE Page --------------------------------
(***************************************************************************)
(* What a web page may ask of the library: the request objects of          *)
(* src/crates/verus-wasm (dto.rs, flows.rs, send.rs, convert.rs, login.rs) *)
(* and the call that each becomes.                                         *)
(*                                                                         *)
(* A request is a JavaScript object.  What it says is what its properties  *)
(* evaluate to, own or not; what the library reads is a copy of its own    *)
(* declared ones.  Texts, numbers and addresses are members of small sets. *)
(***************************************************************************)
EXTENDS Integers, Sequences, FiniteSets, SequencesExt

CONSTANTS
  KeyAddresses, Identities,   \* addresses, by their kind
  Satoshis,                   \* the texts that are amounts, with what they say
  Hex, Hashes, ZeroHash,      \* texts of bytes, and of 32 of them
  Signatures,                 \* texts of signatures, with the height each is of
  U32Max, I32Max,             \* what a count and a height may be
  SATS_PER_COIN,
  DEFAULT_FEE_PER_KB,
  EXPIRY_HEIGHT_THRESHOLD,    \* the chain takes no expiry of this height or above
  MAX_ID_REFERRAL_LEVELS,
  MAX_REPLY_BYTES,
  Half,                       \* a number that is not whole
  Undefined, Null,            \* JavaScript's
  None, Refused,
  Default, Never              \* what is not said

MAX_ABSOLUTE_FEE == SATS_PER_COIN
MAX_FEE_PER_KB   == SATS_PER_COIN

-----------------------------------------------------------------------------
(***************************************************************************)
(* Objects and shapes                                                      *)
(***************************************************************************)
Text(t)    == [js |-> "text", is |-> t]
Num(n)     == [js |-> "number", is |-> n]
Bool(b)    == [js |-> "bool", is |-> b]
List(s)    == [js |-> "list", is |-> s]
Object(own) == [js |-> "object", own |-> own, inherited |-> <<>>, prototype |-> "plain", symbol |-> FALSE]

\* Evaluating object.field
Get(object, field) ==
  IF field \in DOMAIN object.own THEN object.own[field]
  ELSE IF field \in DOMAIN object.inherited THEN object.inherited[field]
  ELSE Undefined

Field(kind)       == [kind |-> kind, optional |-> FALSE, shape |-> None]
Maybe(kind)       == [kind |-> kind, optional |-> TRUE, shape |-> None]
Nested(kind, shape, optional) == [kind |-> kind, optional |-> optional, shape |-> shape]
Texts(fields)     == [f \in fields |-> Field("text")]

RECURSIVE sanitize(_, _)

\* Mutant: what is not an own property is not looked for.
sanitize_object_OwnOnly(value, shape) ==
  LET copy == [f \in DOMAIN value.own |->
                 IF shape[f].shape = None THEN value.own[f] ELSE sanitize(value.own[f], shape[f].shape)]
  IN IF \/ value.symbol \/ ~(DOMAIN value.own \subseteq DOMAIN shape)
        \/ value.prototype \notin {"plain", "null"}
        \/ \E f \in DOMAIN copy : copy[f] = Refused
     THEN Refused ELSE Object(copy)

\* Of the object's own properties, each must be declared; of the declared ones,
\* none may be there without being its own.
sanitize_object(value, shape) ==
  IF value.js # "object" THEN value
  ELSE IF \/ value.symbol
          \/ value.prototype \notin {"plain", "null"}
          \/ ~(DOMAIN value.own \subseteq DOMAIN shape)
          \/ \E f \in DOMAIN shape \ DOMAIN value.own : Get(value, f) # Undefined
       THEN Refused
  ELSE LET copy == [f \in DOMAIN value.own |->
                      IF shape[f].shape = None THEN value.own[f] ELSE sanitize(value.own[f], shape[f].shape)]
       IN IF \E f \in DOMAIN copy : copy[f] = Refused THEN Refused ELSE Object(copy)

\* Each element of a list, or the object.
sanitize(value, shape) ==
  IF value.js # "list" THEN sanitize_object(value, shape)
  ELSE LET copy == [i \in DOMAIN value.is |-> sanitize_object(value.is[i], shape)]
       IN IF \E i \in DOMAIN copy : copy[i] = Refused THEN Refused ELSE List(copy)

Absence(kind) ==
  CASE kind \in {"texts", "objects"} -> <<>> [] kind = "bool" -> FALSE [] OTHER -> None

RECURSIVE read(_, _)

\* A field of the copy, in the field's type.
Typed(copy, f, as) ==
  IF f \notin DOMAIN copy.own THEN IF as.optional THEN Absence(as.kind) ELSE Refused
  ELSE LET v == copy.own[f] IN
       IF v.js = "null" THEN IF as.optional /\ Absence(as.kind) = None THEN None ELSE Refused
       ELSE CASE as.kind = "text"   -> IF v.js = "text" THEN v.is ELSE Refused
              [] as.kind = "bool"   -> IF v.js = "bool" THEN v.is ELSE Refused
              [] as.kind = "float"  -> IF v.js = "number" THEN v.is ELSE Refused
              [] as.kind = "number" -> IF v.js # "number" THEN Refused
                                       ELSE IF v.is = Half THEN Refused
                                       ELSE IF v.is \in 0..U32Max THEN v.is ELSE Refused
              [] as.kind = "texts"  -> IF v.js # "list" THEN Refused
                                       ELSE IF \E i \in DOMAIN v.is : v.is[i].js # "text" THEN Refused
                                       ELSE [i \in DOMAIN v.is |-> v.is[i].is]
              [] as.kind = "object" -> read(v, as.shape)
              [] as.kind = "objects" -> IF v.js # "list" THEN Refused
                                        ELSE LET all == [i \in DOMAIN v.is |-> read(v.is[i], as.shape)]
                                             IN IF Refused \in ToSet(all) THEN Refused ELSE all

\* Deserialization of what sanitize let through.
read(copy, shape) ==
  IF copy.js # "object" THEN Refused
  ELSE LET fields == [f \in DOMAIN shape |-> Typed(copy, f, shape[f])]
       IN IF \E f \in DOMAIN fields : fields[f] = Refused THEN Refused ELSE fields

from_js(value, shape) ==
  LET checked == sanitize(value, shape)
  IN IF checked = Refused THEN Refused ELSE read(checked, shape)

-----------------------------------------------------------------------------
(***************************************************************************)
(* Texts                                                                   *)
(***************************************************************************)
sats(t)  == IF t \in DOMAIN Satoshis THEN Satoshis[t] ELSE Refused
bytes_hex(t) == IF t \in Hex \cup Hashes THEN t ELSE Refused
fixed_hex(t) == IF t \in Hashes THEN t ELSE Refused
address(t)   == IF t \in KeyAddresses \cup Identities THEN t ELSE Refused
pubkey_hash_address(t) == IF t \in KeyAddresses THEN t ELSE Refused
identity_id(t) == IF t \in Identities THEN t ELSE Refused
currency(t)    == identity_id(t)
from_base64(t) == IF t \in DOMAIN Signatures THEN t ELSE Refused

\* Of something optional, with its default.
OrElse(t, otherwise, result) == IF t = None THEN otherwise ELSE result
MaybeSats(t) == OrElse(t, None, sats(t))

Whole(n, most) == IF n = Half THEN Refused ELSE IF n \in 0..most THEN n ELSE Refused
whole_number(n) == Whole(n, U32Max)
height(n)       == Whole(n, I32Max)

\* A fee named outright has a ceiling, and so has a rate.
Capped(amount, most) == IF amount = Refused THEN Refused ELSE IF amount > most THEN Refused ELSE amount
checked_fee(t) == Capped(sats(t), MAX_ABSOLUTE_FEE)
fee_per_kb(t)  == OrElse(t, DEFAULT_FEE_PER_KB, Capped(sats(t), MAX_FEE_PER_KB))

\* Never is not said by a zero.
expiry(h) ==
  CASE h = None -> Never
    [] h = 0 \/ h \geq EXPIRY_HEIGHT_THRESHOLD -> Refused
    [] OTHER -> h

All(s) == IF Refused \in ToSet(s) THEN Refused ELSE s
AllOf(r) == IF \E f \in DOMAIN r : r[f] = Refused THEN Refused ELSE r
amounts(list) == All([i \in DOMAIN list |-> sats(list[i])])

to_utxo(u) == AllOf([txid |-> fixed_hex(u.txid), vout |-> u.vout, satoshis |-> sats(u.satoshis),
                     script_pubkey |-> bytes_hex(u.scriptPubKey)])
utxos_named(list) == All([i \in DOMAIN list |-> to_utxo(list[i])])

\* The call that is made, unless an argument was refused.
Flow(name, arguments) == IF Refused \in ToSet(arguments) THEN Refused ELSE <<name>> \o arguments

-----------------------------------------------------------------------------
(***************************************************************************)
(* The requests (flows.rs, send.rs, convert.rs, login.rs), each as the     *)
(* fields it declares, and what the binding that takes it makes of them:   *)
(* the call of verus-flows, or of the offline builders, with its           *)
(* arguments.                                                              *)
(***************************************************************************)
JsUtxo == [txid |-> Field("text"), vout |-> Field("number"), satoshis |-> Field("text"),
           scriptPubKey |-> Field("text")]
Utxos == Nested("objects", JsUtxo, FALSE)
TokenFunding == Nested("objects", JsUtxo, TRUE)

-----------------------------------------------------------------------------
(***************************************************************************)
(* Reads                                                                   *)
(***************************************************************************)
HistoryRequest == [addresses |-> Field("texts"), startHeight |-> Maybe("number"), endHeight |-> Maybe("number")]
plan_history(q) ==
  IF (q.startHeight = None) # (q.endHeight = None) THEN Refused
  ELSE Flow("history", <<q.addresses,
              IF q.startHeight = None THEN None ELSE <<q.startHeight, q.endHeight>>>>)

SpendableRequest == Texts({"address"})
plan_spendable(q) == Flow("spendable", <<q.address>>)

ContentRequest == Texts({"identity"})
plan_content(q)         == Flow("read_all", <<q.identity>>)
plan_content_history(q) == Flow("identity_content", <<q.identity>>)

OffersRequest == [target |-> Field("text"), isCurrency |-> Field("bool"), withOfferBytes |-> Maybe("bool")]
plan_offers(q) == Flow("browse", <<q.target, q.isCurrency, q.withOfferBytes>>)

OfferTermsRequest == Texts({"offer"})
plan_offer_terms(q) == Flow("inspect", <<q.offer>>)

LoginRequest == Texts({"audience", "challenge"})
plan_login(identity, q) == Flow("sign_login", <<identity, q.audience, q.challenge>>)

VerifyLoginRequest ==
  [f \in {"identity", "signature", "audience", "challenge", "maxAgeBlocks", "maxFutureBlocks"} |->
     IF f \in {"maxAgeBlocks", "maxFutureBlocks"} THEN Maybe("number") ELSE Field("text")]
plan_verify_login(q) ==
  Flow("verify_login", <<q.identity, from_base64(q.signature), q.audience, q.challenge,
                         OrElse(q.maxAgeBlocks, Default, q.maxAgeBlocks),
                         OrElse(q.maxFutureBlocks, Default, q.maxFutureBlocks)>>)

-----------------------------------------------------------------------------
(***************************************************************************)
(* Payments                                                                *)
(***************************************************************************)
PlanSendRequest == Texts({"to", "satoshis"})
plan_send(q) == Flow("prepare_send", <<q.to, sats(q.satoshis)>>)

PlanSendTokenRequest ==
  [currency |-> Field("text"), to |-> Field("text"), amount |-> Field("text"), tokenUtxos |-> Utxos]
plan_send_token(q) ==
  Flow("prepare_send_token", <<currency(q.currency), q.to, sats(q.amount), utxos_named(q.tokenUtxos)>>)

PlanSendFromIdentityRequest == Texts({"identity", "to", "satoshis"})
plan_send_from_identity(q) ==
  Flow("prepare_send_from_identity", <<q.identity, q.to, sats(q.satoshis)>>)

PlanSendTokenFromIdentityRequest == Texts({"identity", "currency", "to", "amount"})
plan_send_token_from_identity(q) ==
  Flow("prepare_send_token_from_identity", <<q.identity, currency(q.currency), q.to, sats(q.amount)>>)

PlanPublishRequest == [identity |-> Field("text"), key |-> Field("text"), values |-> Field("texts")]
plan_publish(q) ==
  Flow("prepare_publish", <<q.identity, identity_id(q.key),
                            All([i \in DOMAIN q.values |-> bytes_hex(q.values[i])])>>)

TakeOfferRequest == [offer |-> Field("text"), utxos |-> Utxos, recipient |-> Field("text"),
                     changeAddress |-> Field("text"), fee |-> Field("text")]
plan_take_offer(q) ==
  Flow("prepare_take", <<q.offer, utxos_named(q.utxos), pubkey_hash_address(q.recipient),
                         pubkey_hash_address(q.changeAddress), checked_fee(q.fee)>>)

JsRecipient == Texts({"address", "satoshis"})
SendRequest ==
  [utxos |-> Utxos, recipients |-> Nested("objects", JsRecipient, FALSE), changeAddress |-> Field("text"),
   expiryHeight |-> Maybe("number"), feePerKb |-> Maybe("text")]
build_send(q) ==
  Flow("build_transparent_send",
       <<utxos_named(q.utxos),
         All([i \in DOMAIN q.recipients |->
                AllOf([address |-> address(q.recipients[i].address), satoshis |-> sats(q.recipients[i].satoshis)])]),
         pubkey_hash_address(q.changeAddress), expiry(q.expiryHeight), fee_per_kb(q.feePerKb)>>)

JsTokenRecipient == Texts({"address", "currency", "amount"})
TokenSendRequest == [SendRequest EXCEPT !.recipients = Nested("objects", JsTokenRecipient, FALSE)]
build_token(q) ==
  Flow("build_token_send",
       <<utxos_named(q.utxos),
         All([i \in DOMAIN q.recipients |-> LET r == q.recipients[i] IN
                AllOf([address |-> address(r.address), currency |-> currency(r.currency), amount |-> sats(r.amount)])]),
         pubkey_hash_address(q.changeAddress), expiry(q.expiryHeight), fee_per_kb(q.feePerKb)>>)

-----------------------------------------------------------------------------
(***************************************************************************)
(* Conversions                                                             *)
(***************************************************************************)
\* A route is named for a conversion through one, and for no other.  To burn
\* and to mint are no conversions.
conversion_kind_of(kind, into, via) ==
  IF \/ kind \notin {"intoFractional", "intoReserve", "reserveToReserve", "preconvert"}
     \/ (via # None) # (kind = "reserveToReserve")
  THEN Refused
  ELSE All(<<kind, currency(into), OrElse(via, None, currency(via))>>)

PlanConvertRequest ==
  [f \in {"from", "amount", "kind", "into", "via", "recipient", "fee", "minExpected", "tokenFunding"} |->
     IF f \in {"via", "minExpected"} THEN Maybe("text")
     ELSE IF f = "tokenFunding" THEN TokenFunding ELSE Field("text")]

\* Mutant: the least to accept is read and not passed on.
plan_convert_AtAnyPrice(q) ==
  IF MaybeSats(q.minExpected) = Refused THEN Refused
  ELSE Flow("prepare_conversion",
       <<q.from, sats(q.amount), conversion_kind_of(q.kind, q.into, q.via), q.recipient,
         checked_fee(q.fee), None, utxos_named(q.tokenFunding)>>)

plan_convert(q) ==
  Flow("prepare_conversion",
       <<q.from, sats(q.amount), conversion_kind_of(q.kind, q.into, q.via), q.recipient,
         checked_fee(q.fee), MaybeSats(q.minExpected), utxos_named(q.tokenFunding)>>)

\* No least to accept: the request does not declare one.
PlanConvertFromIdentityRequest ==
  [f \in {"identity", "from", "amount", "kind", "into", "via", "recipient", "fee"} |->
     IF f = "via" THEN Maybe("text") ELSE Field("text")]
plan_convert_from_identity(q) ==
  Flow("prepare_conversion_from_identity",
       <<q.identity, q.from, sats(q.amount), conversion_kind_of(q.kind, q.into, q.via), q.recipient,
         checked_fee(q.fee)>>)

PlanBurnRequest ==
  [currency |-> Field("text"), amount |-> Field("text"), fee |-> Field("text"), tokenFunding |-> TokenFunding]
plan_burn(q) ==
  Flow("prepare_burn", <<q.currency, sats(q.amount), checked_fee(q.fee), utxos_named(q.tokenFunding)>>)

PlanMintRequest == Texts({"currency", "amount", "recipient", "fee"})
plan_mint(q) == Flow("prepare_mint", <<q.currency, sats(q.amount), q.recipient, checked_fee(q.fee)>>)

\* Offline.  What goes unsaid is refunded to the key, and the fee is in the
\* chain's currency; it has no ceiling here.
OwnAddress == "the key's own address"
ConvertRequest ==
  [f \in {"utxos", "tokenFunding", "from", "amount", "kind", "into", "via", "recipient", "refund",
          "chainCurrency", "feeCurrency", "fee", "changeAddress", "expiryHeight", "feePerKb"} |->
     CASE f = "utxos" -> Utxos [] f = "tokenFunding" -> TokenFunding
       [] f = "expiryHeight" -> Maybe("number")
       [] f \in {"via", "refund", "feeCurrency", "feePerKb"} -> Maybe("text")
       [] OTHER -> Field("text")]
build_convert(q) ==
  Flow("build_conversion_transaction",
       <<currency(q.chainCurrency),
         OrElse(q.feeCurrency, currency(q.chainCurrency), currency(q.feeCurrency)),
         OrElse(q.refund, OwnAddress, address(q.refund)),
         currency(q.from), sats(q.amount), conversion_kind_of(q.kind, q.into, q.via), address(q.recipient),
         sats(q.fee), utxos_named(q.utxos), utxos_named(q.tokenFunding),
         pubkey_hash_address(q.changeAddress), expiry(q.expiryHeight), fee_per_kb(q.feePerKb)>>)

-----------------------------------------------------------------------------
(***************************************************************************)
(* Identities and currencies                                               *)
(***************************************************************************)
PlanRegistrationRequest ==
  [f \in {"name", "primaryAddresses", "minSigs", "referral", "revocationAuthority", "recoveryAuthority",
          "pinFee", "salt"} |->
     CASE f = "name" -> Field("text") [] f = "primaryAddresses" -> Maybe("texts")
       [] f = "minSigs" -> Maybe("number") [] OTHER -> Maybe("text")]

\* A salt of the page's own, which may not be all zeros, or a fresh one.
plan_registration(q) ==
  LET options == <<q.primaryAddresses, q.minSigs, q.referral, q.revocationAuthority,
                   q.recoveryAuthority, MaybeSats(q.pinFee)>>
  IN IF q.salt = None THEN Flow("prepare_registration", <<q.name>> \o options)
     ELSE IF q.salt = ZeroHash THEN Refused
     ELSE Flow("prepare_registration_with_salt", <<q.name>> \o options \o <<fixed_hex(q.salt)>>)

\* A registration as the page keeps it: what the library wrote, a label for the
\* step, and what is shown of it.
JsPending == Texts({"state", "name", "registrationFee", "commitmentHex", "commitmentTxid", "pending"})
PendingRequest == [pending |-> Nested("object", JsPending, FALSE)]

stored_pending(pending, state) ==
  [state |-> state, name |-> pending.name, registrationFee |-> pending.registrationFee,
   commitmentHex |-> pending.commitmentHex, commitmentTxid |-> pending.commitmentTxid,
   pending |-> pending]

\* Only the label is looked at.
pending_at(stored, want) == IF stored.state # want THEN Refused ELSE stored.pending

plan_commitment_anchor(q) == Flow("anchor", <<pending_at(q.pending, "awaitingCommitment")>>)
plan_commitment_status(q) == Flow("poll", <<pending_at(q.pending, "awaitingCommitment")>>)
plan_registration_complete(q) == Flow("prepare", <<pending_at(q.pending, "readyToRegister")>>)

JsPreallocation == Texts({"recipient", "amount"})
JsCurrencyDefinition ==
  [f \in {"name", "parent", "kind", "startBlock", "endBlock", "initialSupply", "proofProtocol", "currencies",
          "weights", "minPreconversion", "maxPreconversion", "preallocations", "idRegistrationFees",
          "idReferralLevels", "idImportFees"} |->
     CASE f \in {"name", "parent", "kind"} -> Field("text")
       [] f = "startBlock" -> Field("float")
       [] f \in {"endBlock", "idReferralLevels", "proofProtocol"} -> Maybe("float")
       [] f \in {"initialSupply", "idRegistrationFees", "idImportFees"} -> Maybe("text")
       [] f = "preallocations" -> Nested("objects", JsPreallocation, TRUE)
       [] OTHER -> Maybe("texts")]

Sum(s) == FoldSeq(+, 0, s)

\* A basket has reserves and a token none; each list about the reserves has one
\* entry for each, and the weights add up to one.
WellFormed(d) ==
  LET perReserve(list) == Len(list) = Len(d.currencies) IN
  /\ d.kind \in {"token", "fractional"}
  /\ (d.kind = "fractional") = (d.currencies # <<>>)
  /\ \A list \in {d.minPreconversion, d.maxPreconversion} : list # <<>> => perReserve(list)
  /\ d.kind = "fractional" =>
       /\ perReserve(d.weights) /\ amounts(d.weights) # Refused
       /\ Sum(amounts(d.weights)) = SATS_PER_COIN

DefaultSupply == 0
DefaultProtocol == 1

to_definition(d) ==
  IF ~WellFormed(d) THEN Refused
  ELSE LET zeros == [i \in DOMAIN d.currencies |-> 0] IN
  AllOf([parent |-> currency(d.parent), name |-> d.name, fractional |-> d.kind = "fractional",
   start_block |-> height(d.startBlock),
   end_block |-> OrElse(d.endBlock, 0, height(d.endBlock)),
   initial_supply |-> OrElse(d.initialSupply, DefaultSupply, sats(d.initialSupply)),
   proof_protocol |-> OrElse(d.proofProtocol, DefaultProtocol,
                        IF d.proofProtocol = Half THEN Refused
                        ELSE IF d.proofProtocol \in {1, 2} THEN d.proofProtocol ELSE Refused),
   currencies |-> All([i \in DOMAIN d.currencies |-> currency(d.currencies[i])]),
   weights |-> All([i \in DOMAIN d.weights |-> Capped(sats(d.weights[i]), I32Max)]),
   conversions |-> zeros, initial_contributions |-> zeros, preconverted |-> zeros,
   min_preconversion |-> amounts(d.minPreconversion), max_preconversion |-> amounts(d.maxPreconversion),
   preallocations |-> All([i \in DOMAIN d.preallocations |->
      AllOf([recipient |-> identity_id(d.preallocations[i].recipient), amount |-> sats(d.preallocations[i].amount)])]),
   id_registration_fees |-> OrElse(d.idRegistrationFees, Default, sats(d.idRegistrationFees)),
   id_import_fees |-> OrElse(d.idImportFees, Default, sats(d.idImportFees)),
   id_referral_levels |-> OrElse(d.idReferralLevels, Default,
      Capped(whole_number(d.idReferralLevels), MAX_ID_REFERRAL_LEVELS)),
   \* The option comes with a number of levels that is not zero.
   id_referrals |-> IF d.idReferralLevels = None THEN FALSE ELSE d.idReferralLevels # 0])

PlanLaunchRequest == [identity |-> Field("text"), definition |-> Nested("object", JsCurrencyDefinition, FALSE),
                      pinLaunchFee |-> Maybe("text")]
plan_launch(q) ==
  Flow("prepare_launch", <<q.identity, to_definition(q.definition), MaybeSats(q.pinLaunchFee)>>)

-----------------------------------------------------------------------------
(***************************************************************************)
(* Signatures                                                              *)
(***************************************************************************)
SignRequest == [identity |-> Field("text"), systemId |-> Field("text"), blockHeight |-> Field("number"),
                message |-> Field("text"), existing |-> Maybe("text")]
sign_message(q) ==
  Flow("sign_message", <<identity_id(q.systemId), identity_id(q.identity), q.blockHeight, q.message>>)
add_signature(q) ==
  Flow("add_signature", <<from_base64(q.existing), identity_id(q.systemId), identity_id(q.identity), q.message>>)

\* Mutant: the height is left to the signature there is.
build_signature_AnyHeight(q) == IF q.existing = None THEN sign_message(q) ELSE add_signature(q)

\* What is added is of the height of what there is, which must be the one said.
build_signature(q) ==
  CASE q.existing = None -> sign_message(q)
    [] from_base64(q.existing) = Refused -> Refused
    [] Signatures[q.existing] # q.blockHeight -> Refused
    [] OTHER -> add_signature(q)

VerifyRequest ==
  [f \in {"identity", "systemId", "message", "signature", "primaryAddresses", "minimumSignatures",
          "currentHeight", "maxAgeBlocks"} |->
     CASE f = "primaryAddresses" -> Field("texts")
       [] f \in {"minimumSignatures", "currentHeight", "maxAgeBlocks"} -> Field("number")
       [] OTHER -> Field("text")]
\* Outside of the window nothing is verified: the answer says why, and who signed.
check_signature(q) ==
  LET signed == <<from_base64(q.signature), identity_id(q.systemId), identity_id(q.identity), q.message>>
      keys   == All([i \in DOMAIN q.primaryAddresses |-> address(q.primaryAddresses[i])])
  IN CASE Refused \in ToSet(signed) \/ keys = Refused                    -> Refused
       [] Signatures[q.signature] > q.currentHeight                     -> <<"future">> \o signed
       [] q.currentHeight - Signatures[q.signature] > q.maxAgeBlocks    -> <<"stale">> \o signed
       [] OTHER -> <<"verify">> \o signed \o <<keys, q.minimumSignatures>>

-----------------------------------------------------------------------------
(***************************************************************************)
(* The whole boundary                                                      *)
(***************************************************************************)
Requests ==
  [plan_history |-> HistoryRequest, plan_spendable |-> SpendableRequest, plan_content |-> ContentRequest,
   plan_content_history |-> ContentRequest, plan_offers |-> OffersRequest, plan_offer_terms |-> OfferTermsRequest,
   plan_login |-> LoginRequest, plan_verify_login |-> VerifyLoginRequest, plan_send |-> PlanSendRequest,
   plan_send_token |-> PlanSendTokenRequest, plan_send_from_identity |-> PlanSendFromIdentityRequest,
   plan_send_token_from_identity |-> PlanSendTokenFromIdentityRequest, plan_publish |-> PlanPublishRequest,
   plan_take_offer |-> TakeOfferRequest, send |-> SendRequest, send_token |-> TokenSendRequest,
   plan_convert |-> PlanConvertRequest, plan_convert_from_identity |-> PlanConvertFromIdentityRequest,
   plan_burn |-> PlanBurnRequest, plan_mint |-> PlanMintRequest, convert |-> ConvertRequest,
   plan_registration |-> PlanRegistrationRequest, plan_commitment_anchor |-> PendingRequest,
   plan_commitment_status |-> PendingRequest, plan_registration_complete |-> PendingRequest,
   plan_launch |-> PlanLaunchRequest, sign_message |-> SignRequest, verify_message |-> VerifyRequest]

\* What a method makes of what was read.
Made(method, q) ==
  CASE method = "plan_history"          -> plan_history(q)
    [] method = "plan_spendable"        -> plan_spendable(q)
    [] method = "plan_content"          -> plan_content(q)
    [] method = "plan_content_history"  -> plan_content_history(q)
    [] method = "plan_offers"           -> plan_offers(q)
    [] method = "plan_offer_terms"      -> plan_offer_terms(q)
    [] method = "plan_login"            -> plan_login("identity", q)
    [] method = "plan_verify_login"     -> plan_verify_login(q)
    [] method = "plan_send"             -> plan_send(q)
    [] method = "plan_send_token"       -> plan_send_token(q)
    [] method = "plan_send_from_identity" -> plan_send_from_identity(q)
    [] method = "plan_send_token_from_identity" -> plan_send_token_from_identity(q)
    [] method = "plan_publish"          -> plan_publish(q)
    [] method = "plan_take_offer"       -> plan_take_offer(q)
    [] method = "send"                  -> build_send(q)
    [] method = "send_token"            -> build_token(q)
    [] method = "plan_convert"          -> plan_convert(q)
    [] method = "plan_convert_from_identity" -> plan_convert_from_identity(q)
    [] method = "plan_burn"             -> plan_burn(q)
    [] method = "plan_mint"             -> plan_mint(q)
    [] method = "convert"               -> build_convert(q)
    [] method = "plan_registration"     -> plan_registration(q)
    [] method = "plan_commitment_anchor" -> plan_commitment_anchor(q)
    [] method = "plan_commitment_status" -> plan_commitment_status(q)
    [] method = "plan_registration_complete" -> plan_registration_complete(q)
    [] method = "plan_launch"           -> plan_launch(q)
    [] method = "sign_message"          -> build_signature(q)
    [] method = "verify_message"        -> check_signature(q)

Call(method, object) ==
  LET q == from_js(object, Requests[method])
  IN IF q = Refused THEN Refused ELSE Made(method, q)

-----------------------------------------------------------------------------
(***************************************************************************)
(* Replies                                                                 *)
(***************************************************************************)
\* A text of JavaScript, in units of UTF-16: characters of one, two and three
\* bytes are one unit each, and those of four bytes two.
Units(t) == t.one + t.two + t.three + 2 * t.four
Bytes(t) == t.one + 2 * t.two + 3 * t.three + 4 * t.four

\* The length decides where it can; only otherwise the text is encoded.
reject_oversized_reply(t) ==
  IF Units(t) * 3 \leq MAX_REPLY_BYTES THEN FALSE
  ELSE Units(t) > MAX_REPLY_BYTES \/ Bytes(t) > MAX_REPLY_BYTES

-----------------------------------------------------------------------------
(***************************************************************************)
(* Properties                                                              *)
(***************************************************************************)
\* Of two requests that say different things, one is taken and the other makes
\* another call or answer, or is refused: no field is read and dropped, or read
\* as another.
EverythingSaidCounts(method, object, other) ==
  /\ Call(method, object) # Refused
  /\ object # other => Call(method, other) # Call(method, object)

\* A call is made of what the object says, whatever it is made of: what it would
\* be if each declared field it evaluates to something were its own.
Flat(object, shape) ==
  Object([f \in DOMAIN object.own \cup (DOMAIN object.inherited \cap DOMAIN shape) |-> Get(object, f)])

CallsSayWhatTheObjectSays(method, object) ==
  Call(method, object) # Refused =>
    Call(method, object) = Call(method, Flat(object, Requests[method]))

\* A reply is refused before it is copied exactly when its bytes are too many.
OversizedRepliesAreRefused(t) == reject_oversized_reply(t) <=> Bytes(t) > MAX_REPLY_BYTES
=============================================================================
