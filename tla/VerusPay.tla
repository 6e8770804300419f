------------------------------ MODULE VerusPay ------------------------------
(***************************************************************************)
(* VerusPay invoices: verus-tx-protocol/src/veruspay.rs, the VDXF object   *)
(* and hash they are carried in (vdxf/object.rs, vdxf/hash160.rs), and the *)
(* text of a link or a QR code (base64url.rs).                             *)
(*                                                                         *)
(* A number of an invoice is a VARINT in version 3 and a compact size in   *)
(* version 4; its flags are a word of their own, the set of those set.     *)
(***************************************************************************)
EXTENDS Decoding

CONSTANTS
  SIGNED_BIT,       \* VERSION_SIGNED_BIT, above every version
  INVOICE_KEY, AUTH_SIG_KEY, WALLET_KEY   \* VDXF keys

-----------------------------------------------------------------------------
(***************************************************************************)
(* base64url, of bytes below 256, a text being its sextets.  chars counts  *)
(* what stands in the text, a character outside the alphabet being NoChar. *)
(***************************************************************************)
Chunk3(bytes, i) == LET at(k) == IF k \leq Len(bytes) THEN bytes[k] ELSE 0
                    IN 65536 * at(3*i + 1) + 256 * at(3*i + 2) + at(3*i + 3)
Sextets(bytes) == LET n == Len(bytes) IN (n \div 3) * 4 + (IF n % 3 = 0 THEN 0 ELSE (n % 3) + 1)

base64url_encode(bytes) ==
  [j \in 1..Sextets(bytes) |->
     (Chunk3(bytes, (j - 1) \div 4) \div <<262144, 4096, 64, 1>>[((j - 1) % 4) + 1]) % 64]

\* Mutant: the unused bits of the last character may be set.
base64url_decode_AnyEnd(text) ==
  IF Len(text) % 4 = 1 \/ \E j \in DOMAIN text : text[j] \notin 0..63 THEN Refused
  ELSE LET at(j) == IF j \leq Len(text) THEN text[j] ELSE 0
       IN [k \in 1..((Len(text) * 6) \div 8) |->
             LET q == (k - 1) \div 3
                 packed == 262144 * at(4*q + 1) + 4096 * at(4*q + 2) + 64 * at(4*q + 3) + at(4*q + 4)
             IN (packed \div <<65536, 256, 1>>[((k - 1) % 3) + 1]) % 256]

base64url_decode(text) ==
  LET unused == CASE Len(text) % 4 = 2 -> 16 [] Len(text) % 4 = 3 -> 4 [] OTHER -> 1
  IN IF base64url_decode_AnyEnd(text) = Refused THEN Refused
     ELSE IF text # <<>> /\ Last(text) % unused # 0 THEN Refused
     ELSE base64url_decode_AnyEnd(text)

\* Bytes and their text are one to one.
TextIsOneRunOfBytes(bytes, text) ==
  /\ base64url_decode(base64url_encode(bytes)) = bytes
  /\ base64url_decode(text) # Refused => base64url_encode(base64url_decode(text)) = text

-----------------------------------------------------------------------------
(***************************************************************************)
(* VDXF objects                                                            *)
(***************************************************************************)
VdxfObject(key, version, data) == [key |-> key, version |-> version, data |-> data]
\* A hash of no given length, or one of twenty bytes or none.
Hash160Words(hash, varlength) ==
  IF ~varlength THEN <<Id(hash)>> ELSE IF hash = None THEN <<compact_size(0)>> ELSE <<Slice(<<Id(hash)>>)>>

object_serialize(o, include_key) ==
  (IF include_key THEN <<Id(o.key)>> ELSE <<>>) \o <<var_int(o.version), Slice(o.data)>>

\* With the key given, a last byte is an object of that version and no data.
object_deserialize(r, key) ==
  LET keyed == IF key = None THEN Take(r, "id") ELSE Then(r, LAMBDA s : [s EXCEPT !.got = Append(@, key)])
      bare(v) == key # None /\ v.rest = <<>> /\ Len(Head(r.rest)[2]) = 1
      made(rest, v, d) == [rest |-> rest, got |-> Append(r.got, VdxfObject(v.got[Len(r.got) + 1], Got(v), d))]
  IN Then(read_var_int(keyed), LAMBDA v :
       IF bare(v) THEN made(v.rest, v, <<>>)
       ELSE Then(Take(v, "slice"), LAMBDA data : made(data.rest, v, Got(data))))

-----------------------------------------------------------------------------
(***************************************************************************)
(* The details of an invoice.  amount and destination are Open, or what is *)
(* asked: a number; [sapling] or a transfer destination.                   *)
(***************************************************************************)
Open == None
Versions34 == {3, 4}
V4Only == {"IS_PRECONVERT", "DESTINATION_IS_SAPLING", "IS_TAGGED"}
KnownFlags == V4Only \cup {"VALID", "ACCEPTS_CONVERSION", "ACCEPTS_NON_VERUS_SYSTEMS", "EXPIRES", "ACCEPTS_ANY_DESTINATION",
                           "ACCEPTS_ANY_AMOUNT", "EXCLUDES_VERUS_BLOCKCHAIN", "IS_TESTNET"}

\* VerusPayInvoiceDetails::new, nothing else asked.
Details(amount, destination, currency) ==
  [amount |-> amount, destination |-> destination, requested_currency |-> currency, expiry_height |-> None,
   max_estimated_slippage |-> None, accepted_systems |-> <<>>, excludes_verus_blockchain |-> FALSE,
   is_testnet |-> FALSE, is_preconvert |-> FALSE]

Sapling(address) == [sapling |-> address]
IsSapling(destination) == destination # Open /\ "sapling" \in DOMAIN destination

\* RequestedAmount, InvoiceDestination and the options, as bits.
flags_of(d, version) ==
  LET when(cond, flag) == IF cond THEN {flag} ELSE {}
      flags == {"VALID"} \cup when(d.max_estimated_slippage # None, "ACCEPTS_CONVERSION")
               \cup when(d.accepted_systems # <<>>, "ACCEPTS_NON_VERUS_SYSTEMS") \cup when(d.expiry_height # None, "EXPIRES")
               \cup when(d.destination = Open, "ACCEPTS_ANY_DESTINATION") \cup when(d.amount = Open, "ACCEPTS_ANY_AMOUNT")
               \cup when(d.excludes_verus_blockchain, "EXCLUDES_VERUS_BLOCKCHAIN") \cup when(d.is_testnet, "IS_TESTNET")
               \cup when(d.is_preconvert, "IS_PRECONVERT") \cup when(IsSapling(d.destination), "DESTINATION_IS_SAPLING")
  IN IF version < 4 /\ flags \cap V4Only # {} THEN Refused ELSE flags

FlagsTag(version) == IF version < 4 THEN "flags3" ELSE "flags4"
write_var_uint(version, n) == IF version < 4 THEN var_int(n) ELSE compact_size(n)
read_var_uint(r, version)  == IF version < 4 THEN read_var_int(r) ELSE read_compact_size(r)

Optional(value, words) == IF value = None THEN <<>> ELSE words

DestinationWords(destination) ==
  IF destination = Open THEN <<>>
  ELSE IF IsSapling(destination) THEN <<<<"sapling", destination.sapling>>>>
  ELSE destination_serialize(destination)

details_serialize(d, version) ==
  IF flags_of(d, version) = Refused THEN Refused
  ELSE Joined(<<<<<<FlagsTag(version), flags_of(d, version)>>>>,
         Optional(d.amount, <<write_var_uint(version, d.amount)>>),
         DestinationWords(d.destination),
         <<Id(d.requested_currency)>>,
         Optional(d.expiry_height, <<write_var_uint(version, d.expiry_height)>>),
         Optional(d.max_estimated_slippage, <<write_var_uint(version, d.max_estimated_slippage)>>),
         IF d.accepted_systems = <<>> THEN <<>>
         ELSE <<compact_size(Len(d.accepted_systems))>> \o [i \in DOMAIN d.accepted_systems |-> Id(d.accepted_systems[i])]>>)

\* What the flags must not be, one by one.
BadFlags(flags, version) ==
  \/ ~(flags \subseteq KnownFlags) \/ "VALID" \notin flags
  \/ version < 4 /\ flags \cap V4Only # {}
  \/ {"ACCEPTS_ANY_DESTINATION", "DESTINATION_IS_SAPLING"} \subseteq flags
  \/ "IS_TAGGED" \in flags

\* What Reader gets, if the flag is set; None otherwise.
If(r, set, Reader(_)) == Then(r, LAMBDA s : IF set THEN Reader(s) ELSE [s EXCEPT !.got = Append(@, None)])

ReadDestination(r, flags) ==
  IF "DESTINATION_IS_SAPLING" \in flags THEN Take(r, "sapling")
  ELSE If(r, "ACCEPTS_ANY_DESTINATION" \notin flags, destination_deserialize)
ReadSystems(r) == Many(Bounded(read_compact_size(r)), LAMBDA i : Take(i, "id"))
DetailsWords(start, flags, version) ==
  LET number(s) == read_var_uint(s, version)
      target == ReadDestination(If(start, "ACCEPTS_ANY_AMOUNT" \notin flags, number), flags)
      expiry == If(Take(target, "id"), "EXPIRES" \in flags, number)
  IN If(If(expiry, "ACCEPTS_CONVERSION" \in flags, number), "ACCEPTS_NON_VERUS_SYSTEMS" \in flags, ReadSystems)

DetailsOf(flags, got) ==
  [amount |-> got[1], destination |-> IF "DESTINATION_IS_SAPLING" \in flags THEN Sapling(got[2]) ELSE got[2],
   requested_currency |-> got[3], expiry_height |-> got[4], max_estimated_slippage |-> got[5],
   accepted_systems |-> IF got[6] = None THEN <<>> ELSE Singles(got[6]),
   excludes_verus_blockchain |-> "EXCLUDES_VERUS_BLOCKCHAIN" \in flags, is_testnet |-> "IS_TESTNET" \in flags,
   is_preconvert |-> "IS_PRECONVERT" \in flags]

details_deserialize(r, version) ==
  Then(Take(r, FlagsTag(version)), LAMBDA start :
    IF BadFlags(Got(start), version) THEN Refused
    ELSE Then(DetailsWords(Reading(start.rest), Got(start), version), LAMBDA all :
           IF all.got[6] = <<>> THEN Refused
           ELSE [rest |-> all.rest, got |-> Append(r.got, DetailsOf(Got(start), all.got))]))

\* The address a transparent destination shows; none for a bare key.
recipient_address(destination) ==
  IF destination = Open \/ IsSapling(destination) THEN None
  ELSE IF destination.recipient.kind = "PubKey" THEN None ELSE destination.recipient

-----------------------------------------------------------------------------
(***************************************************************************)
(* The invoice: [version, signature, details], signature None or           *)
(* [system_id, signing_id, signature].                                     *)
(***************************************************************************)
signature_words(s) ==
  Hash160Words(s.system_id, FALSE) \o Hash160Words(s.signing_id, FALSE)
  \o object_serialize(VdxfObject(AUTH_SIG_KEY, 1, s.signature), FALSE)

\* Of version 1 only.
signature_deserialize(r) ==
  Then(object_deserialize(Take(Take(r, "id"), "id"), AUTH_SIG_KEY), LAMBDA object :
    IF Got(object).version # 1 THEN Refused
    ELSE [rest |-> object.rest, got |-> Append(r.got,
           [system_id |-> object.got[Len(r.got) + 1], signing_id |-> object.got[Len(r.got) + 2],
            signature |-> Got(object).data])])

serialized_version(i) == i.version + (IF i.signature = None THEN 0 ELSE SIGNED_BIT)

to_data_buffer(i) ==
  Joined(<<IF i.signature = None THEN <<>> ELSE signature_words(i.signature), details_serialize(i.details, i.version)>>)

to_vdxf_object(i) == Then(to_data_buffer(i), LAMBDA data : VdxfObject(INVOICE_KEY, serialized_version(i), data))

from_vdxf_object(o) ==
  LET signed  == o.version \geq SIGNED_BIT
      version == IF signed THEN o.version - SIGNED_BIT ELSE o.version
      signature == IF signed THEN signature_deserialize(Reading(o.data)) ELSE [rest |-> o.data, got |-> <<None>>]
  IN IF o.key # INVOICE_KEY \/ version \notin Versions34 THEN Refused
     ELSE Then(details_deserialize(signature, version), LAMBDA details :
            IF AtEnd(details) THEN [version |-> version, signature |-> details.got[1], details |-> details.got[2]] ELSE Refused)

\* Mutant: the system the signature is of is left out of what is signed.
details_hash_AnySystem(i, height, signature_version) ==
  IF i.signature = None THEN <<"sha256", details_serialize(i.details, i.version)>>
  ELSE <<"sha256", <<height, i.signature.signing_id, "prefix", details_serialize(i.details, i.version)>>>>

\* What a signature is of; the first version starts with the prefix.
details_hash(i, height, signature_version) ==
  IF i.signature = None THEN <<"sha256", details_serialize(i.details, i.version)>>
  ELSE LET signed == <<i.signature.system_id, height, i.signature.signing_id>>
           details == <<"sha256", details_serialize(i.details, i.version)>>
       IN <<"sha256", IF signature_version = 1 THEN <<"prefix">> \o signed \o <<details>> ELSE signed \o <<"prefix", details>>>>

\* A text: the words its bytes are, after a link's scheme and key, or nothing.
to_qr_string(i) == Then(to_vdxf_object(i), LAMBDA o : [before |-> <<>>, words |-> object_serialize(o, TRUE)])
Scheme == <<WALLET_KEY, INVOICE_KEY>>
to_wallet_deeplink_uri(i) == Then(to_vdxf_object(i), LAMBDA o : [before |-> Scheme, words |-> object_serialize(o, FALSE)])

\* from_base64url: one object, and nothing after it.
ObjectOf(words, key) ==
  Then(object_deserialize(Reading(words), key), LAMBDA o : IF AtEnd(o) THEN Got(o) ELSE Refused)
InvoiceOf(object) == Then(object, from_vdxf_object)

from_qr_string(text) == IF text.before # <<>> THEN Refused ELSE InvoiceOf(ObjectOf(text.words, None))
from_wallet_deeplink_uri(text) == IF text.before # Scheme THEN Refused ELSE InvoiceOf(ObjectOf(text.words, INVOICE_KEY))
=============================================================================
