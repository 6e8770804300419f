-------------------------------- MODULE Rpc --------------------------------
(***************************************************************************)
(* What a client makes of a node's replies: src/crates/verus-rpc           *)
(* (envelope.rs, client.rs, types.rs, error.rs, second_source.rs), and the *)
(* readings of verus-flows/src/error.rs.                                   *)
(*                                                                         *)
(* A reply is a transport failure, a body that is no answer, an error with *)
(* a code, a null, or a result.  The client turns each into a value or an  *)
(* error, and a list into one only after it checked every row.             *)
(***************************************************************************)
EXTENDS Integers, Sequences, FiniteSets

Ok(value)  == [ok |-> TRUE, value |-> value]
Err(error) == [ok |-> FALSE, error |-> error]

Failed(code)   == [kind |-> "error", code |-> code]
Result(value)  == [kind |-> "result", body |-> value]
Unanswered     == [kind |-> "transport"]

MethodNotFound == -32601
NotFound       == -5

Node(code) == [node |-> code]
NotANodeError == 0

\* Only a node's own error has a code: a transport failure, a malformed body,
\* a missing result and a null one are errors of other kinds, and so is the
\* refusal of a method.
result_of(reply) ==
  CASE reply.kind = "error" /\ reply.code # MethodNotFound -> Err(Node(reply.code))
    [] reply.kind = "result"                               -> Ok(reply.body)
    [] OTHER                                               -> Err(Node(NotANodeError))

\* Mutant: the preferred arguments only.
call_probing_First(replies) == result_of(replies[1])

\* call_probing: the same question with other arguments, as long as the answer
\* is that the method is not there; the last refusal is the outcome.
call_probing(replies) ==
  LET settled == {i \in DOMAIN replies : replies[i] # Failed(MethodNotFound)}
  IN IF settled = {} THEN result_of(replies[Len(replies)])
     ELSE result_of(replies[CHOOSE i \in settled : \A j \in settled : i \leq j])

-----------------------------------------------------------------------------
(***************************************************************************)
(* What is read of a reply.  A row lacks fields and has illegible ones: of *)
(* another type, out of range, not a hash, an amount that cannot be read   *)
(* exactly.  A field that is not read may be anything.                     *)
(***************************************************************************)
Shape(required, optional) == [required |-> required, optional |-> optional]

RawAddressUtxo    == Shape({"address", "txid", "outputIndex", "script", "satoshis", "height"},
                           {"isspendable"})
RawAddressBalance == Shape({"balance", "received"}, {"currencybalance"})
RawAddressDelta   == Shape({"address", "txid", "height", "satoshis"},
                           {"blocktime", "blockindex", "index", "currencyvalues", "spending"})
RawMempoolDelta   == Shape({"address", "txid", "satoshis"},
                           {"index", "currencyvalues", "spending", "prevtxid", "prevout", "timestamp"})
RawChainInfo      == Shape({"name", "chainid", "blocks", "longestchain", "VRSCversion"}, {})
RawCurrency       == Shape({"currencyid", "name", "idregistrationfees", "idreferrallevels",
                            "idimportfees"}, {"currencyregistrationfee", "proofprotocol"})
RawConversionEstimate == Shape({"estimatedcurrencyout"}, {})
RawIdentity       == Shape({"fullyqualifiedname", "status", "txid", "vout", "blockheight",
                            "identityaddress"}, {})
RawIdentityAtAddress == Shape({"identityaddress", "name", "txout.txid", "txout.voutnum"},
                              {"parent", "flags", "timelock"})
CurrencyStateAt   == Shape({"height", "blocktime", "currencystate"}, {})

\* A definition with no usable number is refused; only a parent may be absent.
summary_from_definition ==
  Shape({"currencyid", "name", "fullyqualifiedname", "systemid", "startblock", "endblock",
         "options", "proofprotocol"}, {"parent"})

\* The definition is under a key that is its own id; what is found under another
\* key does not say that it is that currency.
converter_from_entry ==
  Shape({"fullyqualifiedname", "height", "definition.currencyid", "definition.currencies"},
        {"lastnotarization"})

\* A side is of an identity, which has three texts, or of currencies, at least
\* one and each by its address.
RawOfferSide(side) ==
  IF "identityid" \in side.has THEN {"identityid", "name", "systemid"} \subseteq side.has
  ELSE side.has # {} /\ side.has \subseteq side.addresses

RawOfferEntry == Shape({"offer", "accept", "blockexpiry", "txid", "price"}, {"tx"})

\* Values are hex or objects, one or a list; the content map holds hashes.
identity_content   == Shape(RawIdentity.required, {"contentmap", "contentmultimap"})
identity_registration == Shape({"history[0].output.txid"}, {})
vdxf_id            == Shape({"hash160result"}, {})

into_typed(row, shape) ==
  /\ row.illegible \cap (shape.required \cup shape.optional) = {}
  /\ row.missing \cap shape.required = {}

\* A call for one thing: any flaw refuses it.
Typed(answer, shape) ==
  IF answer.ok /\ ~into_typed(answer.value, shape) THEN Err(Node(NotANodeError)) ELSE answer

-----------------------------------------------------------------------------
(***************************************************************************)
(* Lists                                                                   *)
(***************************************************************************)
refuse_repeats(rows, id) == \A i, j \in DOMAIN rows : i # j => rows[i][id] # rows[j][id]

\* One row that cannot be read refuses the list.
Rows(answer, shape) ==
  IF answer.ok /\ \E i \in DOMAIN answer.value : ~into_typed(answer.value[i], shape)
  THEN Err(Node(NotANodeError)) ELSE answer

\* A row about an address that was not asked about, or one delivered twice,
\* refuses it too.
Checked(answer, addresses, id) ==
  IF ~answer.ok THEN answer
  ELSE IF /\ \A i \in DOMAIN answer.value : answer.value[i].address \in addresses
          /\ refuse_repeats(answer.value, id)
       THEN answer
       ELSE Err(Node(NotANodeError))

\* An outpoint once, whatever the address.
address_utxos(reply, addresses) ==
  Checked(Rows(result_of(reply), RawAddressUtxo), addresses, "outpoint")

\* A movement once for each address it is indexed under.
address_deltas(reply, addresses) ==
  Checked(Rows(result_of(reply), RawAddressDelta), addresses, "movement")

\* A spend names the output it spends, unless it moves nothing; a receipt
\* names none.
Consistent(row) ==
  \/ row.spending /\ row.spends # {}
  \/ row.spending /\ row.spends = {} /\ row.satoshis = 0
  \/ ~row.spending /\ row.spends = {}

address_mempool(reply, addresses) ==
  LET rows == Checked(Rows(result_of(reply), RawMempoolDelta), addresses, "movement") IN
  IF rows.ok /\ \E i \in DOMAIN rows.value : ~Consistent(rows.value[i])
  THEN Err(Node(NotANodeError)) ELSE rows

\* Currencies, converters and mempool ids: each named once.  Offers: each
\* funding transaction once in a bucket, and both sides legible.
Named(reply, shape, id) ==
  LET rows == Rows(result_of(reply), shape) IN
  IF rows.ok /\ ~refuse_repeats(rows.value, id) THEN Err(Node(NotANodeError)) ELSE rows

offers(reply) ==
  LET rows == Named(reply, RawOfferEntry, "listed") IN
  IF rows.ok /\ \E i \in DOMAIN rows.value :
       ~RawOfferSide(rows.value[i].offer) \/ ~RawOfferSide(rows.value[i].accept)
  THEN Err(Node(NotANodeError)) ELSE rows

-----------------------------------------------------------------------------
(***************************************************************************)
(* Absence                                                                 *)
(***************************************************************************)
Absent == "absent"

\* Mutant: whatever went wrong, there is no such thing.
absent_is_none_Always(answer) == IF answer.ok THEN answer ELSE Ok(Absent)

\* A node that says there is no such identity, and nothing else.
absent_is_none(answer) ==
  IF ~answer.ok /\ answer.error = Node(NotFound) THEN Ok(Absent) ELSE answer

\* confirmations: none of a transaction the node does not know, zero of one
\* that is in no block.
confirmations(answer) ==
  IF answer.ok THEN Ok(answer.value.confirmations) ELSE absent_is_none(answer)

\* agreed: both were asked; the first error of the two is the outcome.
agreed(primary, secondary) ==
  IF ~primary.ok THEN primary
  ELSE IF ~secondary.ok THEN secondary
  ELSE IF primary.value = secondary.value THEN primary
  ELSE Err(Node(NotANodeError))
=============================================================================
