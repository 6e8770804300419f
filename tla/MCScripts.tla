------------------------------ MODULE MCScripts -----------------------------
(* Every script the library writes of small parts, those the node writes,   *)
(* and scripts, identities and transactions with a word of them altered.     *)
EXTENDS VerusPay, TLC

Hashes == {"h1", "h2"}
Dests  == [kind : {"PubKeyHash", "PubKey", "ScriptHash", "Identity"}, of : {"h1"}] \cup {To("Identity", "h2")}

\* One word of a sequence replaced, dropped or added.
Altered(words, pool) ==
  { [words EXCEPT ![i] = w] : i \in DOMAIN words, w \in pool }
  \cup { SubSeq(words, 1, i - 1) \o SubSeq(words, i + 1, Len(words)) : i \in DOMAIN words }
  \cup { Append(words, w) : w \in pool }

-----------------------------------------------------------------------------
\* What is written, and what reading it is to give.
Gateways == {None} \cup [gateway : {"h1"}, code : {"h2"}, fees : {0, I64Max, I64Max + 1}]
Targets  == [recipient : Dests, auxiliary : {<<>>, <<To("Identity", "h2")>>, <<To("PubKey", "h1"), To("PubKeyHash", "h2")>>},
             gateway : Gateways]
            \cup {converting(To("PubKeyHash", "h1")), plain(To("Identity", "h2")),
                  converting_with_refund(To("Identity", "h1"), To("PubKeyHash", "h2"))}
Kinds    == [name : {"IntoFractional", "Preconvert", "Mint", "IntoReserve", "ReserveToReserve", "Contribution"},
             of : {"basket"}, target : {"other"}] \cup {[name |-> "Burn"]}
Amounts  == {1, Base, U64Max}

TransferRead(t) ==
  [kind |-> "ReserveTransfer", destination |-> To("PubKeyHash", ReserveHolder), tokens |-> <<<<t.source, t.amount>>>>,
   transfer |-> [tokens |-> <<<<t.source, t.amount>>>>, flags |-> kind_flags(t.kind), fee_currency |-> t.fee_currency,
                 fees |-> t.fee, destination |-> t.destination,
                 destination_currency |-> destination_currency(t.kind, t.source),
                 second_reserve |-> IF t.kind.name = "ReserveToReserve" THEN t.kind.target ELSE None,
                 destination_system |-> None]]

Maps == {<<>>, <<<<"h1", <<<<Fixed(2)>>, <<>>>>>>>>}
Identity(version, primaries, maps, flags, until) ==
  [version |-> version, flags |-> flags, primary_addresses |-> primaries, min_sigs |-> 1, parent |-> "p",
   name |-> <<Fixed(1)>>, content_multimap |-> maps, content_map |-> <<<<"h1", 12>>>>,
   revocation_authority |-> "h1", recovery_authority |-> "h2", private_addresses |-> <<"z">>,
   system_id |-> IF version < 2 THEN "p" ELSE "sys", unlock_after |-> until]
IdentityCases == { Identity(v, ps, IF v < 3 THEN <<>> ELSE m, 0, IF v < 2 THEN 0 ELSE u) :
                  v \in Versions, ps \in {<<>>, <<To("PubKeyHash", "h1")>>, <<To("PubKey", "h1"), To("PubKeyHash", "h2")>>},
                  m \in Maps, u \in {0, 7} }

Written ==
  { [words |-> p2pkh_script("h1"), read |-> [kind |-> "PubKeyHash", hash |-> "h1"], fits |-> TRUE],
    [words |-> <<<<"p2pk", "k1">>>>, read |-> [kind |-> "PubKey", pubkey |-> "k1", hash |-> hash160("k1")], fits |-> TRUE],
    [words |-> identity_payment_script("h1"), read |-> [kind |-> "IdentityPayment", identity |-> "h1"], fits |-> TRUE] }
  \cup { [words |-> reserve_output_script_to(d, "c1", a), fits |-> TRUE,
          read |-> [kind |-> "ReserveOutput", destination |-> d, tokens |-> <<<<"c1", a>>>>]] : d \in Dests, a \in Amounts }
  \cup { [words |-> identity_primary_script("h1", identity_to_bytes(i), "h1", "h2", t), fits |-> TRUE,
          read |-> [kind |-> "IdentityPrimary", identity |-> i]] : i \in IdentityCases, t \in BOOLEAN }
  \cup { [words |-> to_script(t), read |-> TransferRead(t),
          fits |-> t.destination.gateway = None \/ t.destination.gateway.fees \leq I64Max] :
           t \in [source : {"c1"}, amount : Amounts, kind : Kinds, fee_currency : {"c2"}, fee : {0, Base}, destination : Targets] }

-----------------------------------------------------------------------------
\* What the node writes, tokens in all the ways there are.
MapOf(tokens) == <<<<"token version", [base |-> 1, multi |-> TRUE]>>, compact_size(Len(tokens))>>
                 \o FlattenSeq([i \in DOMAIN tokens |-> <<Id(tokens[i][1]), Fixed(tokens[i][2])>>])
TokenLists == {<<<<"c1", 3>>>>, <<<<"c1", 3>>, <<"c2", 5>>>>, <<<<"c1", 3>>, <<"c1", 5>>>>}
Payloads(tokens) == {MapOf(tokens)} \cup (IF Len(tokens) = 1 THEN {token_output(tokens[1][1], tokens[1][2])} ELSE {})
Hash(advanced) == <<<<"commitment", [hash |-> "x", advanced |-> advanced]>>>>
Holding(eval_code, payload) ==
  CASE eval_code = "RESERVE_DEPOSIT" -> payload \o <<Id("basket")>>
    [] eval_code = "IDENTITY_COMMITMENT" -> Hash(TRUE) \o payload
    [] eval_code = "RESERVE_TRANSFER" ->
         payload \o <<<<"flags", {"VALID"}>>, Id("c2"), var_int(0)>> \o destination_serialize(plain(To("PubKeyHash", "h1")))
         \o <<Id("basket")>>
    [] OTHER -> payload
Pushed(eval_code, dests, vdata) == cc_script(one_of_one("NONE", To("PubKeyHash", "h1")), Params(eval_code, 1, dests, vdata))
Pool == {Fixed(0), Id("h1"), compact_size(1), <<"size", <<2, 1>>>>, <<"push", <<Id("h1")>>, 1>>, <<"push", <<>>, 0>>}

\* Each holds tokens: all of them, and the eval code that says so.
Holders ==
  { [tokens |-> ts, eval_code |-> e, words |-> Pushed(e, ds, <<Holding(e, p)>>)] :
      <<ts, e, ds, p>> \in UNION { {ts} \X CurrencyCarriers \X {<<>>, <<To("Identity", "h1")>>, <<To("PubKeyHash", "h1"), To("Identity", "h2")>>}
                                  \X Payloads(ts) : ts \in TokenLists } }
  \cup { [tokens |-> ts \o <<<<"c3", 7>>>>, eval_code |-> e, words |-> Pushed(e, <<To("Identity", "h1")>>, <<Holding(e, p), token_output("c3", 7)>>)] :
           <<ts, e, p>> \in UNION { {ts} \X CurrencyCarriers \X Payloads(ts) : ts \in TokenLists } }
  \cup { [tokens |-> <<<<"c1", 3>>>>, eval_code |-> "IDENTITY_COMMITMENT",
          words |-> Pushed("IDENTITY_COMMITMENT", <<To("Identity", "h1")>>, <<Hash(FALSE) \o MapOf(<<<<"c1", 3>>>>)>>)] }

\* Any script of a condition, a word of its pushes altered.
AlteredScripts ==
  UNION { { Pushed(e, <<To("Identity", "h1")>>, <<w>>) : w \in Altered(Holding(e, MapOf(<<<<"c1", 3>>>>)), Pool) } :
            e \in CurrencyCarriers \cup {"NONE", "IDENTITY_PRIMARY"} }
  \cup UNION { Altered(h.words, Pool) : h \in {h \in Holders : h.tokens = <<<<"c1", 3>>>>} }
AlteredIdentities ==
  UNION { Altered(identity_to_bytes(i), Pool) : i \in IdentityCases }

-----------------------------------------------------------------------------
Transactions ==
  { [inputs |-> [i \in 1..n |-> [txid |-> "t", vout |-> i, script_sig |-> s, sequence |-> 9]],
     outputs |-> IF n = 2 THEN <<[value |-> 5, script_pubkey |-> p2pkh_script("h1")]>> ELSE <<>>,
     lock_time |-> 0, expiry_height |-> 7, value_balance |-> 0,
     spends |-> [i \in 1..k |-> [body |-> "b", sig |-> sig]], shielded_outputs |-> [i \in 1..m |-> "d"],
     binding_sig |-> bound] :
      n \in {1, 2}, s \in {<<>>, fulfillment_script_sig(<<"s1">>, 1)}, k \in {0, 1}, m \in {0, 1}, sig \in {3, Refused},
      bound \in {4, Refused} }
TxWords == { w \in { serialize(tx) : tx \in Transactions } : w # Refused }
TxPool  == Pool \cup {compact_size(0), compact_size(2), Slice(<<>>), <<"header", "v5">>, <<"spend", "b">>, <<"output", "d">>}
DigitRuns == UNION { [1..n -> [digit : 0..(Base - 1), more : BOOLEAN]] : n \in 1..3 }
WellFormedRuns == { ds \in DigitRuns : \A i \in DOMAIN ds : ds[i].more = (i < Len(ds)) }
                  \cup { Append(ds, d) : ds \in { ds \in DigitRuns : Len(ds) = 3 /\ \A i \in DOMAIN ds : ds[i].more },
                         d \in [digit : 0..(Base - 1), more : {FALSE}] }

-----------------------------------------------------------------------------
InvoiceTargets == {Open, Sapling("z"), plain(To("PubKey", "h1")), converting(To("Identity", "h2")),
                   [plain(To("PubKeyHash", "h1")) EXCEPT !.gateway = [gateway |-> "h1", code |-> "h2", fees |-> I64Max + 1]]}
DetailsAsked ==
  { [Details(a, d, c) EXCEPT !.expiry_height = e, !.max_estimated_slippage = s, !.accepted_systems = l, !.is_testnet = t,
                             !.excludes_verus_blockchain = x, !.is_preconvert = p] :
      <<a, d, c, e, s, l, t, x, p>> \in {Open, Base} \X InvoiceTargets \X {"c1", "c2"} \X {None, 3} \X {None, 1} \X {<<>>, <<"c1">>}
                                     \X {FALSE} \X BOOLEAN \X BOOLEAN }
Signatures == {None} \cup [system_id : {"c1", "c2"}, signing_id : {"i1", "i2"}, signature : {<<>>, <<Fixed(9)>>}]
Invoices == { [version |-> v, signature |-> s, details |-> d] : <<v, s, d>> \in Versions34 \X {None, [system_id |-> "c1", signing_id |-> "i1", signature |-> <<Fixed(9)>>]} \X DetailsAsked }
            \cup { [version |-> 4, signature |-> s, details |-> Details(7, Open, "c1")] : s \in Signatures }
Plain34  == { i \in Invoices : i.details.amount # Open /\ i.details.requested_currency = "c1" /\ i.details.expiry_height = 3
                               /\ i.details.accepted_systems # <<>> /\ to_data_buffer(i) # Refused }
InvoicePool == {Fixed(0), Id("c2"), var_int(5), compact_size(5), compact_size(1), <<"flags4", {"VALID", "ACCEPTS_ANY_AMOUNT"}>>}
Signable(v) == { i \in Invoices : i.version = v /\ i.signature # None /\ i.details.destination = Open
                                   /\ ~i.details.is_preconvert /\ ~i.details.excludes_verus_blockchain }
Octets == UNION { [1..n -> {0, 1, 127, 255}] : n \in 0..4 }
Texts  == UNION { [1..n -> {0, 1, 4, 16, 63, 64}] : n \in 0..4 }

IsScriptCase(case) ==
  \/ \E i \in Invoices : case = [about |-> "invoice", of |-> i]
  \/ \E i \in Plain34 : \E w \in Altered(to_data_buffer(i), InvoicePool), k \in {INVOICE_KEY, AUTH_SIG_KEY}, v \in 3..5, b \in BOOLEAN :
       case = [about |-> "object", of |-> VdxfObject(k, v + (IF b THEN SIGNED_BIT ELSE 0), w)]
  \/ \E v \in Versions34 : \E i, j \in Signable(v), h, g \in {4, 5}, s, t \in {1, 2} :
       case = [about |-> "hashes", of |-> <<i, j>>, at |-> <<h, g>>, by |-> <<s, t>>]
  \/ \E bytes \in Octets : case = [about |-> "text", bytes |-> bytes, text |-> <<>>]
  \/ \E text \in Texts : case = [about |-> "text", bytes |-> <<>>, text |-> text]
  \/ \E n \in 0..U64Max : case = [about |-> "number", n |-> n, digits |-> <<[digit |-> 0, more |-> FALSE]>>]
  \/ \E digits \in WellFormedRuns : case = [about |-> "number", n |-> 0, digits |-> digits]
  \/ \E w \in Written : case = [about |-> "written", of |-> w]
  \/ \E h \in Holders : case = [about |-> "holder", of |-> h]
  \/ \E w \in AlteredScripts : case = [about |-> "script", words |-> w]
  \/ \E w \in AlteredIdentities : case = [about |-> "identity", words |-> w]
  \/ \E tx \in Transactions : case = [about |-> "tx", tx |-> tx]
  \/ \E w \in UNION { Altered(v, TxPool) : v \in TxWords } : case = [about |-> "bytes", words |-> w]

-----------------------------------------------------------------------------
\* What the library writes, it reads back as what it was asked to write.
WhatIsBuiltIsRead(case) ==
  /\ case.about = "number" => NumbersAreWrittenOnce(case.n, case.digits)
  /\ case.about = "written" =>
       /\ case.of.words # Refused <=> case.of.fits
       /\ case.of.fits => decode_output_script(case.of.words) = case.of.read
  /\ case.about = "text" => TextIsOneRunOfBytes(case.bytes, case.text)
  /\ case.about = "invoice" =>
       LET i == case.of
           expected == IF (i.version = 3 => flags_of(i.details, 4) \cap V4Only = {})
                          /\ DestinationWords(i.details.destination) # Refused THEN i ELSE Refused
       IN /\ to_qr_string(i) # Refused <=> expected # Refused
          /\ Then(to_qr_string(i), from_qr_string) = expected
          /\ Then(to_wallet_deeplink_uri(i), from_wallet_deeplink_uri) = expected
  /\ case.about = "tx" => IfGot(serialize(case.tx), LAMBDA words :
       /\ deserialize(words) = IF is_shielded(case.tx) THEN case.tx ELSE [case.tx EXCEPT !.binding_sig = Refused]
       /\ IfGot(decode_tx(words), LAMBDA shown :
            /\ shown.shielded = is_shielded(case.tx)
            /\ [i \in DOMAIN shown.outputs |-> shown.outputs[i].satoshis] = [i \in DOMAIN case.tx.outputs |-> case.tx.outputs[i].value]))

\* What is read, however it was written, is what it says again when written.
WhatIsReadIsWritten(case) ==
  /\ case.about = "bytes" => BytesAreOneTransaction(case.words)
  /\ case.about = "object" => IfGot(from_vdxf_object(case.of), LAMBDA i : InvoiceOf(to_vdxf_object(i)) = i)
  /\ case.about = "identity" =>
       IfGot(identity_from_bytes(case.words), LAMBDA i : identity_from_bytes(identity_to_bytes(i)) = i)

\* An output that holds tokens is refused, shown with all of them, or shown
\* as one that may hold some.
NoTokensAreOverlooked(case) ==
  case.about = "holder" =>
    LET shown == decode(case.of.words)
    IN \/ shown = Refused
       \/ shown.kind = "UnsupportedCryptoCondition" /\ shown.may_carry_currency
       \/ shown.kind # "UnsupportedCryptoCondition" /\ shown.tokens = case.of.tokens

\* Two signatures are of one hash only if they are of one system, signer,
\* height and scheme, and of the same details.
SignaturesCoverInvoices(case) ==
  case.about = "hashes" =>
    LET i == case.of[1]  j == case.of[2]
    IN details_hash(i, case.at[1], case.by[1]) = details_hash(j, case.at[2], case.by[2]) =>
         /\ case.at[1] = case.at[2] /\ case.by[1] = case.by[2] /\ i.details = j.details
         /\ [i.signature EXCEPT !.signature = <<>>] = [j.signature EXCEPT !.signature = <<>>]
=============================================================================
