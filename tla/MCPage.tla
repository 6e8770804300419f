------------------------------- MODULE MCPage -------------------------------
(* Two examples of everything a page may say, and requests that differ in one. *)
EXTENDS Page, TLC

Utxo(txid, vout, satoshis, script) ==
  Object([txid |-> Text(txid), vout |-> Num(vout), satoshis |-> Text(satoshis), scriptPubKey |-> Text(script)])
UtxoLists == { List(<<Utxo("h1", 0, "10", "aa")>>), List(<<Utxo("h2", 0, "10", "aa")>>),
               List(<<Utxo("h1", 1, "10", "aa")>>), List(<<Utxo("h1", 0, "20", "aa")>>),
               List(<<Utxo("h1", 0, "10", "bb")>>), List(<<Utxo("h1", 0, "10", "aa"), Utxo("h2", 0, "10", "aa")>>) }

RecipientLists(method) ==
  { List(<<Object(("address" :> Text(a)) @@ (IF method = "send" THEN ("satoshis" :> Text(s))
                   ELSE ("amount" :> Text(s) @@ "currency" :> Text(c))))>>) :
      <<a, s, c>> \in {"R1", "i1"} \X {"10", "20"} \X (IF method = "send" THEN {"i1"} ELSE {"i1", "i2"}) }

Preallocations == { List(<<>>),
  List(<<Object([recipient |-> Text("i1"), amount |-> Text("10")])>>),
  List(<<Object([recipient |-> Text("i2"), amount |-> Text("10")])>>),
  List(<<Object([recipient |-> Text("i1"), amount |-> Text("20")])>>) }

\* Of a basket of two reserves.
Definition(full) ==
  IF ~full THEN [name |-> Text("name"), parent |-> Text("i1"), kind |-> Text("token"), startBlock |-> Num(1)]
  ELSE [name |-> Text("name"), parent |-> Text("i1"), kind |-> Text("fractional"), startBlock |-> Num(1),
        endBlock |-> Num(9), initialSupply |-> Text("10"), proofProtocol |-> Num(2),
        currencies |-> List(<<Text("i1"), Text("i2")>>), weights |-> List(<<Text("10"), Text("20")>>),
        minPreconversion |-> List(<<Text("10"), Text("10")>>), maxPreconversion |-> List(<<Text("20"), Text("20")>>),
        preallocations |-> List(<<>>), idRegistrationFees |-> Text("10"), idReferralLevels |-> Num(1),
        idImportFees |-> Text("10")]
Definitions(full) ==
  LET d == Definition(full)
      others(f) ==
        CASE f = "name" -> {Text("other")} [] f = "parent" -> {Text("i2")}
          [] f \in {"startBlock", "endBlock"} -> {Num(3)} [] f \in {"idReferralLevels"} -> {Num(2)}
          [] f \in {"initialSupply", "idRegistrationFees", "idImportFees"} -> {Text("20")}
          [] f = "currencies" -> {List(<<Text("i2"), Text("i1")>>)}
          [] f = "weights" -> {List(<<Text("20"), Text("10")>>)}
          [] f \in {"minPreconversion", "maxPreconversion"} -> {List(<<Text("10"), Text("20")>>), List(<<>>)}
          [] f = "preallocations" -> Preallocations [] f = "proofProtocol" -> {Num(1)} [] OTHER -> {}
  IN {Object(d)} \cup UNION {{Object([d EXCEPT ![f] = v]) : v \in others(f)} : f \in DOMAIN d}

Pending(state, p) ==
  Object([state |-> Text(state), name |-> Text("name"), registrationFee |-> Text("10"),
          commitmentHex |-> Text("aa"), commitmentTxid |-> Text("h1"), pending |-> Text(p)])
StepOf(method) == IF method = "plan_registration_complete" THEN "readyToRegister" ELSE "awaitingCommitment"

\* What a field may say, the first of it first.
Examples(method, f, full) ==
  CASE f = "utxos" \/ f = "tokenUtxos" \/ f = "tokenFunding" -> UtxoLists
    [] f = "recipients" -> RecipientLists(method)
    [] f \in {"addresses", "primaryAddresses"} -> {List(<<Text("R1")>>), List(<<Text("R1"), Text("i1")>>)}
    [] f = "values" -> {List(<<Text("aa")>>), List(<<Text("bb")>>), List(<<Text("aa"), Text("bb")>>), List(<<>>)}
    [] f = "expiryHeight" -> {Num(1), Num(EXPIRY_HEIGHT_THRESHOLD - 1), Num(EXPIRY_HEIGHT_THRESHOLD)}
    \* A signature of height 1 is within this age of 2, and of nothing else said here.
    [] f = "currentHeight" -> {Num(2), Num(3)}
    [] f = "maxAgeBlocks" -> {Num(1), Num(0)}
    [] f \in {"startHeight", "endHeight", "maxFutureBlocks", "minSigs", "blockHeight", "minimumSignatures"} ->
         {Num(1), Num(2)}
    [] f \in {"isCurrency", "withOfferBytes"} -> {Bool(TRUE), Bool(FALSE)}
    [] f \in {"signature", "existing"} -> {Text("sig1"), Text("sig2")}
    [] f = "salt" -> {Text("h1"), Text("h2")}
    [] f = "kind" -> IF full THEN {Text("reserveToReserve")} ELSE {Text("intoFractional"), Text("intoReserve"), Text("preconvert")}
    [] f \in {"satoshis", "amount", "fee", "feePerKb", "minExpected", "pinFee", "pinLaunchFee"} -> {Text("10"), Text("20")}
    [] f \in {"key", "currency", "systemId", "into", "via", "chainCurrency", "feeCurrency", "from"} -> {Text("i1"), Text("i2")}
    [] f \in {"recipient", "changeAddress", "refund"} -> {Text("R1"), Text("R2")}
    [] f = "identity" -> {Text("i1"), Text("i2")}
    [] f = "definition" -> Definitions(full)
    [] f = "pending" -> {Pending(StepOf(method), "pending1"), Pending(StepOf(method), "pending2")}
    [] OTHER -> {Text("this"), Text("that")}

Said(method, full) ==
  LET shape == Requests[method]
  IN {f \in DOMAIN shape : full \/ ~shape[f].optional}

Base(method, full) ==
  [f \in Said(method, full) |-> CASE f = "definition" -> Object(Definition(full))
                                 [] f = "maxAgeBlocks" -> Num(1)
                                 [] OTHER -> CHOOSE v \in Examples(method, f, full) : TRUE]

ReplyTexts == [about : {"reply"}, text : [one : 0..13, two : 0..6, three : 0..5, four : 0..4]]

\* Requests that differ in one field, and ones with a field that is inherited.
PairsAt(m, full, f) ==
  {[about |-> "said", method |-> m, object |-> Object(Base(m, full)),
    other |-> Object([Base(m, full) EXCEPT ![f] = v])] : v \in Examples(m, f, full)}

Inheriting(m, lent, prototype) ==
  [about |-> "inherited", method |-> m,
   object |-> [Object([f \in Said(m, TRUE) \ {lent} |-> Base(m, TRUE)[f]]) EXCEPT
                 !.prototype = prototype, !.inherited = (lent :> IF lent = "toString" THEN Text("function") ELSE Base(m, TRUE)[lent])]]

IsPageCase(case) ==
  \/ \E m \in DOMAIN Requests, full \in BOOLEAN : \E f \in Said(m, full) : case \in PairsAt(m, full, f)
  \/ \E m \in DOMAIN Requests, prototype \in {"plain", "other"} : \E lent \in DOMAIN Requests[m] \cup {"toString"} :
       case = Inheriting(m, lent, prototype)
  \/ case \in ReplyTexts

=============================================================================
