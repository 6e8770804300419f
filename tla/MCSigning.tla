----------------------------- MODULE MCSigning -----------------------------
(***************************************************************************)
(* What is signed, and what a signature is of: transactions that are       *)
(* signed in several places, logins, data published under an identity, the *)
(* requests of a page, and the scripts and texts that travel.              *)
(*                                                                         *)
(* One of the parts runs; the variables of the others stay as they begin.  *)
(***************************************************************************)
EXTENDS CoSigning, Login, Vdxf, TLC

CONSTANTS alice, bob, corp, mallory, Refused

VARIABLES
  part,     \* "cosigning", "login", "publishing" or "cases"
  case      \* what is looked at, for "cases"

signingVars == <<vars, part, case, login_vars, vdxf_vars>>

-----------------------------------------------------------------------------
(***************************************************************************)
(* Two keys, which are a 2-of-2 identity.  Its coin is spent with one of   *)
(* bob's that pays the fee, and there is one output less than inputs.      *)
(***************************************************************************)
MCPrimary == [i \in {corp} |-> {alice, bob}]
MCMinimum == [i \in {corp} |-> 2]
In(outpoint, kind, owner, value) ==
  [outpoint |-> outpoint, kind |-> kind, owner |-> owner, value |-> value]
MCPlans == { [inputs  |-> <<In(1, "condition", corp, 5), In(2, "key", bob, 2)>>,
              outputs |-> <<[owner |-> bob, value |-> 5]>>, expiry |-> 9] }
MCHashTypes == { [base |-> "single", anyone_can_pay |-> TRUE] }

-----------------------------------------------------------------------------
(***************************************************************************)
(* An identity of both keys; of one of them alone; of the other, revoked;  *)
(* and a record no one can sign for.                                       *)
(***************************************************************************)
Record(primary, minimum, isRevoked) == [primary |-> primary, minimum |-> minimum, revoked |-> isRevoked]
LoginRecords == { Record({alice, bob}, 2, FALSE), Record({bob}, 1, FALSE),
                  Record({bob}, 1, TRUE), Record({alice}, 0, FALSE) }
LoginRequests == [audience : {"site", "other"}, challenge : {1}]

-----------------------------------------------------------------------------
\* Two publishers, two keys and values of no, one and two parts; and names of
\* up to three components, the chain's own and an empty one among them.
MCLower    == [c \in Components |-> CASE c = "A" -> "a" [] c = "VRSC" -> "vrsc" [] OTHER -> c]
MCContents == {<<>>, <<1>>, <<1, 2>>}

Namespace == hash_component("a", Nothing)
DataNames == UNION {[1..n -> Components] : n \in 1..3}
IsNameCase(c) ==
  \E a, b \in DataNames, at \in {<<"id", 1>>, Namespace} : c = [about |-> "names", of |-> <<a, b>>, at |-> at]

-----------------------------------------------------------------------------
HashOf(key) == <<"hash of", key>>
IdentityOf(name, parent) == <<"id of", name, parent>>
S == INSTANCE MCScripts WITH
  Base <- 4, U64Max <- 200, I64Max <- 100, SizeLimits <- <<3, 6, 9>>, MaxPush <- 40,
  ReserveHolder <- "holder", RecoverKeyHash <- "recover", hash160 <- HashOf, identity_id <- IdentityOf,
  SIGNED_BIT <- 8, INVOICE_KEY <- "invoice", AUTH_SIG_KEY <- "authsig", WALLET_KEY <- "wallet"

CONSTANTS Half, Undefined, Null, Default, Never
P == INSTANCE MCPage WITH
  KeyAddresses <- {"R1", "R2"}, Identities <- {"i1", "i2"}, Satoshis <- ("10" :> 10 @@ "20" :> 20),
  Hex <- {"aa", "bb"}, Hashes <- {"h1", "h2", "h0"}, ZeroHash <- "h0", Signatures <- ("sig1" :> 1 @@ "sig2" :> 3),
  U32Max <- 100, I32Max <- 50, SATS_PER_COIN <- 30, DEFAULT_FEE_PER_KB <- 1,
  EXPIRY_HEIGHT_THRESHOLD <- 60,
  MAX_ID_REFERRAL_LEVELS <- 5, MAX_REPLY_BYTES <- 12

\* Scripts of up to four keys, with the signatures of up to three, made by the
\* keys they name or by another.
Signers3 == {"a", "b", "c"}
M == INSTANCE Multisig WITH
  KeyBytes <- [k \in Signers3 \cup {"d", "e"} |-> IF k = "a" THEN 33 ELSE 65], SignatureBytes <- 72,
  MAX_MULTISIG_KEYS <- 4, NoScript <- Refused
IsMultisigCase(c) ==
  \E required \in 0..5, signatures \in UNION {[1..n -> [pubkey : Signers3 \cup {"e"}, by : {"a", "b"}] \cup {M!Signature("c", "c")}] : n \in 0..3} :
  \E pubkeys \in UNION {[1..n -> Signers3] : n \in 0..3} \cup {<<"b", "c", "d", "e">>, <<"a", "b", "c", "d", "e">>} :
    c = [about |-> "multisig", required |-> required, pubkeys |-> pubkeys, signatures |-> signatures]

-----------------------------------------------------------------------------
SigningInit ==
  /\ part \in {"cosigning", "login", "publishing", "cases"}
  /\ part # "login" => history = <<Record({bob}, 1, FALSE)>>
  /\ Init /\ LoginInit /\ VdxfInit
  /\ IF part = "cases" THEN S!IsScriptCase(case) \/ P!IsPageCase(case) \/ IsNameCase(case) \/ IsMultisigCase(case)
     ELSE case = None

SigningNext ==
  /\ UNCHANGED <<part, case>>
  /\ \/ part = "cosigning" /\ Next /\ UNCHANGED <<login_vars, vdxf_vars>>
     \/ part = "login" /\ LoginNext /\ UNCHANGED <<vars, vdxf_vars>>
     \/ part = "publishing" /\ VdxfNext /\ UNCHANGED <<vars, login_vars>>

SigningSpec == SigningInit /\ [][SigningNext]_signingVars

\* Cosigning alone.
CosigningSpec == SigningSpec /\ part = "cosigning"

-----------------------------------------------------------------------------
(***************************************************************************)
(* The properties of the parts                                             *)
(***************************************************************************)
About(topic) == part = "cases" /\ case.about = topic

\* Different names are different keys, and no key is an identity's id
\* (data_key, qualified_key; Vdxf).
KeysNameOneThing == About("names") => DataKeysNameOneThing(case.of[1], case.of[2], Namespace, case.at)

\* A page's requests that mean different things are planned differently, and
\* those that cannot be are refused; what a request inherits counts as if it had
\* been said, or refuses it; and a reply too long to copy is refused, by its
\* bytes (verus-wasm's flows, sanitize_object, reject_oversized_reply; Page).
EverythingSaidCounts ==
  /\ About("said") => P!EverythingSaidCounts(case.method, case.object, case.other)
  /\ About("inherited") => P!CallsSayWhatTheObjectSays(case.method, case.object)
  /\ About("reply") => P!OversizedRepliesAreRefused(case.text)

\* Scripts, transactions, identities and invoices read back as what was
\* written, and what is read says the same when written again (Scripts, VerusPay).
WhatIsBuiltIsRead == part = "cases" => S!WhatIsBuiltIsRead(case) /\ S!WhatIsReadIsWritten(case)

\* No output that holds tokens is shown as one that holds none, or fewer
\* (decode_output_script; Decoding).
NoTokensAreOverlooked == part = "cases" => S!NoTokensAreOverlooked(case)

\* A signature is good for what it was made for: an invoice's for one invoice,
\* signer, height and system (details_hash; VerusPay); and those of a multisig
\* output spend it exactly when they are of enough of its keys
\* (multisig_script_sig; Multisig).
SignaturesAreOfOneThing ==
  /\ part = "cases" => S!SignaturesCoverInvoices(case)
  /\ About("multisig") => M!MultisigsAreSpendable(case.required, case.pubkeys, case.signatures)
=============================================================================
