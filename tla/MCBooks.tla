------------------------------ MODULE MCBooks ------------------------------
(***************************************************************************)
(* What a wallet reads of its money, what it selects of it and plans to    *)
(* spend, what it pays for names and currencies, and the texts amounts and *)
(* keys are kept as.                                                       *)
(*                                                                         *)
(* Coin selection runs, or the reading of two nodes, or a shielded spend   *)
(* is planned, or a case is looked at; the variables of what does not run  *)
(* stay as they begin.                                                     *)
(***************************************************************************)
EXTENDS CoinSelection, Accounts, MCSpendPlan, TLC

CONSTANTS Junk, NotTaken, NoExponent, NoEstimate

VARIABLES
  part,     \* "selection", "reading", "planning" or "cases"
  case      \* what is looked at, for "cases"

booksVars == <<selection_vars, part, case, accounts_vars, vars>>

-----------------------------------------------------------------------------
(***************************************************************************)
(* A wallet of a key address and an identity's, and one token.  Tokens     *)
(* with a payment of two owners; a transfer on the way to a conversion,    *)
(* that names its native fee; and an output nobody can read.               *)
(***************************************************************************)
Out(kind, owners, satoshis, native, token) ==
  [kind |-> kind, owners |-> owners, satoshis |-> satoshis,
   names |-> ("V" :> native @@ "T" :> token)]
MCOutputs ==
  { << Out("reserve", {"r"}, 2, 0, 3), Out("identity", {"r", "i"}, 1, 0, 0) >>,
    << Out("transfer", {"r"}, 1, 1, 2) >>,
    << Out("opaque", {"i"}, 1, 0, 0) >> }

MCAsked == {{}, {"r"}, {"r", "i"}}

-----------------------------------------------------------------------------
\* Texts of up to two digits before a point and three after; and every amount.
D == INSTANCE Amounts WITH Refused <- NotTaken,
  Places <- 2, U64Max <- 1999, I64Max <- 999, MAX_NATIVE_SATS <- 499, MAX_CURRENCY_SATS <- 999, MAX_EXPONENT <- 4

UpTo(S, n) == UNION {[1..k -> S] : k \in 0..n}
IsAmountCase(c) ==
  \/ \E negative \in BOOLEAN, whole \in UpTo({0, 1, 9}, 2), fraction \in UpTo({0, 1, 9}, 3), exponent \in {NoExponent} \cup -5..5 :
       c = [about |-> "token", of |-> [negative |-> negative, whole |-> whole, fraction |-> fraction, exponent |-> exponent]]
  \/ \E n \in 0..999 : c = [about |-> "amount", of |-> n]

\* A byte is one of five; a text is a frame with its checksum, with another, or
\* without; a word is three bits, and a phrase holds one or two bytes.
DigestOf(bytes) == FoldLeft(LAMBDA sum, b : (sum * 7 + b * 37 + 11) % 256, 5, bytes)
Bytes == {0, 1, 2, 5, 250}
Kinds == ("PubKeyHash" :> 2 @@ "Identity" :> 3 @@ "ScriptHash" :> 4)
ValidScalars == { s \in [1..2 -> Bytes] : s # <<0, 0>> /\ s[1] # 250 }
K == INSTANCE Keys WITH
  Digest <- DigestOf, Error <- NotTaken, ScalarBytes <- 2, Scalars <- ValidScalars, HashBytes <- 1,
  WIF_VERSION <- 9, Versions <- Kinds, ByteBits <- 8, WordBits <- 3, UnitBytes <- 1, Units <- {1, 2}

Frames == { <<v>> \o p : v \in {0, 2, 3, 4, 9}, p \in UpTo(Bytes, 3) }
Texts == {Junk, <<>>} \cup UNION { { d, d \o <<DigestOf(d)>>, d \o <<(DigestOf(d) + 1) % 256>> } : d \in Frames }
Entropies == [1..2 -> {0, 1, 77, 128, 200, 255}]
IsKeyCase(c) ==
  \/ \E text \in Texts : c = [about |-> "text", of |-> text]
  \/ \E s \in ValidScalars, compressed \in BOOLEAN, kind \in DOMAIN Kinds, hash \in [1..1 -> Bytes] :
       c = [about |-> "key", of |-> <<s, compressed, kind, hash>>]
  \/ \E words \in UpTo(0..7, 4) : c = [about |-> "phrase", of |-> words]
  \/ \E e \in Entropies, i \in 1..6, w \in (0..7) \cup {Junk} :
       c = [about |-> "phrase", of |-> [K!mnemonic_from_entropy(e) EXCEPT ![i] = w]]
  \/ \E e \in Entropies : c = [about |-> "entropy", of |-> e]

-----------------------------------------------------------------------------
\* A chain, a currency on it and another; three keys; three referrers.
Of(name, parent) == <<name, parent>>
RootId == Of("chain", "none")
BaseId == Of("base", RootId)
OtherId == Of("other", RootId)
KeyIds == {Of("k1", "key"), Of("k2", "key"), Of("k3", "key")}
IdentityIds == {RootId, BaseId, OtherId} \cup {Of(r, "referrer") : r \in {"r1", "r2", "r3"}}
NameTexts == {"Base", "base", "other"}
N == INSTANCE MCNaming WITH
  Native <- "native", Tokens <- {"base", "other"}, Keys <- KeyIds, Identities <- IdentityIds,
  Protocol <- Of("protocol", "chain"), Issuer <- ("base" :> BaseId @@ "other" :> OtherId),
  Authority <- [i \in IdentityIds |-> Of("k1", "key")],
  TX_OVERHEAD <- 1, INPUT_SIZE <- 1, P2PKH_OUTPUT_SIZE <- 1, SMART_OUTPUT_SIZE <- 1, MIN_FEE <- 1, DUST_THRESHOLD <- 1,
  Names <- NameTexts, Reservable <- {"base", "other"}, Lower <- [n \in NameTexts |-> IF n = "Base" THEN "base" ELSE n],
  NoId <- Of("nobody", "none"), U64Max <- 450, I64Max <- 200, MAX_REFERRAL_LEVELS <- 4, CENTRALIZED_PROOF_PROTOCOL <- 2,
  SATOSHIDEN <- 100, SUCCESS_FEE <- 25, CONTRIBUTION_TRANSFER_FEE <- 2, MAX_TRUSTED_FEE <- 90, Chain <- RootId

-----------------------------------------------------------------------------
\* Notes a key may spend: one listed twice, two in whose place another is
\* fetched, of the same value and of another, one under another key, and one
\* witnessed elsewhere.
S == INSTANCE ShieldedMoney WITH Refused <- NotTaken,
  U64Max <- 11, I64Max <- 9, MEMO_SIZE <- 2, TextBytes <- {0, 65}, NotText <- {245, 255}, DEFAULT_TRANSACTION_FEE <- 2

PlannedNote(n, value, fetched, decrypted, key, anchor) ==
  [nullifier |-> <<n>>, value |-> value, recipient |-> "own", anchor |-> anchor,
   output |-> [cmu |-> fetched, nullifier |-> <<fetched>>, value |-> decrypted, key |-> key]]
NoteLists ==
  LET n1 == PlannedNote(1, 5, 1, 5, "mine", "a") n2 == PlannedNote(2, 3, 2, 3, "mine", "a") IN
  { <<n1>>, <<n1, n2>>, <<n1, n1>>, <<n1, PlannedNote(3, 3, 13, 4, "mine", "a")>>, <<PlannedNote(3, 3, 13, 3, "mine", "a")>>,
    <<PlannedNote(3, 5, 1, 5, "mine", "a"), n1>>, <<n1, PlannedNote(4, 2, 4, 2, "theirs", "a")>>,
    <<n1, PlannedNote(5, 3, 5, 3, "mine", "b")>>, <<n1, n2, PlannedNote(6, 6, 6, 6, "mine", "a")>> }
ShieldedTo == { <<>> } \cup { <<S!with_memo("z1", v, m)>> : v \in {0, 2, 5}, m \in {<<>>, <<65, 65>>} }
                      \cup { <<S!with_memo("z1", v, <<65>>), S!with_memo("z1", 1, <<>>)>> : v \in {2, 10} }
TransparentTo == { <<>> } \cup { <<[address |-> [kind |-> k, hash |-> "h"], value |-> v]>> : k \in DOMAIN Kinds, v \in {1, 3} }
IsMoneyCase(c) ==
  \/ \E notes \in NoteLists, need \in 0..9, z \in ShieldedTo, t \in TransparentTo, paid \in {0, 1}, rest \in {None, "z2"} :
       c = [about |-> "spend", of |-> <<notes, need, [extsk |-> "mine", shielded_to |-> z, transparent_to |-> t,
                                                     fee |-> paid, change_address |-> rest]>>]
  \/ \E memo \in UpTo({0, 65, 200, 245}, 3) : c = [about |-> "memo", of |-> memo]
  \/ \E counts \in (0..11) \X (0..11) : c = [about |-> "floor", of |-> counts]

\* Two outputs of an address, as a node lists them: money, what an identity
\* holds, its definition, tokens of one kind and of two, another's tokens.
Unspent(kind, owner, tokens) == [kind |-> kind, owner |-> owner, tokens |-> tokens]
Listings == { Unspent("p2pkh", "r", {}), Unspent("held", "i", {}), Unspent("identity", "i", {}),
              Unspent("reserve", "i", {"T"}), Unspent("reserve", "i", {"T", "U"}), Unspent("reserve", "r", {"T"}) }
IsFundingCase(c) ==
  \E one, two \in Listings, h1, h2 \in {2, 4, 5}, mined \in BOOLEAN, p1, p2 \in BOOLEAN, s \in {0, 1}, usable, served \in BOOLEAN :
    c = [about |-> "funding", of |-> <<served,
          { one @@ [txid |-> 1, height |-> h1, coinbase |-> mined, pending |-> p1, satoshis |-> 2, is_spendable |-> TRUE],
            two @@ [txid |-> 2, height |-> h2, coinbase |-> FALSE, pending |-> p2, satoshis |-> s, is_spendable |-> usable] }>>]

-----------------------------------------------------------------------------
BooksInit ==
  /\ part \in {"selection", "reading", "planning", "cases"}
  /\ IF part = "cases" THEN IsAmountCase(case) \/ IsKeyCase(case) \/ N!IsNamingCase(case) \/ N!IsLaunchCase(case) \/ IsMoneyCase(case) \/ IsFundingCase(case)
     ELSE case = None
  /\ part # "selection" => utxos = <<>> /\ request = [native |-> 0, rate |-> 1, smart |-> FALSE]
  /\ SelectionInit
  /\ part # "reading" => asking = {}
  /\ AccountsInit
  /\ part # "planning" => wallet = Genesis /\ light = Genesis /\ node = Genesis
  /\ Init

BooksNext ==
  /\ UNCHANGED <<part, case>>
  /\ \/ part = "selection" /\ SelectionNext /\ UNCHANGED <<accounts_vars, vars>>
     \/ part = "reading" /\ AccountsNext /\ UNCHANGED <<selection_vars, vars>>
     \/ part = "planning" /\ Next /\ UNCHANGED <<selection_vars, accounts_vars>>

BooksSpec == BooksInit /\ [][BooksNext]_booksVars

-----------------------------------------------------------------------------
(***************************************************************************)
(* The properties of the parts                                             *)
(***************************************************************************)
About(topic) == part = "cases" /\ case.about = topic

\* Every text is read as exactly the amount it says or refused, and every
\* amount is read as itself (Amounts).  A key, an address or a phrase is read
\* from one text only, and read back from it (from_wif, Address::from_str,
\* checked_words; Keys).  So is a memo, when it is a text (memo_text; ShieldedMoney).
TextsAreExact ==
  /\ About("token") => D!ReadExactly(case.of)
  /\ About("amount") => D!EveryAmountIsRead(case.of)
  /\ About("text") => K!TextsAreExact(case.of)
  /\ About("key") => K!KeysAreKept(case.of[1], case.of[2], case.of[3], case.of[4])
  /\ About("phrase") => K!PhraseIsSound(case.of)
  /\ About("entropy") => K!EntropyIsKept(case.of)
  /\ About("memo") => S!MemosAreRead(case.of)

\* A commitment and a registration lose nothing of what they are paid with:
\* every satoshi and token is an output, a fee, or refused.  Referrals come out
\* of the fee the chain wants.  A launch burns what the chain charges for it and
\* no more, and contributes what its definition says (build_name_commitment,
\* build_identity_registration, prepare_launch; Naming, Launch).  A shielded
\* spend pays what its request says whatever plan it is proved from, and more
\* outputs never relay for less (prove_spend, min_relay_fee; ShieldedMoney).
\* What an address or an identity is said to have to spend can be spent, and
\* nothing it has goes unlisted (spendable, identity_held, identity_held_tokens;
\* Accounts).
NothingIsLost ==
  /\ part = "cases" => N!NothingIsLost(case) /\ N!ReferralsAreCheap(case) /\ N!LaunchesPay(case)
  /\ About("spend") => /\ S!PaysAsAsked(case.of[1], case.of[2], case.of[3])
                       /\ S!PlansAreProved(case.of[1], case.of[2], case.of[3])
  /\ About("funding") => /\ OfferedIsSpendable(case.of[2], 5, case.of[1], "i", {"T", "U"})
                         /\ EveryCoinIsListed(case.of[2], 5, case.of[1])
  /\ About("floor") => S!MoreOutputsNeverCostLess(case.of[1], case.of[2])
=============================================================================
