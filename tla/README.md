# A verification project for the Verus Rust SDK

TLA+ models of this SDK, above all of what can go wrong between two calls: a
wallet that follows a reorganising chain, a registration that must not lose its
salt, a payment whose broadcast got no answer, an operation that is re-run from
its beginning every round, an identity that several callers restate at once, a
transaction that several people sign, a login whose identity changes meanwhile.
What is pure - readers, builders, texts - is modelled as operators and looked at
over every small input.  TLC checks each part on a small instance; TLAPS proves
the results that matter most for every value of the constants.

Paths below are relative to `src/crates/`.

## 1. The system

The SDK is *offline first*: everything that decides what is signed is pure, and
reads of a node go through two traits (`ChainReader`, `LightTransport`).  Every
operation that writes is split into a `prepare_...` half, which reads and returns
an `Unsent`, and a broadcast.

| part | state it keeps | operations | talks to |
|---|---|---|---|
| shielded scanning `verus-flows/shielded.rs` | a serialisable `ScanResult`: range, tip hash, notes with tree positions, nullifiers, a bounded window of checkpoints | `scan`, `scan_after`, `absorb`, `rewind_to`, and the recovery loop it documents; `received`, `memo_text` | a light server, four kinds of call |
| shielded spends `verus-flows/shielded/` | none: a `SpendPlan` passes from one half to the other | selecting notes, witnessing them to one anchor, checking it, proving | light server, node |
| registration `verus-flows/identity.rs` | a `Pending` the caller persists: salt, commitment, anchor | prepare, `anchor`, `broadcast`, `poll`, `complete` | node |
| registration builders `verus-tx-identity/register.rs` | none | reservation, commitment, fee and referrals, the registration itself | - |
| identity lifecycle `verus-flows/lifecycle.rs`, `verus-tx-identity/{update,revoke}.rs` | none of its own: the identity is an output on the chain | update, revoke, recover, unlock | node |
| funding, sends, broadcast `verus-flows/{funding,send,broadcast}.rs` | none | `spendable`, `identity_held`, `prepare_send`, `broadcast`, the documented resolution | node |
| coin selection `verus-tx-primitives/fee.rs` | none | `estimate_fee`, `select_utxos` | - |
| transaction builders `verus-tx-transparent/`, `verus-tx-protocol/{token,convert}.rs`, `verus-tx-identity/identity_spend.rs` | none | sends, token sends, spends of what an identity holds, conversions, burns, mints | - |
| launches `verus-tx-currency/`, `verus-flows/launch.rs` | none | a currency's definition, its price, the transaction that launches it | node |
| offers, co-signing, multisig `verus-flows/offer.rs`, `verus-tx-market/` | a half-signed transaction passed between people | fund, make, inspect, take, take back; `sign_with`, `combine`, `finalize`; redeem scripts | node |
| login `verus-flows/login.rs`, `verus-tx-identity/signature.rs` | a challenge | challenge, sign, gather, verify | two nodes |
| VDXF `verus-tx-protocol/vdxf/`, `verus-flows/vdxf.rs` | none: the content of an identity | data keys, publish, read, history of a key | node |
| VerusPay `verus-tx-protocol/veruspay.rs` | none | invoices as objects, texts and signatures | - |
| history and balances `verus-flows/{history,balances}.rs`, `verus-tx-protocol/balances.rs` | none | folds over what a node lists | node |
| drive `verus-flows/drive.rs`, `verus-rpc/cassette.rs` | a `Driven` handle and its `Cassette` of answers and misses | `advance`, `record` | a driver (JavaScript, a test) |
| RPC client `verus-rpc/`, second source | none | a reply turned into a value or an error; two nodes compared | one or two nodes |
| amounts, keys, layout `verus-keys/`, `verus-wire/`, `verus-tx-primitives/{amount,cc}.rs`, `verus-tx-protocol/{decode,identity}.rs` | none | texts and bytes read and written | - |
| wasm bindings `verus-wasm/` | handles to the above | a page's request objects checked and turned into calls, replies and transactions shown | JavaScript |
| light client, Sapling | none | gRPC; cryptography | transport |

**How they interact.**  Components call each other as functions; what is shared
is the chain.  An operation issues several reads that are answered separately,
possibly concurrently, from a node that mines, reorganises, evicts and lags in
between; what it prepares is mined at any later height until it expires.  The
caller may stop at any moment and reload what it persisted.  Half-signed
transactions, logins and invoices travel between people over channels that
copy, lose and alter them.

**What is hard.**  Two reads that describe different moments; a streamed answer
that crosses a reorg; an answer lost after the write took effect; state that was
true when it was read (an anchor, a tip, an unspent output) and is used later; a
bounded window searched by a doubling step; saturating heights; an operation
re-run every round of a driver; a signature that outlives the keys it was made
with; an absence that is only a failure; a reader that accepts what no writer
wrote; sums of a caller's amounts at the limit of their type.  `PROJECT.json`
lists each hazard at its line, with the properties that would catch it.

**What makes each part correct.**

- Scanning: the result is what *one* scan of *one* chain would give.
- Shielded spends: a proof is not paid for in vain; servers that merely lag do
  no harm; a spend expires when its caller said, or soon after the tip; it pays
  what its request says.
- Registration: the salt is never lost; a reported reorg is real; bytes that
  cannot be relayed are not handed out; an attempt always ends.
- Registration builders, launches: what comes in goes out again or is a fee that
  was agreed to; a launch burns what the chain charges, and no more.
- Payments: nothing is paid more often than asked, but for bytes called refused
  while they were out; an uncertain broadcast is resolved; nothing premature is
  spent.
- Coin selection: exact balance, no false shortage.
- Builders and offers: a transaction moves what was asked for and the stated
  fee, of every asset and for every holder; its fee covers it; it stays
  acceptable until a coin goes or it expires; nothing ends where no builder
  reaches it.
- Co-signing: what a signer saw is what is spent; enough signatures do spend, in
  whatever order and over whatever route they were gathered.
- Lifecycle: an unlock only moves later; nobody is stranded; concurrent callers
  undo nothing; an unlock that was prepared stays acceptable until it expires.
- Login: who is logged in signed this request, as the identity's keys of that
  time; a revoked identity is refused; a proper login succeeds.
- VDXF and VerusPay: what was published is what is read; a key is of one name;
  a signature is of one invoice.
- History, balances, RPC: the books are what the chain did; absence is something
  a node *said*.
- Drive: rounds never write, never unlearn, produce at most one plan, converge.
- Amounts, keys, layout: a text or a script is read as what it says or refused,
  and what is written is read back.
- Bindings: what a page says has an effect or is refused.

## 2. Modules

| module | models | proofs |
|---|---|---|
| `BlockTree` | what a light server reads a block and a tree size from; the notes of a chain | - |
| `Follower` | abstract: what a wallet that follows a chain promises | refined in `ShieldedScanProofs` |
| `ShieldedScan` (`MCShieldedScan`) | `verus-flows/shielded.rs` 80-677 | `ShieldedScanProofs` |
| `SpendPlan` (`MCSpendPlan`) | `verus-flows/shielded/{planning,spending}.rs`, `shielded.rs` 734-822 and 996-1053, the checks of `verus-sapling/build.rs` | `SpendPlanProofs` |
| `Registration` | `verus-flows/identity.rs`, `verus-tx-primitives/expiry.rs` | `FlowProofs` |
| `Payments` (`MCPayments`) | `verus-flows/{send,funding,broadcast}.rs`, maturity in `verus-rpc/types.rs` | `PaymentsProofs` |
| `Drive` (`MCPayments`) | `verus-flows/drive.rs`, `verus-rpc/cassette.rs` | `FlowProofs` |
| `IdentityLifecycle` (`MCIdentityLifecycle`) | `verus-flows/lifecycle.rs`, `verus-tx-identity/{update,revoke}.rs`, `Timelock` | `IdentityLifecycleProofs` |
| `Builders` | `verus-tx-transparent/{send,assemble}.rs`, `verus-tx-protocol/{token,convert}.rs`, `verus-tx-identity/identity_spend.rs`, `verus-tx-market/{offer,partial}.rs` | `LedgerProofs` |
| `Ledger` (`MCLedger`) | the builders' callers in `verus-flows`, above all `offer.rs`, on one chain | `LedgerProofs` |
| `CoSigning` | `verus-tx-market/partial.rs`, the sighash of `verus-wire/tx.rs` | `SigningProofs` |
| `Multisig` | `verus-tx-market/multisig.rs` | - |
| `Login` | `verus-flows/login.rs`, `verus-tx-identity/signature.rs`, `verus-wasm/login.rs` | `SigningProofs` |
| `Vdxf` | `verus-tx-protocol/vdxf/mod.rs`, `verus-flows/vdxf.rs` | `SigningProofs` |
| `Page` (`MCPage`) | `verus-wasm/{dto,flows,send,convert,login}.rs` | - |
| `Encoding`, `Scripts`, `Decoding` (`MCScripts`) | the readers and writers of `verus-wire`, `verus-tx-primitives/cc.rs`, `verus-tx-protocol/{decode,convert,identity}.rs`, `verus-wasm/decode.rs` | - |
| `VerusPay` | `verus-tx-protocol/veruspay.rs`, `vdxf/{object,hash160}.rs`, `base64url.rs` | - |
| `MCSigning` | puts the nine above, from `CoSigning` on, into one run | - |
| `CoinSelection` | `verus-tx-primitives/fee.rs` | `PaymentsProofs` |
| `Rpc`, `Accounts` | `verus-rpc/`, `verus-flows/{error,history,balances,funding}.rs`, `verus-tx-protocol/balances.rs` | `FlowProofs` |
| `Amounts` | `verus-rpc/json.rs`, `amount.rs`, `SignedAmount`, `verus-wasm/money.rs` | - |
| `Keys` | `verus-keys/{base58,key,address,bip39}.rs` | `SigningProofs` (keys, addresses) |
| `Naming`, `Launch` (`MCNaming`) | `verus-tx-identity/register.rs`; `verus-tx-currency/`, `verus-flows/launch.rs` | `LedgerProofs` |
| `ShieldedMoney` | the amounts of `verus-flows/shielded/spending.rs`, `received`, `memo_text`, `build_shielded_spend` | `FlowProofs` |
| `MCBooks` | puts the eight above, from `CoinSelection` on, and `SpendPlan` into one run | - |
| `Sums` | nothing: lemmas on sums over finite sets and on least numbers | used by all proofs but two |

`PROJECT.json` maps each definition to its lines.

`ShieldedScan` and `SpendPlan` extend `BlockTree`; `Ledger` and `Naming` extend
`Builders`; `Launch` extends `Naming`; `Scripts`, `Decoding` and `VerusPay` extend
`Encoding`, one after the other; `Accounts` extends `Rpc`.  `MCSigning` extends
`CoSigning`, `Login` and `Vdxf`, `MCBooks` extends `CoinSelection`, `Accounts` and
`MCSpendPlan`, and `MCPayments` extends `Payments` and `Drive`: the parts whose states
have theorems; the other parts of the first two are instantiated.
`SpendPlan` starts where `ShieldedScan` ends: its wallet is a `ScanResult` for which
`WalletIsExact` holds.  The three MC modules compose parts that share no
state: `part` says which of them runs, the variables of the others stand still,
and `case` is the input that is looked at where a part is a pure algorithm.

**BlockTree, ShieldedScan.**  The block tree is a constant: all blocks any replica
will ever serve.  The server is the block it serves as its tip, and moves between any two
calls and between any two blocks of a streamed answer.  `wallet` is the
`ScanResult`, `disk` the copy that was persisted, `tail` the chunk loop's result
so far.  Actions follow the code's calls: `Poll`, `ServerBehind`, `NothingNew`,
`ScanAfter` are the branches of `scan_after`; `FetchFrontier`, `ReceiveBlock`,
`ChunkReorged`, `ChunkMiscounted`, `ChunkScanned` the loop of `scan_following`;
`Absorb`, `Rewind`, `RunOut`, `Rescan` the recovery loop; `CallFails` and
`Restart` the faults.  A note is a member of a small set; a nullifier is the
note with the position it was spent at, so a shifted position is visible.

**Follower.**  The abstract specification: a wallet is at one block and knows what
that block's chain says; it advances along it, goes back to an ancestor, or
admits that it lost its way and begins again.  The mapping takes `wallet` and
`disk` to `view` and `kept` (tip, notes, nullifiers), and the exhausted window and
the fresh scan after it to `lost`.  The chunk loop, the frontier, the checkpoint
window and the doubling search for an ancestor are what it abstracts from.

**SpendPlan.**  A commitment tree is the sequence of its leaves, and two trees
have one root when they are the same sequence; a witness is a tree and the leaf
it authenticates.  Light server and node are two blocks that move
independently, one action per answer, so every note's frontier, blocks and
output may come from different forks.  The `wallet` is the block it was scanned
to, which `WalletIsExact` justifies.  A request's `expiry` is used as given, 0 for never,
and refused at the consensus threshold; without one it is `EXPIRY_BLOCKS` after the
tip read then.  `witness_note` asks for ranges of
`SCAN_CHUNK` blocks; the model reads one block at a time, which allows strictly
more mixtures.  `calm` is a history variable: both servers and the wallet have
been on one chain throughout the call, reach what it needs, and the expiry asked for
is one a transaction may have.  A call ends in
`proven` or `refused`.

**Registration.**  The chain is a sequence of block numbers, so no two blocks
have one hash.  One action per request a `poll` makes, so a block can come
between reading confirmations and reading the tip, and a reorg between the
height and the hash of the anchor.  `mem` and `disk` are the `Pending` in memory
and persisted.

**Payments.**  The three reads of `spendable` are issued together and answered
in any order.  `net` holds what any node relayed: what left this node's mempool
may still be mined.  `Broadcast` is `broadcast` on each answer a node can give: known,
accepted, in doubt (-25), or refused (-26), the same whatever became of these bytes
before.  An uncertain broadcast keeps its bytes, and `ResolveKnown` and `ResolveAgain` are
the resolution `broadcast.rs` documents: one read, and the same bytes again if the node does
not know them.  A refusal, an answer that names another txid (`NotReady`) and a
server that does not relay (`MethodUnavailable`) end the call, and the application
makes the payment from the beginning.  `disowned` is a history variable: bytes
that some node held when the caller was told so, with what it was told.

**Drive.**  An operation is what it asks given what it knows (`Asks`, `Refuses`
are operator parameters), so the theorems hold for every operation.

**IdentityLifecycle.**  `live` is the identity as the unspent output has it;
`version` names that output.  A caller reads tip and output in any order, signs
an operation against what it read, and the transaction is mined by any later
block before its expiry, if the output is still unspent.  The modelled chain
checks signatures, expiry and double spends and leaves the timelock rules to the
SDK, so the properties rest on this code.  `promised` is what the chain was
promised about the earliest spend.

**Builders, Ledger.**  A builder is a function from the coins it is handed to a
transaction or a refusal; `Ledger` keeps the coins, what each key holder has
signed and not yet sent, the published offers, and what a taker has read of one.
A coin is a value per asset, an owner, and a shape that decides how it is
unlocked.  A caller hands over any subset of its unspent coins in any order, which covers
whatever the funding queries return.  A broadcast is checked against the chain
of that moment: another transaction may have spent a coin, or blocks outrun the
expiry, since it was prepared.  The chain checks signatures, expiry and value,
and *takes* tokens that no output receives, as the real one does: they are gone, and
`OnlyWhatWasAsked` is what notices.  An offer's signature commits to the maker's
input and the output beside it, so a taker's transaction must keep both in
place.  `inspect` reads terms and tip in any order, and its terms are served even
when the coin is spent.  Identities are unlocked with one key.  The loops of
`select_utxos` and of the token send are written as the first exit of a counted
sequence (`CoinSelection` has the former step by step, with overflow and
ceilings), and the sorts as orders on positions, which makes them stable as the code's are;
the first phase of a token send takes a coin while all before it bring too little of a
token it carries.  The fee rate is folded into the sizes.

**CoSigning, Multisig.**  A hash is the record of what it commits to, so two
hashes are equal exactly when they commit to the same.  A signature is the key it names, the key
that made it, the hash it is over and, for a key hash, the type in its last byte, which
`verify` drops and the chain reads.  Copies of a partial transaction are lost, reordered,
passed on and altered: another payee, another hash type, signatures taken away, turned
around, attributed to another key, with another last byte, or a stranger's put first.
Signers look at what they sign, and what is received replaces what there was.

**Login.**  The chain carries the identity's records, one per block; the signer's
node may be ahead of the verifier's, and blocks arrive between the reads of
`verify_login`.  A signature counts by the keys of the height it names.

**Vdxf.**  Publishers update one identity's content with whole read-modify-write
cycles; the node takes one update of an output and mines or drops it.  A name is
the sequence of what its dots separate.

**Page.**  A request object is what its properties evaluate to, own or
inherited, missing, null, of another type, or lying about itself; `sanitize` and
the shapes make a call of it, or refuse it.  Every binding is a row: its fields
and the plan it becomes.  Where a binding makes sense of a field itself the model does:
expiries at the consensus threshold, a reserve's weight in 32 bits, a signature that is of another
height than the page named, one from the future or too old.

**Encoding, Scripts, Decoding, VerusPay.**  Bytes are words, one per field, with
their tag (which stands for the width) and value.  Readers are written with
`Then(r, Rest(_))`, the code's `?`: what is left of a reader after it succeeded.
`MCScripts` builds scripts, transactions, identities and invoices of every kind, and
alters them.

**Rpc, Accounts.**  What a node lists and what is made of it; two nodes
that know different lengths of one chain, fail, refuse, and answer null.  `Payments`
has the same three reads of `spendable` answered at different moments.  What of the
outputs listed can fund a transaction is looked at input by input: those cases are
part of `NothingIsLost`.

**Naming, Launch, ShieldedMoney, Amounts, Keys.**  Builders and readers as
operators from inputs to a transaction, a value, or a refusal, in scaled-down
machine arithmetic.  Hashes are what they are of, and base58 is one to one: a
text is the bytes it stands for, or junk.

## 3. What the runs check

| run | properties | shows |
|---|---|---|
| `shielded_scan` | `WalletIsExact`, `CheckpointsDescribeTheWallet`, `FollowsOneChain`, `CatchesUp` | reorgs, lagging replicas, lost calls and restarts leave an exact wallet, which implements `Follower` and catches up with whatever the server settles on |
| `registration` | `SaltIsNeverLost`, `NoFalseReorg`, `NeverSendsDoomedBytes`, `Settles` | two attempts survive a reorg, a loss and a restart |
| `payments` | `NoDoublePayment`, `NeverPremature`, `BroadcastSettles`; `DrivingNeverWrites`, `OnePlanPerHandle`, `Converges` | two payments, three coins one of them a coinbase, two losses; an operation that asks in stages, sometimes fails, sometimes tries to broadcast |
| `lifecycle` | `UnlockNeverEarly`, `NeverStranded`, `UnlockIsAccepted`, `UnnamedFieldsCarryOver` | two callers, eight operations, one identity |
| `ledger` | `OnlyWhatWasAsked`, `PreparedIsAcceptable`, `NothingIsStranded` | two key holders and an identity; sends, conversions, burns, mints and offers interleaved with blocks and each other |
| `signing` | `WhatWasSeenIsWhatIsSpent`, `EnoughIsAccepted`; `LoggedInMeansSigned`, `RevokedIsRefused`, `ProperLoginsSucceed`; `WhatWasPublishedIsRead`, `KeysNameOneThing`; `EverythingSaidCounts`; `WhatIsBuiltIsRead`, `NoTokensAreOverlooked`, `SignaturesAreOfOneThing` | what is signed and said, by whom: an offer passed between cosigners while others alter copies, logins across rekeying, publications, pages, scripts, invoices |
| `books` | `ShortOnlyWhenHopeless`, `PaysExactly`; `BooksAreRight`, `AbsenceWasSaid`; `TextsAreExact`; `NothingIsLost`; `ProofsAreNotWasted`, `SkewIsHarmless` | what a wallet reads of its money, selects and pays: every small list of coins, two nodes, every small text, registrations, launches and shielded spends; and whatever mixture of forks the light server answers with, a proven spend is anchored in the chain the node had, and lag alone never refuses one |

Five further runs end in a violation, each of a sentence of the documentation:

| run | the documentation says | the code does |
|---|---|---|
| `registration_reorged` | poll again once the chain settles | the anchor is never taken again: every later poll says reorged |
| `lifecycle_checks` | the builder only errs towards refusing | an extension of a countdown that elapses before the block that carries it passes, and consensus refuses it |
| `ledger_token_fee` | every token input is spent whole, the conversion consumes what it needs, the remainder comes back as token change | a fee named in the converted token is carried by the output on top of the amount but not counted as needed: the outputs carry more of the token than the inputs bring, in a signed transaction no chain accepts |
| `payments_refused` | a rejection is different and is not ambiguous: the node understood the transaction and refused it | nothing is remembered of an earlier attempt: bytes whose answer was lost, relayed elsewhere and forgotten here, are rejected near their expiry, and mined |
| `signing_mangled` | `finalize` re-verifies every signature it holds, so a mangled partial fails there rather than at the daemon | the type in the last byte of a key hash's signature, and whose key its first signature names, are compared with nothing: the chain refuses what `finalize` returns |

`NoDoublePayment` and `EnoughIsAccepted` are stated beside the last two: payments mined from
disowned bytes are not counted against the caller, and of an altered copy only what
has its owners' signatures first, saying their type, is promised to be taken.

The type invariants of `ShieldedScan`, `SpendPlan`, `Registration`, `Drive` and
`IdentityLifecycle` are theorems rather than
runs, and so are `MovesAlongOneChain`, `ExpiresInTime` and `AnswersOnlyGrow`.

### Bounds, and why they are enough

Bounds are guards or assumptions marked `bound` in the modules.

- `shielded_scan`: three forks, one of them off another; a note mined on two
  forks at different positions, spent on one; a note spent on both.  Chunks of two
  blocks and a window of three checkpoints make scans span chunks, windows trim,
  and a fork lie below the window, so the fresh scan is reached.  Three moves of
  the server allow leaving a fork and coming back, inside one answer.  Real
  values are 1000 and 200.
- The planning part of `books`: three forks hold one payment: as scanned, rebuilt in its place, and
  shifted by another output; a spent note, on one fork only.  Two moves of the tips
  and one failed call; amounts that need no note, one, two, and more than the
  limit of two (real: `MAX_SPEND_NOTES`), one pinned anchor.  Expiries: the default, never,
one height that can be had, and the threshold.
- `registration`: height 5 with expiry 3 and margin 1, so an attempt can expire,
  a second one start, and a reorg disconnect a commitment or its anchor.  (Real: 20 and 3.)
- `payments`: two payments that either large coin covers, so one may rebuild the
  other; a coinbase that matures while the run lasts; an expiry of three blocks in
  five and a relay margin of one, so bytes grow too old to relay before they are too old
  to be mined; two losses, enough for an answer to be lost and its transaction evicted.
  Driving: three questions, of which one is named by an earlier answer; three
  moments of the node; two losses; five rounds (real: 16) are what those need.
- `lifecycle`: delay, cap and expiry of two blocks in six, a saturating type of
  eleven heights, an unlock whose extra blocks saturate.  Two transactions
  suffice for two callers to race for one output.
- `ledger`: four wallets, each made for some of the builders: an identity's
  coins beside plain ones; reserve outputs with satoshis and with two tokens,
  and one token coin that is not needed; a coin on offer before a taker with too
  much of everything; an offer from its funding on.  A one-block lifetime in two heights, so what was prepared
  expires; two accepted transactions, so change is spent again and an
  offer loses its coin to a reclaim; two offers, so a coin is offered twice.  Transfers
  pay their fee in the chain's own currency, as every flow of the SDK does
  (`MCTransfers`); `ledger_token_fee` lifts that.
- `signing`: a 2-of-2 identity's coin beside a key's, with one output less than
  inputs, so `single` has an input without an output; one copy, so that signatures meet in
  either order, one alteration and one stranger.  Login: four records among them a revoked one
  and one nobody can sign for, three heights, an age of one (real: 60), so a login
  can be made before, across and after a change of keys.  Two publishers, three
  updates, values of no, one and two parts.  Names of three components.  Scripts
  of every kind over numbers that take one, two and three words; pages with every
  field absent, null, of the right type, of another, inherited; multisigs of up to four
  keys, one of them repeated.
- `books`: coin selection with 16 as the whole machine type, every list of up to
  three of three outpoints, values and requests with zero, dust and the maximum, so
  both overflow checks fire.  Three blocks, one failure, a payment of two owners, a
  transfer, an output nobody reads.  Numbers of two places, up to two digits
  before and three after the point, exponents of both signs past the largest.
  Keys of two bytes, words of three bits, checksums of one byte that do collide.
  Registrations and launches in a type of 450, with referrals up to a maximum of four levels
  (real: 32).  Notes listed twice, fetched as others, under other keys, of other anchors.

### Fairness

- `ShieldedScan`: `WF(Wallet)`.  The recovery loop is a loop: the wallet keeps
  polling and an answered call is processed.  Nothing is assumed of the server,
  of faults, or of persisting; they are bounded, so the server settles.
- `Registration`, `Payments`: `WF(Mine)`, blocks keep coming; `WF(Caller)`, the
  application follows the documentation (polls again, resolves).  Reorganisations,
  losses and restarts are not fair, and bounded.
- `Drive`: `WF(Advance \/ Fetch \/ Record)`: a driver that keeps driving.  `FlowsFairSpec` of
  `MCPayments` states both, each for its part.
- `IdentityLifecycle`, `Ledger` and the parts of `signing` and `books` state no
  liveness: their calls return, and nobody is obliged to broadcast, sign or look.

`CHECK_DEADLOCK FALSE` where a run ends: registrations, payments and plans
finish, chains reach their bound, a case is only looked at.

## 4. What is proved

All proofs are checked by TLAPS to the last leaf, from the named assumptions on
the constants only (`ParameterAssumption`, `ChainAssumption` and `TreeAssumption`,
`LeavesAssumption` and `SpendAssumption`,
`RegistrationAssumption`, `DriveAssumption`, `LifecycleAssumption`, `PaymentsAssumption`,
`FeeAssumption`, `BuildersAssumption`, `LedgerAssumption`, `CoSigningAssumption`,
`LoginAssumption`, `VdxfAssumption`, `AccountsAssumption`), and from three hypotheses about the world that the theorems that
need them state: `ReportsSize`, `NoCommitmentTwice` and `FeesAreNative`.  The theorems about single
operations state of what kind their arguments are, and that the values the model uses for a refusal
are none of them; each is described below.

- **`ShieldedScanProofs`**: `TypeCorrect`, `ExactAlways`, `NeverJumpsForks`,
  `WindowHasNoHoles`, `KeepsThePromise`.  All assume a server that reports tree sizes (`ReportsSize`;
  section 5 says what happens without).  Inductive invariant: `wallet` and `disk` are exact; so
  is the chunk loop's `tail`, relative to what it follows (`TailInv`); the
  streamed answer is a linked path (`GotInv`).  Exactness alone is not inductive:
  a chunk is only right if frontier, first block and last tree size belong to
  one chain, which is what the link and counter checks establish together.
  `WindowHasNoHoles` needs the window's shape (`WindowInv`): it is all the blocks of the
  wallet's chain from some height up, in memory and on disk, and a scan in
  progress has as many as it may; so trimming and rewinding each leave such a stretch, and a
  catch-up joins two that touch.
  `KeepsThePromise` is the refinement: `ShieldedScan` implements `Follower`; lemmas
  (`PollMaps` to `StepMaps`) say which abstract step, or stutter, an action is.  An exact wallet's view is
  `Says` of its tip; that `absorb` and `rewind_to` move along the chain is where
  the invariant is needed.
- **`SpendPlanProofs`**: `TypeCorrect`, `NoProofIsWasted`, `SpendsExpireAsAsked`,
  `SkewNeverRefuses`.
  Invariant: the witness being built has its leaf at the note's position however
  the tree before it came about (`CurInv`), and so have the finished ones
  (`WitnessInv`); a plan's trees are all the leaves of the block the anchor was
  compared with (`PlanInv`); a transaction spends what the plan witnesses and
  expires as its caller asked, at a height that can be had, or by default after a tip that no plan
  is newer than (`TxInv`).  The forks answered need no relation to each other: the one
  comparison with the node's root is what the argument turns on.
  `SkewNeverRefuses` is the converse, and needs the other half of each fact: as long
  as the call is calm, every frontier, block and output read is that of the one
  chain, so every note is found where the wallet has it, the trees reach the
  anchor, and the sums of the notes chosen suffice.  It assumes `NoCommitmentTwice`: no
  two notes of the tree have one commitment.  The builder refuses to spend two
  notes of one commitment (`verus-sapling/build.rs` 262), so without it a calm
  spend can be refused; commitments are hashes over fresh randomness.
- **`FlowProofs`**: of `Registration`, `TypeCorrect`, `ReorgsAreReal`, `SaltIsKept`,
  `NothingDoomedIsSent`.  Invariant: blocks are numbered as they are made
  (`Numbered`), an anchor's block was at its height when it was taken
  (`AnchorHolds`), in memory and on disk, and `poll` carries what it read.  Of `Drive`,
  `NeverWrites`, `OnePlan`, `NothingUnlearned`, for every operation and every driver.
  Of `Accounts`, `BooksAreRightAlways` and `AbsenceWasSaidAlways`, for any outputs, addresses
  and faults.  Invariant (`AccountsInvariant`): an output is spent once and after the block
  that created it (`ChainInv`); what was read is right and stays so while the chain
  grows above it (`MoneyInv`); between its two steps a lookup holds the answer of one
  node (`LookupInv`).  A node's list is a fold over a set in an order of its own, so the argument
  first shows that it enumerates the set (`ListedEnumerates`), then that the rows counted
  of a transaction are one to one with the outputs of the wallet that it creates or spends
  (`EachCountsOnce`), so a sum over the ones is a sum over the others (`NetIsEffect`); that
  the unspent outputs at a height are worth the sum of all effects up to it is by a
  least counterexample in the height (`BooksBalance`).  The assumption on outputs is the
  daemon's: only scripts with a place for tokens carry any.  Of what can fund a
  transaction, `OffersAreSpendable` and `CoinsAreListed`, of any finite set of coins
  (`AreCoins`): the two are the funding cases of `NothingIsLost`.
  Of `ShieldedMoney`, `PaysAsAskedAlways`, `PlansAreProvedAlways`,
  `MoreOutputsNeverCostLessAlways` and `MemosAreReadAlways`, for any notes, requests, counts
  and memos, of any length.  The two on spends are about `Askable` requests: notes and
  payments of any value of which no two outputs share a nullifier, and transparent
  recipients of the kinds that can be paid; that every plan proves needs an amount above 0, as
  `plan_spend` insists.  What the notes chosen are worth, what is paid and what comes
  back are three sums over sequences, and the balance the builder checks is their difference;
  that the sums are those of the lists laid end to end is the lemma all of it rests on.
  A fee is a product of sums that saturate, each of which grows with
  its terms (`Saturated`), so no overflow makes an output cheaper.  Zeros pad a memo and are taken off again:
  two memos are read alike only if they differ in zeros at their end.
- **`IdentityLifecycleProofs`**: `TypeCorrect`, `UnlocksOnlyMoveLater`,
  `NobodyIsStranded`, `UnlocksAreAccepted`, `NothingUnnamedChanges`.
  Invariant: what a caller holds of an unspent output is what it holds
  (`HeldIsLive`); whatever can still be mined was checked, at some tip not
  above the present, against the very identity it replaces (`SignedForLive`);
  the promise is over or is what the countdown says (`PromiseStands`).
  `UnlockNeverEarly` is not inductive without `SignedForLive`: that a stale
  check still binds at mining time is the point of double spends.  The arithmetic is in
  `LeavingADelay` and `RunningCountdown`.
- **`PaymentsProofs`**: `NothingIsPaidTwice`, `NothingPrematureIsSigned`, `ShortageIsReal`,
  `EverySatoshiIsCounted`.  Counting what was mined is not
  inductive.  Invariant: whatever was mined, or can still be, is what the caller
  was told is sent for a payment, or is in the caller's hand, or was out when `broadcast`
  called it refused (`NothingLivesForgotten`).  So the payments begun map onto what was mined of an
  amount and not disowned (`MinedAreAsked`), and there are no fewer of them.  Nothing
  is assumed about when a node forgets or refuses: what the theorem leaves
  out is what `payments_refused` shows.  For `NothingPrematureIsSigned`: coins that
  were read are as they were at that moment, and whatever is selected and
  signed passed `Mature` at the tip read in the same round.  Of
  `CoinSelection`, step by step: what is taken outvalues what is left
  (`MostIsTaken`), the books balance at every turn (`CountInv`), and no smaller
  number of outputs than taken so far pays (`FewerDoNotPay`).  That the largest outputs are
  worth most among all choices of their number is an exchange argument on a
  smallest counterexample (`LargestAreWorthMost`); it makes the shortage real for every
  choice.
- **`LedgerProofs`**: `EveryoneGetsTheirDue`, `WhatIsPreparedIsAccepted`, `NothingStaysBehind`,
  `LedgerInvariant`, for any coins, orders, transfers and offers and any number of holders
  and tokens.  Four layers.  Lists: the total of two lists behind each other is that of both,
  and so is what they are worth to one owner (`TotalOfConcat`, `Share`), and what is picked
  from a list of different coins by any strict order is a list of different coins
  (`InOrderDraws`).  Builders, one lemma each
  (`TransparentSendIsGood` to `TakeIsGood`): what is built of a list of coins its key may sign for
  is `Good`, made of different coins of that list, signed by that key, with outputs that
  somebody can spend, and of every asset exactly what the inputs bring, less the fee; and
  it is `Fair`: beyond what is paid, the outputs go to whoever brought the
  inputs.  Requests: what is paid is what the asks mean (`Means`), so that for every
  owner and asset the outputs less the inputs are what is asked to it less what is asked from it
  (`Delivers`).  The
  invariant: ids name one coin each, tokens sit only where a script has a place for
  them (`ChainInv`) and only coins are spent (`SpentInv`); what is held stays as it was
  built, and every signature in it holds (`HeldInv`); a published offer is its maker's word
  on its maker's coin (`OffersInv`); what a taker has read is another's offer
  and the coin it spends (`ReadingInv`), which is why the coin a taker puts first is none of its own and
  the maker's signature fits what is built around it.  When it is mined, the
  holdings of an owner, a sum over the unspent coins, change by the difference of two lists
  (`HoldingsMove`).  On the initial coins the proof needs that they are `Truthful`: a plain, an
  identity's and an offer's output have no place for tokens, as `token_balances` reads
  them.  All assume `FeesAreNative`: a conversion
  that names a token as its fee currency promises more than it brings, as
  the run `ledger_token_fee` shows; every flow of the SDK names the chain's currency.
  Of `Naming`, `RegistrationLosesNothingAlways`, `ReferralsComeOutOfTheFeeAlways` and
  `CommitmentLosesNothingAlways`, for any reservation, fee, depth, chain of referrers, parent
  currency and coins: together the registration cases of `NothingIsLost`.  What is
  assembled of plain funding is the funding that was taken and its change around what was planned, and
  its fee exceeds what was to be burned by no more than the price of one input and one
  output too many, and the dust (`FundedIs`, `SelectionCosts`); the outputs are worth what
  they claim, position by position (`OutputsAre`, `RootOutputsAre`); and n - 1 shares of a fee
  divided by n fit under what is charged with a referral, however the divisions
  round (`SharesAre`).  They assume of the coins handed over (`Registrable`) that plain ones and
  commitments have no place for tokens, and, of referrals, that no referrer is also the change address.
  Of `Launch`, `LaunchPaysItsFeeAlways`, for any definition, policy, funding and keys
  (`Launchable`), with a conversion fee that is a part of what is converted (`FeeIsAPart`).
  What is built is read off position by position (`LaunchedIs`): six outputs, a seventh for a
  contribution, the deposit last.  The rest is arithmetic: the deposit is half the fee,
  rounded up; and what is converted is the contribution grossed up so that, less a rounded-down
  fee, the contribution is left (`GrossedIs`).  With the four
  theorems on shielded money and the two on funding these are all the parts of `NothingIsLost`.
- **`SigningProofs`**: of `CoSigning`, `SignersGetWhatTheySaw`, for any hash types and
  any alteration of a copy.  The invariant is about signatures, not transactions:
  wherever a signature went and whatever became of it, its maker once looked at what it is
  over (`Vouched`), in every hand and every copy; an alteration repeats signatures, mangled or
  not, or adds a stranger's (`Repeats`, `Descends`).  That `finalize` verifies each signature against the
  transaction it is in closes the argument.  `EnoughSignersSpend`, by `CountInv`: as long
  as nothing was altered every signature in every copy stands, because its input is
  retyped only before it is signed and nothing it is over is changed by another's
  signature or by the format: it verifies, and a key hash's is its owner's and says its
  type (`UnalteredIsAsSigned`).  Altered or not, what finalizes with such signatures in the
  first place is taken (`EnoughIsTaken`): `finalize` has compared all else.  Of `Login`, `WhoIsInWasSignedFor`,
  `TheRevokedStayOut`, `NobodyProperIsTurnedAway`, for any records, heights and limits.
  Invariant: the chain only grows and a node's tip is a block of it (`ChainInv`);
  what a running check has read is what some block between its start and now
  says (`SessionInv`); a verdict is what the checks made of that (`VerdictInv`).  Of
  `Vdxf`, `PublishedIsRead`, for any publishers, keys and values: an update in a
  publisher's hand, or in the mempool, is what the unspent output holds with one
  key replaced, or its output is spent and it will never be mined (`UnsentInv`,
  `PendingInv`), so what the output holds is what was told last under each key, and the
  history of a key ends with it (`HeldInv`).
  `DataKeysNameOneThingAlways`, for names of any length and any hash that is of one thing: a
  key is the top of a chain of hashes (`IsChain`), each of one component over the one
  below.  Two chains that agree at the top agree below it (`ChainsStayTogether`), so
  they end at one length or one ends inside the other (`ChainsTell`), which the root
  of a namespace excludes: it is hashed of the separator, and no component is spelled so
  (`NamesAreApart`; `check_component` refuses a colon).
  Of `Keys`, `TextsAreReadOnce` and `KeysAreReadBack`, for any versions, lengths and checksum
  (`KeyTexts`): the checksum is of all that stands before it, so a text that
  decodes is the one text of what it decodes to; and the versions tell the kinds apart.
- **`Sums`**: sums over finite sets grow with their sets and their terms, split, change sign
  with their terms, and are natural numbers; sequences and products grow; the library's `SumFunction`, whose fold chooses
  its order, is such a sum (`SumFunctionIsTotal`).  The library's induction theorems for sets take an operator, so
  the lemmas argue by a smallest counterexample instead: a non-empty set of naturals
  has a least member (`LeastNatural`), and a set of subsets one of fewest members
  (`SmallestSubset`).

**Only model-checked**:

- All liveness (`CatchesUp`, `Settles`, `BroadcastSettles`, `Converges`): neither
  fairness nor ENABLED is within reach of the prover.
- Of `signing`, `EverythingSaidCounts`, `WhatIsBuiltIsRead`, `NoTokensAreOverlooked` and
  `SignaturesAreOfOneThing`: what readers and writers of lists compute, by folds and
  selections whose every length would need an induction theorem.
  They are checked over every small input.  `KeysNameOneThing` is proved of names of any
  length, see above; as a property it is stated of the run's cases only.
- Of `books`, `TextsAreExact` for decimal amounts, token names and recovery phrases; its
  keys, addresses and memos are proved.  `NothingIsLost` is proved part by part and stated
  whole only in the run.

The modules with proofs use constants, recursive functions or folds, no RECURSIVE
operators.

## 5. What is not modelled

- Cryptography: trial decryption, Merkle witnesses, proofs, signatures, hashes.
  A note decrypts or does not, a condition is met or not, a hash is what it is of.
- Transport: HTTP, JSON requests and their method tables, gRPC frames and the
  light client's messages; transaction ids; the bytes a partial transaction or a
  signature is kept as.
- In spends: the serialized size; in registration: `referral_chain`,
  `check_trusted_node_fee` and `wait_blocking`, and the funding of the two
  transactions; in conversions: estimates against floors and imports (the page's price
  check is modelled); in offers: browsing; the plan/assemble split.
- Around `Ledger`: locked identities, ceilings and overflow, gateway legs.
  Leading inputs are not priced by the assembler.
- In the lifecycle: tokenized control, auxiliary outputs, `IdentityLockOverride`
  (which the code calls out as having no offline equivalent), reorganisations, and the timelock of a recovery
  against consensus.  A countdown that was *locked again* is outside
  `UnlockNeverEarly`: the later unlock is measured from its own expiry, so a
  caller with an older tip brings the end forward by the difference of the two
  tips; the rule is the chain's own.
- Re-exports, error types, tables of well-known keys.

### Seen while modelling

None of these is the subject of a run; each was met where a model was compared
with its source.  Scanning and spends:

- Without `chainMetadata` the cross-check of positions (`shielded.rs` 643) is
  skipped, and a reorg between frontier and blocks can shift every position of
  the first chunk; the documentation (405) does not say so.
- After a reorg the nullifiers in a spend's outcome are those of the scanned
  notes, whatever was fetched in their place.
- `min_relay_fee`'s prose ("another fee for each output beyond three") and its
  branches differ, for instance for three shielded and two transparent outputs.

Money:

- A block between the outputs and the mempool of `spendable` can make two payments
  one transaction; `already_spent` cannot see outputs of tokens without satoshis.
- Token sends, identity token spends, conversions and taken offers have no check
  for an outpoint handed over twice, and a registration's token funding counts
  one listed twice two times.
- `address_utxos` keeps rows repeated without an address and gives missing
  fields (`spending`, `index`, flags) defaults; `identities_with_address` does not
  refuse repeats as the other lists do.
- `build_convert` offline (`verus-wasm/convert.rs` 164) has no fee ceiling.
- The second source's `agreed` compares less than its module text promises.

Identities, currencies:

- A login's identity that is revoked and recovered within `max_age` makes an old
  signature good again.
- `prepare_publish` and `prepare_mint` check revocation but not the timelock; the lock
  of a version 1 identity is dropped silently (`identity.rs` 380-383).
- `referral_chain` is not checked to start with the referrer that was committed to;
  the miner fee of a sub-identity with token change counts too few outputs; a
  comment on `ParentCurrencyFee` (`register.rs` 444-447) describes another split.
- `prepare_launch` asks for less than the grossed contribution and its transfer
  fee; `build_currency_launch` (656) counts keys, not different keys;
  `with_contributions` describes what `contribution_output` does not do.

Formats:

- A VerusPay hash does not cover the invoice's version.
- A destination with the auxiliary flag and no auxiliaries is rewritten without it.
- A multisig redeem script accepts repeated keys, and can then never be spent.

## 6. Plan

Done: `ShieldedScan`, `SpendPlan`, `Registration`, `Drive`, `IdentityLifecycle`, `Payments`,
`CoinSelection`, `CoSigning`, `Login`, `Vdxf`, `Accounts` and `Ledger` with a proof of every safety property
the passing runs check, `Follower` with its refinement; `Naming`, `Launch`, `ShieldedMoney`,
and of `Keys` and `Vdxf` what section 4 says; the rest of `signing`, and of `books`, model-checked.  Left, in this order:

1. Abstract specifications: a payer that pays each intent at most once, refined
   by `Payments`; a swap that happens for both or neither, refined by `Ledger`.
2. Proofs: what the readers and writers of scripts compute.
3. Conversions from the outside: estimates against floors, imports; browsing offers.
4. The funding inside registration and lifecycle, `referral_chain`, locked
   identities in `Ledger`.
5. The light client's messages, request encoding and the method tables.
