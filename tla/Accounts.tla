------------------------------ MODULE Accounts ------------------------------
(***************************************************************************)
(* What a wallet knows of its money without spending it: the history of    *)
(* src/crates/verus-flows/src/history.rs, the token balances of            *)
(* verus-tx-protocol/src/balances.rs and verus-flows/src/balances.rs, what *)
(* of it can fund a transaction (verus-flows/src/funding.rs), and whether  *)
(* an identity exists, read from two nodes that follow one chain at their  *)
(* own pace, over connections that fail and repeat.                        *)
(*                                                                         *)
(* A block carries one transaction of the wallet, and may register the     *)
(* identity.  An output has owners: the node lists it under each of them.  *)
(***************************************************************************)
EXTENDS Rpc, SequencesExt

CONSTANTS
  Native, Tokens,   \* currencies
  Outputs,          \* what a transaction may create: [kind, owners, satoshis, names]
  Asked,            \* the sets of addresses a wallet asks about
  Stranger,         \* an address that is nobody's
  COINBASE_MATURITY,
  KeyKinds,         \* the kinds of output a key spends as money: p2pkh
  IdentityKinds,    \* those an identity does: its payment script
  MaxBlocks,        \* bound
  MaxFaults         \* bound: replies gone wrong

Nodes == {"primary", "secondary"}

\* Scripts that have a place for tokens.
Carriers == {"reserve", "commitment", "deposit", "transfer"}

ASSUME AccountsAssumption ==
  /\ Native \notin Tokens
  /\ \A addresses \in Asked : IsFiniteSet(addresses) /\ Stranger \notin addresses
  /\ \A outputs \in Outputs :
       /\ outputs \in Seq(ToSet(outputs))
       /\ \A o \in ToSet(outputs) :
            /\ o.satoshis \in Nat /\ o.names \in [Tokens \cup {Native} -> Nat]
            /\ o.kind \notin Carriers \cup {"opaque"} => \A t \in Tokens : o.names[t] = 0
  /\ KeyKinds \cap IdentityKinds = {} /\ "reserve" \notin KeyKinds \cup IdentityKinds
  /\ COINBASE_MATURITY \in Nat

VARIABLES
  blocks,     \* of the chain: [outputs, spends, registers]
  seen,       \* the height each node is at
  asking,     \* the addresses asked about, fixed for a run
  history,    \* the last history with the height it was read at, or none
  balances,   \* the last balances, likewise
  lookup,     \* the primary's answer about the identity, then the outcome
  faults

accounts_vars == <<blocks, seen, asking, history, balances, lookup, faults>>

-----------------------------------------------------------------------------
(***************************************************************************)
(* The node's index.  (External: the daemon.)                              *)
(***************************************************************************)
OutpointsTo(h) == UNION {{<<b, o>> : o \in DOMAIN blocks[b].outputs} : b \in 1..h}
OutputAt(outpoint) == blocks[outpoint[1]].outputs[outpoint[2]]
SpentAt(outpoint, h) == \E b \in 1..h : outpoint \in blocks[b].spends

\* A row of one output under one address.  The map of currencies has the
\* native one in it, as well as the satoshis.
Row(outpoint, block, address, spending) ==
  LET output == OutputAt(outpoint)
      sign   == IF spending THEN -1 ELSE 1
      named  == [c \in Tokens \cup {Native} |->
                   IF c = Native THEN output.satoshis ELSE output.names[c]]
  IN [address |-> address, outpoint |-> outpoint, transaction |-> block,
      movement |-> <<address, block, spending, outpoint>>,
      change |-> <<block, spending, outpoint>>, spending |-> spending,
      satoshis |-> sign * output.satoshis, missing |-> {}, illegible |-> {},
      currency_values |-> [c \in DOMAIN named |-> sign * named[c]]]

IndexRows(h, addresses, spending) ==
  LET in(p) == IF spending THEN CHOOSE b \in 1..h : p \in blocks[b].spends ELSE p[1]
  IN UNION {{Row(p, in(p), a, spending) : a \in OutputAt(p).owners \cap addresses} :
              p \in {p \in OutpointsTo(h) : spending => SpentAt(p, h)}}

Listed(S) == FoldSet(LAMBDA row, list : Append(list, row), <<>>, S)
DeltaRows(h) == Listed(IndexRows(h, asking, FALSE) \cup IndexRows(h, asking, TRUE))
UtxoRows(h)  == Listed({r \in IndexRows(h, asking, FALSE) : ~SpentAt(r.outpoint, h)})

\* The replies that may come for a list: it, nothing, or one gone wrong.
Replies(rows) ==
  {[reply |-> Result(rows), cost |-> 0]}
  \cup {[reply |-> r, cost |-> 1] : r \in
          {Unanswered, [kind |-> "null"], Failed(-28), Failed(MethodNotFound)}
          \cup (IF rows = <<>> THEN {}
                ELSE {Result(Append(rows, Head(rows))),
                      Result(Append(rows, [Head(rows) EXCEPT !.address = Stranger])),
                      Result(<<[Head(rows) EXCEPT !.missing = {"satoshis"}]>> \o Tail(rows)),
                      Result(<<[Head(rows) EXCEPT !.illegible = {"txid"}]>> \o Tail(rows))})}

-----------------------------------------------------------------------------
(***************************************************************************)
(* history                                                                 *)
(***************************************************************************)

\* A movement counts once, under whichever of its addresses it came first.
Counted(rows) ==
  {i \in DOMAIN rows : ~\E j \in 1..i - 1 :
     /\ rows[j].transaction = rows[i].transaction
     /\ rows[j].spending = rows[i].spending
     /\ rows[j].outpoint = rows[i].outpoint}

\* One entry for each transaction, with its net effect; the native currency
\* is in the satoshis, and a currency that nets to nothing is left out.
fold_history(rows) ==
  LET transactions == {rows[i].transaction : i \in DOMAIN rows}
      of(t) == {i \in Counted(rows) : rows[i].transaction = t}
      net(t, c) == SumFunction([i \in of(t) |-> rows[i].currency_values[c]])
  IN [t \in transactions |->
        [net_native     |-> SumFunction([i \in of(t) |-> rows[i].satoshis]),
         net_currencies |-> [c \in {c \in Tokens : net(t, c) # 0} |-> net(t, c)],
         spent_something |-> \E i \in DOMAIN rows : rows[i].transaction = t /\ rows[i].spending]]

-----------------------------------------------------------------------------
(***************************************************************************)
(* token_balances                                                          *)
(***************************************************************************)
\* What an output holds besides satoshis, as its script says.  Reserve
\* deposits and transfers name the native currency too.
TokensOf_AsNamed(output) == [c \in Tokens \cup {Native} |-> output.names[c]]

TokensOf(output) ==
  IF output.kind \in Carriers
  THEN [c \in Tokens \cup {Native} |-> IF c = Native THEN 0 ELSE output.names[c]]
  ELSE [c \in Tokens \cup {Native} |-> 0]

\* A condition that may carry currency and cannot be read stops the count.
Countable(rows) == \A i \in DOMAIN rows : OutputAt(rows[i].outpoint).kind # "opaque"

token_balances(rows) ==
  LET held(c) == SumFunction([i \in DOMAIN rows |-> TokensOf(OutputAt(rows[i].outpoint))[c]])
  IN [c \in {c \in Tokens \cup {Native} : held(c) # 0} |-> held(c)]

-----------------------------------------------------------------------------
(***************************************************************************)
(* What an address can spend, over the outputs a node lists, its tip and   *)
(* its mempool: `spendable`, `identity_held` and `identity_held_tokens` of *)
(* src/crates/verus-flows/src/funding.rs.  An output is what the node says *)
(* of it, and what only its transaction or the mempool shows (`coinbase`,  *)
(* `pending`).  Payments has the three reads of `spendable` at different   *)
(* moments; here they agree.                                               *)
(***************************************************************************)
SatsOf(S) == SumFunction([c \in S |-> c.satoshis])

coin_confirmations(c, tip) == (IF tip >= c.height THEN tip - c.height ELSE 0) + 1

\* Mutant: what matures with the next block is not looked at.
probe_coinbase_heights_Sooner(found, tip) ==
  {c.height : c \in {d \in found : coin_confirmations(d, tip) < COINBASE_MATURITY - 1 /\ d.coinbase}}

\* is_coinbase is asked of young outputs only.
probe_coinbase_heights(found, tip) ==
  {c.height : c \in {d \in found : coin_confirmations(d, tip) < COINBASE_MATURITY /\ d.coinbase}}

\* A coinbase is known by its height: what else was mined there waits with it.
spendable_at(found, tip, coinbase_heights) ==
  {c \in found : /\ c.is_spendable
                 /\ c.height \notin coinbase_heights \/ coin_confirmations(c, tip) >= COINBASE_MATURITY}

\* A node names what an unconfirmed transaction spends, unless it has no native value.
already_spent(found) == {c \in found : c.pending /\ c.satoshis > 0}

\* A mempool that cannot be had withholds nothing.
best_effort_spent(found, served) == IF served THEN already_spent(found) ELSE {}

Mature(found, tip) == spendable_at(found, tip, probe_coinbase_heights(found, tip))

spendable(found, tip, served) ==
  LET spent  == best_effort_spent(found, served)
      mature == Mature(found, tip) \ spent
      other  == {c \in mature : c.kind \notin KeyKinds}
  IN [utxos |-> mature \ other, other |-> other, spent_unconfirmed |-> spent,
      immature |-> found \ (spent \cup mature), total |-> SatsOf(mature \ other)]

holds_only(c, identity, currency) == c.kind = "reserve" /\ c.owner = identity /\ c.tokens = {currency}

identity_held(found, tip, served, identity) ==
  {c \in Mature(found, tip) : c.kind \in IdentityKinds /\ c.owner = identity} \ best_effort_spent(found, served)

identity_held_tokens(found, tip, served, identity, currency) ==
  {c \in Mature(found, tip) : holds_only(c, identity, currency)} \ best_effort_spent(found, served)

\* InsufficientFunds says what there is.
require(funding, needed) == funding.total >= needed

immature_total(funding)          == SatsOf(funding.immature)
spent_unconfirmed_total(funding) == SatsOf(funding.spent_unconfirmed)

-----------------------------------------------------------------------------
\* Nothing was asked yet.
Silence == Err(Node(1))

Unread == [height |-> 0, answer |-> Silence]
Unasked == [step |-> 0, first |-> Silence, outcome |-> Silence, said |-> {}]

\* A wallet asks about addresses, or about the identity: `asking` is empty then,
\* and the chain is about that only.
AboutMoney == asking # {}

\* A block of the wallet's.
MineBlock ==
  /\ Len(blocks) < MaxBlocks
  /\ \E outputs \in (IF AboutMoney THEN Outputs ELSE {<<>>}),
        registers \in (IF AboutMoney THEN {FALSE} ELSE BOOLEAN),
        spends \in SUBSET {p \in OutpointsTo(Len(blocks)) : ~SpentAt(p, Len(blocks))} :
       blocks' = Append(blocks, [outputs |-> outputs, spends |-> spends, registers |-> registers])
  /\ UNCHANGED <<seen, asking, history, balances, lookup, faults>>

CatchUp(n) ==
  /\ seen[n] < Len(blocks)
  /\ n = "secondary" => ~AboutMoney
  /\ seen' = [seen EXCEPT ![n] = @ + 1]
  /\ UNCHANGED <<blocks, asking, history, balances, lookup, faults>>

\* Movements and outputs are the primary's alone.
ReadHistory ==
  /\ AboutMoney
  /\ \E r \in Replies(DeltaRows(seen["primary"])) :
       LET rows == address_deltas(r.reply, asking) IN
       /\ faults + r.cost \leq MaxFaults /\ faults' = faults + r.cost
       /\ history' = [height |-> seen["primary"],
                      answer |-> IF rows.ok THEN Ok(fold_history(rows.value)) ELSE rows]
       /\ UNCHANGED <<blocks, seen, asking, balances, lookup>>

ReadBalances ==
  /\ AboutMoney
  /\ \E r \in Replies(UtxoRows(seen["primary"])) :
       LET rows == address_utxos(r.reply, asking) IN
       /\ faults + r.cost \leq MaxFaults /\ faults' = faults + r.cost
       /\ balances' = [height |-> seen["primary"],
            answer |-> IF ~rows.ok THEN rows
                       ELSE IF ~Countable(rows.value) THEN Err(Node(NotANodeError))
                       ELSE Ok([satoshis |-> SumFunction([i \in DOMAIN rows.value |-> rows.value[i].satoshis]),
                                tokens |-> token_balances(rows.value)])]
       /\ UNCHANGED <<blocks, seen, asking, history, lookup>>

Registered(h) == \E b \in 1..h : blocks[b].registers

IdentityReplies(n) ==
  {[reply |-> IF Registered(seen[n]) THEN Result("record") ELSE Failed(NotFound), cost |-> 0]}
  \cup {[reply |-> r, cost |-> 1] : r \in
          {Unanswered, [kind |-> "null"], [kind |-> "garbage"],
           Failed(-28), Failed(MethodNotFound)}}

\* look_up_identity over two sources: the primary is asked, then the secondary.
AskPrimary ==
  /\ ~AboutMoney /\ lookup.step # 1
  /\ \E r \in IdentityReplies("primary") :
       /\ faults + r.cost \leq MaxFaults /\ faults' = faults + r.cost
       /\ lookup' = [step |-> 1, first |-> result_of(r.reply), outcome |-> Silence,
                     said |-> {r.reply}]
  /\ UNCHANGED <<blocks, seen, asking, history, balances>>

AskSecondary ==
  /\ lookup.step = 1
  /\ \E r \in IdentityReplies("secondary") :
       /\ faults + r.cost \leq MaxFaults /\ faults' = faults + r.cost
       /\ lookup' = [lookup EXCEPT !.step = 2, !.said = @ \cup {r.reply},
                       !.outcome = absent_is_none(agreed(lookup.first, result_of(r.reply)))]
  /\ UNCHANGED <<blocks, seen, asking, history, balances>>

\* confirmations, of the transaction that registers: the primary's alone.
AskConfirmations ==
  /\ ~AboutMoney /\ lookup.step # 1
  /\ \E r \in IdentityReplies("primary") :
       LET answer == result_of(r.reply) IN
       /\ faults + r.cost \leq MaxFaults /\ faults' = faults + r.cost
       /\ lookup' = [step |-> 2, first |-> answer, said |-> {r.reply},
            outcome |-> confirmations(IF answer.ok THEN Ok([confirmations |-> "some"]) ELSE answer)]
  /\ UNCHANGED <<blocks, seen, asking, history, balances>>

\* Of a thing, only whether it was taken is kept.
Abridged(answer) == IF answer.ok THEN Ok("thing") ELSE answer

\* A call for one thing: an identity, a currency, an estimate.  The node leaves
\* out what is optional and sends fields nobody reads.
AskThing ==
  /\ ~AboutMoney /\ lookup.step # 1
  /\ \E shape \in {RawAddressBalance, RawChainInfo, RawCurrency, RawConversionEstimate, RawIdentity,
                    RawIdentityAtAddress, CurrencyStateAt, summary_from_definition,
                    converter_from_entry, identity_content, identity_registration, vdxf_id} :
     \E missing, illegible \in {{}} \cup {{f} : f \in shape.required \cup shape.optional \cup {"other"}} :
       LET reply == Result([missing |-> missing, illegible |-> illegible])
           cost  == IF missing \subseteq shape.optional \cup {"other"} /\ illegible \subseteq {"other"}
                    THEN 0 ELSE 1
       IN /\ faults + cost \leq MaxFaults /\ faults' = faults + cost
          /\ lookup' = [step |-> 2, first |-> Silence, said |-> {},
                         outcome |-> Abridged(Typed(result_of(reply), shape))]
  /\ UNCHANGED <<blocks, seen, asking, history, balances>>

\* The offers of one bucket: an identity for currencies, and what may be wrong.
AskOffers ==
  /\ ~AboutMoney /\ lookup.step # 1
  /\ \E fault \in {"none", "no name", "no amount", "by name", "twice", "no price"} :
       LET identity == [has |-> {"identityid", "systemid"} \cup (IF fault = "no name" THEN {} ELSE {"name"}),
                        addresses |-> {}]
           paid == [has |-> IF fault = "no amount" THEN {} ELSE {"T"},
                    addresses |-> IF fault = "by name" THEN {} ELSE {"T"}]
           entry == [offer |-> identity, accept |-> paid, listed |-> 1, illegible |-> {},
                     missing |-> IF fault = "no price" THEN {"price"} ELSE {}]
           reply == Result(IF fault = "twice" THEN <<entry, entry>> ELSE <<entry>>)
           cost == IF fault = "none" THEN 0 ELSE 1
       IN /\ faults + cost \leq MaxFaults /\ faults' = faults + cost
          /\ lookup' = [step |-> 2, first |-> Silence, said |-> {},
                         outcome |-> Abridged(offers(reply))]
  /\ UNCHANGED <<blocks, seen, asking, history, balances>>

\* What is not in a block yet: a receipt, a spend, or one that only moves
\* nothing, which a node names no output for.
AskPending ==
  /\ ~AboutMoney /\ lookup.step # 1
  /\ \E spending \in BOOLEAN, spends \in {{}, {"output"}}, satoshis \in {0, 1} :
       LET row  == [address |-> Stranger, movement |-> 1, spending |-> spending, spends |-> spends,
                    satoshis |-> satoshis, missing |-> {}, illegible |-> {}]
           cost == IF spending = (spends # {}) \/ (spending /\ satoshis = 0) THEN 0 ELSE 1
       IN /\ faults + cost \leq MaxFaults /\ faults' = faults + cost
          /\ lookup' = [step |-> 2, first |-> Silence, said |-> {},
                         outcome |-> Abridged(address_mempool(Result(<<row>>), {Stranger}))]
  /\ UNCHANGED <<blocks, seen, asking, history, balances>>

\* mempool, from an endpoint that serves some argument lists only.
AskMempool ==
  /\ ~AboutMoney /\ lookup.step # 1
  /\ \E served \in (SUBSET {1, 2}) \ {{}} :
       LET replies == [i \in 1..2 |-> IF i \in served THEN Result("ids") ELSE Failed(MethodNotFound)]
       IN lookup' = [step |-> 2, first |-> result_of(replies[1]), said |-> ToSet(replies),
                     outcome |-> call_probing(replies)]
  /\ UNCHANGED <<blocks, seen, asking, history, balances, faults>>

AccountsInit ==
  /\ blocks = <<>> /\ seen = [n \in Nodes |-> 0]
  /\ asking \in Asked
  /\ history = Unread /\ balances = Unread /\ lookup = Unasked /\ faults = 0

AccountsNext ==
  \/ MineBlock \/ \E n \in Nodes : CatchUp(n)
  \/ ReadHistory \/ ReadBalances
  \/ AskPrimary \/ AskSecondary \/ AskConfirmations \/ AskMempool \/ AskThing \/ AskOffers \/ AskPending

AccountsSpec == AccountsInit /\ [][AccountsNext]_accounts_vars

-----------------------------------------------------------------------------
(***************************************************************************)
(* Properties                                                              *)
(***************************************************************************)
\* What block b changed for the addresses asked about, each output once.
Owned(S) == {p \in S : OutputAt(p).owners \cap asking # {}}
Created(b) == Owned({<<b, o>> : o \in DOMAIN blocks[b].outputs})
Worth(S, c) == SumFunction([p \in S |-> IF c = Native THEN OutputAt(p).satoshis ELSE OutputAt(p).names[c]])
Effect(b, c) == Worth(Created(b), c) - Worth(Owned(blocks[b].spends), c)

\* The books are right: every block's entry is what the block did to the wallet,
\* and the balance is the sum of all effects, whatever is listed under two
\* addresses, named in two places, delivered twice or about somebody else
\* (history, token_balances).
BooksAreRight ==
  LET net(c, b) == IF c \in DOMAIN history.answer.value[b].net_currencies
                   THEN history.answer.value[b].net_currencies[c] ELSE 0
      total(c) == SumFunction([b \in 1..balances.height |-> Effect(b, c)])
      held(c) == IF c \in DOMAIN balances.answer.value.tokens
                 THEN balances.answer.value.tokens[c] ELSE 0
  IN /\ history.answer.ok => \A b \in 1..history.height :
          IF b \in DOMAIN history.answer.value
          THEN /\ history.answer.value[b].net_native = Effect(b, Native)
               /\ \A c \in Tokens : net(c, b) = Effect(b, c)
          ELSE \A c \in Tokens \cup {Native} : Effect(b, c) = 0
     /\ balances.answer.ok =>
          /\ balances.answer.value.satoshis = total(Native)
          /\ held(Native) = 0
          /\ \A c \in Tokens : held(c) = total(c)

\* What an honest node says is taken: without faults no history is refused,
\* no balance but of an output that cannot be read or that has two of the
\* owners asked about, and no lookup, where both nodes know the same.
HonestAnswersAreTaken ==
  faults = 0 =>
    /\ history.answer.ok \/ history = Unread
    /\ \/ balances.answer.ok \/ balances = Unread
       \/ \E p \in Owned(OutpointsTo(balances.height)) :
            OutputAt(p).kind = "opaque" \/ Cardinality(OutputAt(p).owners \cap asking) > 1
    /\ lookup.outcome.ok \/ lookup.step # 2

\* An identity is taken to be absent only because a node said so: no failure,
\* refusal or empty reply is read as the answer that there is none; and what
\* honest nodes say is taken (look_up_identity, address_deltas, call_probing).
AbsenceWasSaid ==
  /\ lookup.outcome = Ok(Absent) => Failed(NotFound) \in lookup.said
  /\ HonestAnswersAreTaken

\* A coinbase too young for the next block to spend.
Premature(c, tip) == c.coinbase /\ coin_confirmations(c, tip) < COINBASE_MATURITY

\* What is offered a builder can be spent in the next block: it is mature, the
\* node does not rule it out, and, where the node said so, nothing spends it
\* already; the identity's is its own, and no coin is offered as two things.
\* An identity's spend takes all it is handed, so one bad coin spoils it.
OfferedIsSpendable(found, tip, served, identity, currencies) ==
  LET money  == spendable(found, tip, served).utxos
      held   == identity_held(found, tip, served, identity)
      tokens == [t \in currencies |-> identity_held_tokens(found, tip, served, identity, t)]
  IN /\ \A c \in money \cup held \cup UNION {tokens[t] : t \in currencies} :
          c.is_spendable /\ ~Premature(c, tip) /\ ~(served /\ c.pending /\ c.satoshis > 0)
     /\ \A t \in currencies : \A c \in tokens[t] : c.owner = identity /\ c.tokens = {t} /\ c \notin money \cup held
     /\ money \cap held = {} /\ \A c \in held : c.owner = identity /\ c.tokens = {}
     /\ \A c \in money : c.tokens = {}

\* Every output is in one list, the lists add up to what the address has, and a
\* coin waits only for itself or a coinbase mined with it.
EveryCoinIsListed(found, tip, served) ==
  LET f == spendable(found, tip, served)
      lists == <<f.utxos, f.other, f.spent_unconfirmed, f.immature>>
  IN /\ UNION {lists[i] : i \in 1..4} = found
     /\ \A i, j \in 1..4 : i # j => lists[i] \cap lists[j] = {}
     /\ f.total + immature_total(f) + spent_unconfirmed_total(f) + SatsOf(f.other) = SatsOf(found)
     /\ \A c \in f.immature : ~c.is_spendable \/ \E d \in found : Premature(d, tip) /\ d.height = c.height
     /\ require(f, f.total) /\ ~require(f, f.total + 1)
=============================================================================
