------------------------------- MODULE Ledger -------------------------------
(***************************************************************************)
(* The builders at work on one chain.  Key holders build transactions from *)
(* coins they have read, keep them for a while, and broadcast them; a      *)
(* maker publishes half-signed offers, and a taker reads an offer and the  *)
(* tip, in any order, before completing it                                 *)
(* (src/crates/verus-flows/src/offer.rs).  The chain checks signatures,    *)
(* expiry and value, and takes tokens that no output receives: these are   *)
(* gone.  What it accepts takes effect at once.                            *)
(*                                                                         *)
(* The callers of the builders are in src/crates/verus-flows.  A caller    *)
(* hands over any of its unspent coins in any order, which covers what the *)
(* funding queries return.  Identities are unlocked, not revoked and have  *)
(* one primary key (IdentityLifecycle has the rest), and prices are not    *)
(* asked for.                                                              *)
(***************************************************************************)
EXTENDS Builders

CONSTANTS
  InitialCoins,    \* the sets of coins the chain may start with
  Orders,          \* sequences of [to, asset, amount] a caller asks to be paid
  Transfers,       \* conversions, burns and mints asked for
  Wanted,          \* [asset, amount]: what makers want for a coin
  OfferAmounts,    \* what makers offer
  TakeFee,         \* the miner fee a taker names
  Lifetime,        \* blocks until what is built expires
  MaxHeight,       \* bound
  MaxAccepted,     \* bound: transactions the chain takes
  MaxOffers        \* bound: offers published

Holder == Keys \cup Identities
Value  == [Assets -> Nat]

\* A coin's tokens are what its script says, and only a reserve output's and a
\* transfer's have a place for them: token_balances counts none in the others, and
\* make_offer takes no script but that of a plain commitment.
Truthful(coin) == coin.shape \in {"p2pkh", "identity", "offer"} => ~CarriesTokens(coin)

ASSUME LedgerAssumption ==
  /\ \A set \in InitialCoins :
       /\ IsFiniteSet(set)
       /\ \A c \in set : c.value \in Value /\ c.id[1] = 0 /\ Truthful(c)
       /\ \A c, d \in set : c.id = d.id => c = d
  /\ Orders \subseteq Seq([to : Holder, asset : Assets, amount : Nat])
  /\ \A t \in Transfers :
       /\ t.source \in Assets /\ t.fee_currency \in Assets
       /\ t.amount \in Nat /\ t.fee \in Nat
       /\ Minting(t) => Minted(t) \in Tokens
  /\ Wanted \subseteq [asset : Assets, amount : Nat] /\ OfferAmounts \subseteq Nat
  /\ TakeFee \in Nat

VARIABLES
  coins,           \* every output there has been
  spent,           \* the ids of those that are spent
  height,          \* the tip
  accepted,        \* how many transactions the chain took
  offers,          \* published offers
  reading,         \* [Keys -> what a taker has read of an offer, or None]
  held             \* [Keys -> what is signed and not yet sent, or None]

chain == <<coins, spent, height, accepted>>
vars  == <<chain, offers, reading, held>>

-----------------------------------------------------------------------------
(***************************************************************************)
(* The chain                                                               *)
(***************************************************************************)
Live(expiry, tip) == expiry = 0 \/ tip < expiry

Unspent == {c \in coins : c.id \notin spent}

MaySign(key, coin) ==
  \/ key = coin.owner
  \/ coin.owner \in Identities /\ Authority[coin.owner] = key

SignatureHolds(h, i) ==
  LET sig == h.tx.sigs[i] IN
  /\ MaySign(sig.by, h.tx.ins[i])
  /\ sig.hash = "single" =>
       /\ i \in DOMAIN h.tx.outs /\ h.tx.outs[i] = sig.out
       /\ h.expiry = sig.expiry

Acceptable(h) ==
  /\ \A i \in DOMAIN h.tx.ins : h.tx.ins[i] \in Unspent /\ SignatureHolds(h, i)
  /\ ~Repeats(h.tx.ins)
  /\ Live(h.expiry, height)
  /\ \A a \in Assets : Total(h.tx.ins, a) \geq Total(h.tx.outs, a)

Mine ==
  /\ height < MaxHeight
  /\ height' = height + 1
  /\ UNCHANGED <<coins, spent, accepted, offers, reading, held>>

\* A transaction takes effect, or is refused for what happened since.
Broadcast(k) ==
  /\ held[k] # None
  /\ held' = [held EXCEPT ![k] = None]
  /\ IF Acceptable(held[k]) THEN
       /\ accepted < MaxAccepted /\ accepted' = accepted + 1
       /\ spent' = spent \cup {held[k].tx.ins[i].id : i \in DOMAIN held[k].tx.ins}
       /\ coins' = coins \cup {[id |-> <<accepted', i>>, shape |-> held[k].tx.outs[i].shape,
                                owner |-> held[k].tx.outs[i].owner,
                                value |-> held[k].tx.outs[i].value] :
                               i \in DOMAIN held[k].tx.outs}
     ELSE UNCHANGED <<coins, spent, accepted>>
  /\ UNCHANGED <<height, offers, reading>>

-----------------------------------------------------------------------------
(***************************************************************************)
(* Preparing a transaction: the caller's coins, what it asked for, and the *)
(* builder's answer.  asks is who gives what to whom.                      *)
(***************************************************************************)
Lists(owner, shapes) ==
  SetToAllKPermutations({c \in Unspent : c.owner = owner /\ c.shape \in shapes})

Ask(from, to, asset, amount) == [from |-> from, to |-> to, asset |-> asset, amount |-> amount]
AsksOf(from, order) ==
  [i \in DOMAIN order |-> Ask(from, order[i].to, order[i].asset, order[i].amount)]

\* Keep what a builder returned, unless it refused.
Hold(k, tx, asks, payer, expiry) ==
  /\ tx.kind = "built"
  /\ held' = [held EXCEPT ![k] = [tx |-> tx, asks |-> asks, payer |-> payer,
                                  expiry |-> expiry]]
  /\ UNCHANGED <<chain, offers, reading>>

Expiry == height + Lifetime
Idle(k) == held[k] = None /\ accepted < MaxAccepted

InNative(order) == \A i \in DOMAIN order : order[i].asset = Native
InTokens(order) == \A i \in DOMAIN order : order[i].asset \in Tokens

Send(k) ==
  /\ Idle(k)
  /\ \E order \in {o \in Orders : InNative(o)}, list \in Lists(k, {"p2pkh"}) :
       Hold(k, plan_transparent_send(k, list, order, k), AsksOf(k, order), k, Expiry)

SendToken(k) ==
  /\ Idle(k)
  /\ \E order \in {o \in Orders : InTokens(o)}, list \in Lists(k, {"p2pkh", "reserve"}) :
       Hold(k, build_token_send(k, list, order, k), AsksOf(k, order), k, Expiry)

SpendIdentity(k, i) ==
  /\ Idle(k) /\ Authority[i] = k
  /\ \E order \in {o \in Orders : InNative(o)}, list \in Lists(i, {"identity", "reserve"}) :
       Hold(k, build_identity_spend(k, i, list, order), AsksOf(i, order), i, Expiry)

SpendIdentityToken(k, i) ==
  /\ Idle(k) /\ Authority[i] = k
  /\ \E order \in {o \in Orders : InTokens(o) /\ Len(o) = 1},
        list \in Lists(i, {"identity", "reserve"}), funding \in Lists(k, {"p2pkh"}) :
       Hold(k, build_identity_token_spend(k, i, order[1].asset, list, funding,
                                          order[1].to, order[1].amount, k),
            AsksOf(i, order), k, Expiry)

\* What a transfer takes from whoever holds the source, and the fee from the
\* one who pays.
AsksOfTransfer(transfer, holder, payer) ==
  (IF Minting(transfer) THEN <<>>
   ELSE <<Ask(holder, Protocol, transfer.source, transfer.amount)>>)
  \o <<Ask(payer, Protocol, transfer.fee_currency, transfer.fee)>>

\* Whose the spent source is: a mint's its issuer's, a native source and a
\* burned token the caller's own, any other the caller's or an identity's.
Holders(k, transfer) ==
  {o \in {k} \cup {i \in Identities : Authority[i] = k} :
     /\ Minting(transfer) => o = Issuer[Minted(transfer)]
     /\ ~Minting(transfer) /\ (transfer.source = Native \/ transfer.kind = "burn") => o = k}

Convert(k) ==
  /\ Idle(k)
  /\ \E transfer \in Transfers : \E holder \in Holders(k, transfer) :
       \E list \in Lists(holder, {"identity", "reserve"}), utxos \in Lists(k, {"p2pkh"}) :
         LET payer == IF Minting(transfer) THEN holder ELSE k
             tx == build_conversion_transaction(
                     k, transfer, utxos,
                     IF Minting(transfer) THEN <<>> ELSE list,
                     IF Minting(transfer) THEN list ELSE <<>>, k)
         IN Hold(k, tx, AsksOfTransfer(transfer, holder, payer), payer, Expiry)

-----------------------------------------------------------------------------
(***************************************************************************)
(* Offers                                                                  *)
(***************************************************************************)
FundOffer(k) ==
  /\ Idle(k)
  /\ \E amount \in OfferAmounts, list \in Lists(k, {"p2pkh"}) :
       Hold(k, fund_offer(k, list, amount, k), <<>>, k, Expiry)

\* A signature given away.  The maker may sign over one coin repeatedly.
MakeOffer(k) ==
  /\ Cardinality(offers) < MaxOffers
  /\ \E coin \in Unspent, w \in Wanted, expiry \in {0, Expiry} :
       LET out   == IF w.asset = Native THEN Pay(k, w.amount) ELSE Reserve(k, w.asset, w.amount)
           offer == make_offer(k, coin, out, expiry)
       IN /\ coin.owner = k
          /\ offer.kind = "offer"
          /\ offers' = offers \cup {offer}
          /\ offers' # offers
  /\ UNCHANGED <<chain, reading, held>>

Reclaim(k) ==
  /\ Idle(k)
  /\ \E coin \in {c \in Unspent : c.owner = k /\ c.shape = "offer"} :
       /\ Sat(coin) > MIN_FEE
       /\ Hold(k, partial_transaction(k, <<coin>>, <<Pay(k, Sat(coin) - MIN_FEE)>>),
               <<>>, k, Expiry)

Consider(k) ==
  /\ Idle(k) /\ reading[k] = None
  /\ \E offer \in offers :
       /\ offer.wanted.owner # k
       /\ reading' = [reading EXCEPT ![k] = [offer |-> offer, terms |-> None, tip |-> None]]
  /\ UNCHANGED <<chain, offers, held>>

\* inspect: the transaction the offer spends from is served whether or not
\* the output is still there.
ReadTerms(k) ==
  /\ reading[k] # None /\ reading[k].terms = None
  /\ \E coin \in coins :
       /\ coin.id = reading[k].offer.spends
       /\ reading' = [reading EXCEPT ![k].terms = [coin |-> coin, offered |-> Sat(coin)]]
  /\ UNCHANGED <<chain, offers, held>>

ReadTip(k) ==
  /\ reading[k] # None /\ reading[k].tip = None
  /\ reading' = [reading EXCEPT ![k].tip = height]
  /\ UNCHANGED <<chain, offers, held>>

Informed(k) == reading[k] # None /\ reading[k].terms # None /\ reading[k].tip # None

\* prepare_take: what the chain said is on offer, for what is demanded.
PrepareTake(k) ==
  /\ Idle(k) /\ Informed(k)
  /\ reading' = [reading EXCEPT ![k] = None]
  /\ LET offer == reading[k].offer
         terms == reading[k].terms
         giver == offer.wanted.owner
         paid  == offer.wanted.value
     IN /\ Live(offer.expiry, reading[k].tip)
        /\ \E list \in Lists(k, {"p2pkh", "reserve"}) :
             LET tx == take_offer(k, offer, terms.coin, list, k, k, terms.offered, TakeFee) IN
             /\ tx.kind = "built"
             /\ held' = [held EXCEPT ![k] =
                  [tx |-> tx, payer |-> k, expiry |-> offer.expiry,
                   asks |-> <<Ask(giver, k, Native, terms.offered)>>
                            \o [i \in 1..Cardinality(Assets) |->
                                  LET a == SetToSeq(Assets)[i] IN Ask(k, giver, a, paid[a])]]]
  /\ UNCHANGED <<chain, offers>>

\* The call returns without a transaction: the offer expired, or it failed.
NotTaken(k) ==
  /\ reading[k] # None
  /\ reading' = [reading EXCEPT ![k] = None]
  /\ UNCHANGED <<chain, offers, held>>

-----------------------------------------------------------------------------
Init ==
  /\ coins \in InitialCoins
  /\ spent = {} /\ height = 1 /\ accepted = 0
  /\ offers = {}
  /\ reading = [k \in Keys |-> None]
  /\ held = [k \in Keys |-> None]

Next ==
  \/ Mine
  \/ \E k \in Keys : Broadcast(k)
  \/ \E k \in Keys : Send(k) \/ SendToken(k) \/ Convert(k)
  \/ \E k \in Keys, i \in Identities : SpendIdentity(k, i) \/ SpendIdentityToken(k, i)
  \/ \E k \in Keys : FundOffer(k) \/ MakeOffer(k) \/ Reclaim(k)
  \/ \E k \in Keys : Consider(k) \/ ReadTerms(k) \/ ReadTip(k) \/ PrepareTake(k) \/ NotTaken(k)

Spec == Init /\ [][Next]_vars

-----------------------------------------------------------------------------
(***************************************************************************)
(* Properties                                                              *)
(***************************************************************************)
Holdings(set, owner, asset) ==
  SumFunction([c \in set |-> IF c.owner = owner THEN c.value[asset] ELSE 0])

\* What the owner gains by what was asked for and by the fee that was named.
Asked(h, end, owner, asset) ==
  SumFunction([i \in DOMAIN h.asks |->
                 IF h.asks[i][end] = owner /\ h.asks[i].asset = asset THEN h.asks[i].amount ELSE 0])

Due(h, owner, asset) ==
  Asked(h, "to", owner, asset) - Asked(h, "from", owner, asset)
  - (IF h.payer = owner /\ asset = Native THEN h.tx.fee ELSE 0)

\* A broadcast moves what was asked for, and nothing else: of no asset does
\* anyone hold more or less than the request and the stated fee say.  Change
\* returns to whoever brought the surplus, an identity's to the identity.
OnlyWhatWasAsked ==
  [][\A k \in Keys : held[k] # None /\ held'[k] = None /\ accepted' # accepted =>
       \A o \in Owners, a \in Assets :
         Holdings(Unspent', o, a) - Holdings(Unspent, o, a) = Due(held[k], o, a)]_vars

\* Every flow of the SDK names the chain's own currency as the fee's.
FeesAreNative == \A t \in Transfers : t.fee_currency = Native

\* What was prepared is acceptable for as long as its coins are unspent and
\* it has not expired, whatever else happened in between.
PreparedIsAcceptable ==
  \A k \in Keys : held[k] # None =>
    LET h == held[k] IN
    ({h.tx.ins[i].id : i \in DOMAIN h.tx.ins} \cap spent = {} /\ Live(h.expiry, height))
      => Acceptable(h)

\* What the documentation of build_conversion_transaction says: the tokens the
\* inputs bring are consumed by the conversion or come back, and no more is
\* consumed than was brought.
TokensAreConserved ==
  \A k \in Keys : held[k] # None =>
    \A t \in Tokens : Total(held[k].tx.ins, t) = Total(held[k].tx.outs, t)

\* Some builder takes the coin: money that a builder put somewhere can be
\* moved again.
Movable(c) ==
  \/ c.owner \in Keys /\ (KeySpendable(c) \/ c.shape = "offer")
  \/ \E i \in Identities : \/ IsPaymentTo(c, i)
                           \/ /\ \E t \in Tokens : HoldsOnly(c, t)
                              /\ c.owner = i /\ Sat(c) = 0

NothingIsStranded ==
  \A c \in coins : c.id[1] > 0 /\ c.owner # Protocol => Movable(c)
=============================================================================
