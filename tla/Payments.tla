------------------------------ MODULE Payments ------------------------------
(***************************************************************************)
(* A wallet paying from its own address (src/crates/verus-flows: funding,  *)
(* send, broadcast).  Each payment reads the tip, the confirmed outputs    *)
(* and the mempool, builds a deterministic transaction from what it read,  *)
(* and hands it to a node whose answer may be lost.  An uncertain          *)
(* broadcast is resolved as broadcast.rs prescribes: one read, and the     *)
(* same bytes again when the node does not know them.  A broadcast that    *)
(* returns any other error is over, and the application makes the payment  *)
(* from the beginning.                                                     *)
(*                                                                         *)
(* The three reads are issued together and answered separately, in any     *)
(* order (a driver fetches them concurrently); blocks arrive in between.   *)
(* A transaction that left this node's mempool is still known to others    *)
(* and may be mined until it expires.  There are no reorganisations here.  *)
(***************************************************************************)
EXTENDS Naturals, FiniteSets, FiniteSetsExt

CONSTANTS
  None,
  Payments,          \* 1..n: what the application wants paid, in this order
  Amount,            \* [Payments -> Nat], all to one recipient
  Confirmed,         \* the outputs the address starts with
  FEE,               \* the miner fee of a payment
  EXPIRY_BLOCKS,     \* DEFAULT_EXPIRY_BLOCKS
  SOON,              \* blocks before its expiry a node stops relaying
  COINBASE_MATURITY,
  FirstHeight,       \* height the chain starts at
  MaxHeight,         \* bound: height the chain grows to
  MaxLosses          \* bound: answers lost or wrong, transactions evicted

ASSUME PaymentsAssumption ==
  /\ IsFiniteSet(Payments) /\ Payments = 1..Cardinality(Payments)
  /\ Amount \in [Payments -> Nat \ {0}]
  /\ Confirmed \subseteq [value : Nat, height : Nat, coinbase : BOOLEAN, tx : {None}]
  /\ IsFiniteSet(Confirmed)
  /\ FEE \in Nat /\ EXPIRY_BLOCKS \in Nat /\ SOON \in Nat
  /\ COINBASE_MATURITY \in Nat \ {0} /\ FirstHeight \in Nat
  /\ MaxHeight \in Nat /\ MaxLosses \in Nat

VARIABLES
  height,   \* the node's tip
  mined,    \* [transaction -> height it was mined at], its domain what is mined
  pool,     \* this node's mempool
  net,      \* transactions any node has relayed
  losses,
  current,  \* the payment being made
  pc,       \* where its call is
  seen,     \* answers to the three reads, None until they are in
  held,     \* the signed transaction, the Unsent
  paid,     \* [payment -> the transaction the caller was told is sent]
  built,    \* [payment -> transactions ever signed for it]
  disowned  \* history: what broadcast said of bytes it called unsent although
            \* a node had relayed them

node   == <<height, mined, pool, net>>
caller == <<current, pc, seen, held, paid, built, disowned>>
vars   == <<node, losses, caller>>

-----------------------------------------------------------------------------
(***************************************************************************)
(* The node                                                                *)
(***************************************************************************)
Value(S) == MapThenSumSet(LAMBDA c : c.value, S)

\* What a transaction returns to the wallet, as a coin once mined at h.
Change(t, h) ==
  LET left == Value(t.ins) - t.pays - FEE IN
  IF left > 0 THEN {[value |-> left, height |-> h, coinbase |-> FALSE, tx |-> t]} ELSE {}

Spent == UNION {t.ins : t \in DOMAIN mined}

\* getaddressutxos: confirmed outputs only, spent in the mempool or not.
Unspent == (Confirmed \cup UNION {Change(t, mined[t]) : t \in DOMAIN mined}) \ Spent

confirmations(c, tip) == IF tip \geq c.height THEN tip - c.height + 1 ELSE 1

Mature(c, tip) == c.coinbase => confirmations(c, tip) \geq COINBASE_MATURITY

Fits(t, S) == t.ins \subseteq S /\ height < t.expiry

\* A block carries any compatible part of what the network knows.
Mine ==
  /\ height < MaxHeight
  /\ \E B \in SUBSET {t \in net \ DOMAIN mined : Fits(t, Unspent)} :
       /\ \A t, u \in B : t # u => t.ins \cap u.ins = {}
       /\ mined' = [t \in DOMAIN mined \cup B |-> IF t \in B THEN height + 1 ELSE mined[t]]
       /\ pool' = {t \in pool \ B : /\ t.expiry > height + 1
                                    /\ \A u \in B : t.ins \cap u.ins = {}}
  /\ height' = height + 1
  /\ UNCHANGED <<net, losses, caller>>

\* The node forgets a transaction; others may still hold it.
Evict ==
  /\ losses < MaxLosses
  /\ \E t \in pool : pool' = pool \ {t}
  /\ losses' = losses + 1
  /\ UNCHANGED <<height, mined, net, caller>>

Knows(t) == t \in pool \/ t \in DOMAIN mined

\* A node relays nothing that is about to expire.
ExpiringSoon(t) == height + SOON \geq t.expiry

Acceptable(t) ==
  /\ ~Knows(t) /\ ~ExpiringSoon(t) /\ t.ins \subseteq Unspent
  /\ \A u \in pool : u.ins \cap t.ins = {}
  /\ \A c \in t.ins : Mature(c, height)

\* What sendrawtransaction may answer: -27 and "already in mempool" both count
\* as "known", and missing inputs are reported under either code.
Answers(t) ==
  IF Knows(t) THEN {"known"}
  ELSE IF Acceptable(t) THEN {"accepted"}
  ELSE IF ~ExpiringSoon(t) /\ ~(t.ins \subseteq Unspent) THEN {"-25", "-26"}
  ELSE {"-26"}

\* What hearing t does to the node.
Hears(t) ==
  IF Acceptable(t) THEN pool' = pool \cup {t} /\ net' = net \cup {t}
  ELSE UNCHANGED <<pool, net>>

-----------------------------------------------------------------------------
(***************************************************************************)
(* funding::spendable                                                      *)
(***************************************************************************)
Unread == [tip |-> None, coins |-> None, spent |-> None]

\* The outpoints unconfirmed transactions consume.
already_spent == UNION {t.ins : t \in pool}

\* Mutant: a coinbase is spendable one block early.
spendable_Early ==
  LET coinbaseHeights == {c.height : c \in {d \in seen.coins : d.coinbase}} IN
  {c \in seen.coins \ seen.spent : \/ c.height \notin coinbaseHeights
                                   \/ confirmations(c, seen.tip) \geq COINBASE_MATURITY - 1}

\* Coins at the height of a young coinbase are withheld with it.
spendable ==
  LET young == {c \in seen.coins : confirmations(c, seen.tip) < COINBASE_MATURITY}
      coinbaseHeights == {c.height : c \in {d \in young : d.coinbase}}
  IN {c \in seen.coins \ seen.spent : \/ c.height \notin coinbaseHeights
                                      \/ confirmations(c, seen.tip) \geq COINBASE_MATURITY}

\* select_utxos: the most valuable coins, no more of them than are needed.
\* A function of what was read, like the code.
select_utxos(S, required) ==
  LET Enough == {T \in SUBSET S : Value(T) \geq required + FEE}
      Fewest == {T \in Enough : \A U \in Enough : Cardinality(T) \leq Cardinality(U)}
  IN IF Enough = {} THEN {}
     ELSE CHOOSE T \in Fewest : \A U \in Fewest : Value(U) \leq Value(T)

-----------------------------------------------------------------------------
(***************************************************************************)
(* The caller                                                              *)
(***************************************************************************)
\* The call is over; the next payment starts from nothing.
Forget == pc' = "idle" /\ seen' = Unread /\ held' = None

Start ==
  /\ pc = "idle" /\ current \in Payments
  /\ pc' = "reading"
  /\ UNCHANGED <<node, losses, current, seen, held, paid, built, disowned>>

ReadTip ==
  /\ pc = "reading" /\ seen.tip = None
  /\ height + EXPIRY_BLOCKS \leq MaxHeight     \* bound
  /\ seen' = [seen EXCEPT !.tip = height]
  /\ UNCHANGED <<node, losses, current, pc, held, paid, built, disowned>>

ReadCoins ==
  /\ pc = "reading" /\ seen.coins = None
  /\ seen' = [seen EXCEPT !.coins = Unspent]
  /\ UNCHANGED <<node, losses, current, pc, held, paid, built, disowned>>

ReadMempool ==
  /\ pc = "reading" /\ seen.spent = None
  /\ seen' = [seen EXCEPT !.spent = already_spent]
  /\ UNCHANGED <<node, losses, current, pc, held, paid, built, disowned>>

\* best_effort_spent: a mempool that cannot be had withholds nothing, any
\* other read that fails ends the call before anything is signed.
ReadLost ==
  /\ pc = "reading" /\ losses < MaxLosses
  /\ losses' = losses + 1
  /\ \/ /\ seen.spent = None
        /\ seen' = [seen EXCEPT !.spent = {}]
        /\ UNCHANGED <<pc, held>>
     \/ /\ seen.tip = None \/ seen.coins = None
        /\ Forget
  /\ UNCHANGED <<node, current, paid, built, disowned>>

\* prepare_send: signed from what was read, and from nothing else.
Build ==
  /\ pc = "reading" /\ seen.tip # None /\ seen.coins # None /\ seen.spent # None
  /\ LET ins == select_utxos(spendable, Amount[current])
         t   == [ins |-> ins, pays |-> Amount[current], expiry |-> seen.tip + EXPIRY_BLOCKS]
     IN IF ins = {} THEN Forget /\ UNCHANGED built
        ELSE /\ held' = t /\ pc' = "send"
             /\ built' = [built EXCEPT ![current] = @ \cup {t}]
             /\ UNCHANGED seen
  /\ UNCHANGED <<node, losses, current, paid, disowned>>

\* The operation is done as far as the caller was told.
Done ==
  /\ paid' = [paid EXCEPT ![current] = held]
  /\ current' = current + 1
  /\ Forget
  /\ UNCHANGED disowned

\* Mutant: no answer is reported as a refusal.
Uncertain_Refused == Forget /\ UNCHANGED <<current, paid, disowned>>

\* BroadcastUncertain hands the bytes back.
Uncertain ==
  /\ pc' = "uncertain"
  /\ UNCHANGED <<current, seen, held, paid, disowned>>

\* Any other error is a known outcome: these bytes are not sent.
Refused(why) ==
  /\ Forget
  /\ disowned' = IF held \in net' THEN disowned \cup {[tx |-> held, why |-> why]} ELSE disowned
  /\ UNCHANGED <<current, paid>>

\* Mutant: a refusal is dressed up as uncertainty.
Broadcast_RefusalUncertain ==
  /\ pc = "send"
  /\ Hears(held)
  /\ \E answer \in Answers(held) :
       \/ answer \in {"known", "accepted"} /\ Done
       \/ answer \in {"-25", "-26"} /\ Uncertain
  /\ UNCHANGED <<height, mined, losses, built>>

\* broadcast: accepted, known, in doubt (-25), or refused - whatever became of
\* the same bytes before.
Broadcast ==
  /\ pc = "send"
  /\ Hears(held)
  /\ \E answer \in Answers(held) :
       \/ answer \in {"known", "accepted"} /\ Done
       \/ answer = "-25" /\ Uncertain
       \/ answer = "-26" /\ Refused("rejected")
  /\ UNCHANGED <<height, mined, losses, built>>

\* The node heard it or not; no answer came.
BroadcastUnanswered ==
  /\ pc = "send" /\ losses < MaxLosses
  /\ losses' = losses + 1
  /\ Hears(held) \/ UNCHANGED <<pool, net>>
  /\ Uncertain
  /\ UNCHANGED <<height, mined, built>>

\* The answer names another txid (NotReady), or the server does not relay for
\* anybody (MethodUnavailable).
BroadcastMisanswered ==
  /\ pc = "send" /\ losses < MaxLosses
  /\ losses' = losses + 1
  /\ \/ (Hears(held) \/ UNCHANGED <<pool, net>>) /\ Refused("another txid")
     \/ UNCHANGED <<pool, net>> /\ Refused("not served")
  /\ UNCHANGED <<height, mined, built>>

\* The documented resolution: Some(_) means nothing to do.
ResolveKnown ==
  /\ pc = "uncertain" /\ Knows(held)
  /\ Done
  /\ UNCHANGED <<node, losses, built>>

\* None: the same bytes go out again, however old they are.
ResolveAgain ==
  /\ pc = "uncertain" /\ ~Knows(held)
  /\ pc' = "send"
  /\ UNCHANGED <<node, losses, current, seen, held, paid, built, disowned>>

Init ==
  /\ height = FirstHeight /\ mined = [t \in {} |-> 0] /\ pool = {} /\ net = {}
  /\ losses = 0
  /\ current = 1 /\ pc = "idle" /\ seen = Unread /\ held = None
  /\ paid = [p \in Payments |-> None] /\ built = [p \in Payments |-> {}]
  /\ disowned = {}

Caller ==
  \/ Start \/ ReadTip \/ ReadCoins \/ ReadMempool \/ Build
  \/ Broadcast \/ ResolveKnown \/ ResolveAgain

Next ==
  \/ Mine \/ Evict \/ Caller
  \/ ReadLost \/ BroadcastUnanswered \/ BroadcastMisanswered

Spec == Init /\ [][Next]_vars

\* Blocks come; the application keeps trying.
FairSpec == Spec /\ WF_vars(Mine) /\ WF_vars(Caller)

-----------------------------------------------------------------------------
(***************************************************************************)
(* Properties                                                              *)
(***************************************************************************)

\* The payments the application asked for so far.
Begun == {p \in Payments : p < current \/ (p = current /\ pc # "idle")}

\* Bytes that were out when broadcast told the caller they were not sent.
Disowned == {d.tx : d \in disowned}

\* No lost answer, -25, eviction, failed read or restarted payment makes the
\* wallet pay again with other bytes: the recipient is paid no amount more
\* often than the application asked so far, but for bytes broadcast had called
\* refused, or another's, while they were out.
NoDoublePayment ==
  \A v \in {t.pays : t \in DOMAIN mined} :
     Cardinality({t \in DOMAIN mined \ Disowned : t.pays = v})
       \leq Cardinality({p \in Begun : Amount[p] = v})

\* "A rejection is different and is not ambiguous": bytes a node rejected are
\* never mined.
RejectionsAreFinal ==
  \A d \in disowned : d.why = "rejected" => d.tx \notin DOMAIN mined

\* A signed transaction spends no coinbase a node would call premature.
NeverPremature ==
  \A p \in Payments : \A t \in built[p] : \A c \in t.ins :
     Mature(c, t.expiry - EXPIRY_BLOCKS)

\* Every broadcast settles: resolving it as documented, the caller is told in
\* the end that the bytes are sent or that they are refused, whatever is lost
\* on the way.
BroadcastSettles == [](pc \in {"send", "uncertain"} => <>(pc = "idle"))
=============================================================================
