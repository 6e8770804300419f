--------------------------- MODULE PaymentsProofs ---------------------------
(***************************************************************************)
(* What holds of Payments for any number of payments, any coins and any    *)
(* interleaving of reads, blocks, evictions and lost answers: nothing is   *)
(* paid more often than asked.                                             *)
(*                                                                         *)
(* Counting what was mined is not inductive.  What is: whatever was mined, *)
(* or still can be, is what the caller was told is sent for a payment, or  *)
(* is in the caller's hand, or was out when broadcast called it refused.   *)
(***************************************************************************)
EXTENDS Payments, CoinSelection, Sums

Count == Cardinality(Payments)

\* A transaction that was mined, or that somebody may still mine.
Live(t) == t \in DOMAIN mined \/ (t \in net /\ height < t.expiry)

Told(t) == \E r \in Payments : r < current /\ paid[r] = t /\ t.pays = Amount[r]

Sending == pc \in {"send", "uncertain"}

\* Every variable the argument reads has its type.
TypeInv ==
  /\ height \in Nat
  /\ current \in Nat
  /\ pc \in {"idle", "reading", "send", "uncertain"}
  /\ pc # "idle" => current \in Payments
  /\ DOMAIN seen = {"tip", "coins", "spent"} /\ seen.tip \in Nat \cup {None}
  /\ DOMAIN paid = Payments
  /\ DOMAIN mined \subseteq net
  /\ \A t \in net : t.expiry \in Nat
  /\ Sending => held.expiry \in Nat /\ held.pays = Amount[current]

\* Nothing that lives is forgotten, but for what broadcast disowned.
NothingLivesForgotten == \A t \in net : Live(t) => Told(t) \/ (Sending /\ t = held) \/ t \in Disowned

IInv == TypeInv /\ NothingLivesForgotten

-----------------------------------------------------------------------------
LEMMA PaymentsAreNumbers == Count \in Nat /\ Payments = 1..Count /\ Payments \subseteq Nat
BY PaymentsAssumption, FS_CardinalityType DEF Count

LEMMA InitHolds == Init => IInv
<1> SUFFICES ASSUME Init PROVE IInv
  OBVIOUS
<1>1. DOMAIN seen = {"tip", "coins", "spent"} /\ seen.tip = None
  BY DEF Init, Unread
<1>2. DOMAIN mined = {} /\ DOMAIN paid = Payments /\ net = {} /\ pc = "idle"
  BY DEF Init
<1>3. height \in Nat /\ current \in Nat
  BY PaymentsAssumption DEF Init
<1> QED
  BY <1>1, <1>2, <1>3 DEF IInv, TypeInv, NothingLivesForgotten, Sending

\* Blocks make nothing live that did not: they carry what the network knew.
LEMMA MineKeeps == ASSUME IInv, Mine PROVE IInv'
<1> USE DEF IInv
<1>1. /\ height' = height + 1
      /\ UNCHANGED <<net, current, pc, seen, held, paid, disowned>>
  BY DEF Mine, caller
<1>2. PICK B \in SUBSET {t \in net \ DOMAIN mined : Fits(t, Unspent)} :
        mined' = [t \in DOMAIN mined \cup B |-> IF t \in B THEN height + 1 ELSE mined[t]]
  BY DEF Mine
<1>3. DOMAIN mined' = DOMAIN mined \cup B
  BY <1>2
<1>4. \A t \in B : t \in net /\ height < t.expiry
  BY <1>2 DEF Fits
<1>5. TypeInv'
  BY <1>1, <1>3, <1>4 DEF TypeInv, Sending
<1>6. \A t : Live(t)' => t \in net /\ Live(t)
  BY <1>1, <1>3, <1>4 DEF Live, TypeInv
<1>7. NothingLivesForgotten'
  BY <1>1, <1>6 DEF NothingLivesForgotten, Told, Sending, Disowned
<1> QED BY <1>5, <1>7

\* Steps that leave the network, the books and the transaction in hand alone.
LEMMA QuietKeeps ==
  ASSUME IInv, UNCHANGED <<height, mined, net, current, held, paid, disowned>>,
         pc' \in {"idle", "reading", "send", "uncertain"},
         Sending' <=> Sending,
         pc' # "idle" => current \in Payments,
         DOMAIN seen' = {"tip", "coins", "spent"}, seen.tip' \in Nat \cup {None}
  PROVE  IInv'
<1> USE DEF IInv
<1>1. TypeInv'
  BY DEF TypeInv
<1>2. NothingLivesForgotten'
  BY DEF NothingLivesForgotten, Live, Told, Disowned
<1> QED BY <1>1, <1>2

\* A call that ends keeps the promise when what it had in hand does not live,
\* is the bytes of an earlier payment, or is disowned.
LEMMA ForgetKeeps ==
  ASSUME IInv, Forget, UNCHANGED <<height, mined, current, paid>>,
         net' = net \/ (Sending /\ net' = net \cup {held}),
         disowned \subseteq disowned',
         \A t : Sending /\ t = held /\ Live(t)' => Told(t) \/ t \in Disowned'
  PROVE  IInv'
<1> USE DEF IInv
<1>1. DOMAIN seen' = {"tip", "coins", "spent"} /\ seen.tip' = None /\ pc' = "idle"
  BY DEF Forget, Unread
<1>2. TypeInv'
  <2>1. \A t \in net' : t.expiry \in Nat
    BY DEF TypeInv
  <2> QED BY <1>1, <2>1 DEF TypeInv, Sending
<1>3. \A t : t \in Disowned => t \in Disowned'
  BY DEF Disowned
<1>4. \A t \in net : Live(t)' => Live(t)
  BY DEF Live
<1>5. \A t : Told(t)' <=> Told(t)
  BY DEF Told
<1>6. NothingLivesForgotten'
  BY <1>1, <1>3, <1>4, <1>5 DEF NothingLivesForgotten
<1> QED BY <1>2, <1>6

\* A call that ends in success turns what is in hand into what was told.
LEMMA DoneKeeps ==
  ASSUME IInv, Sending, Done, UNCHANGED <<height, mined>>,
         net' = net \/ net' = net \cup {held}
  PROVE  IInv'
<1> USE DEF IInv
<1>1. /\ DOMAIN seen' = {"tip", "coins", "spent"} /\ seen.tip' = None
      /\ pc' = "idle" /\ current' = current + 1 /\ disowned' = disowned
      /\ paid' = [paid EXCEPT ![current] = held]
  BY DEF Done, Forget, Unread
<1>2. current \in Payments /\ current \in Nat /\ Payments \subseteq Nat
  BY PaymentsAreNumbers DEF TypeInv, Sending
<1>3. /\ DOMAIN paid' = Payments /\ paid'[current] = held
      /\ \A r \in Payments : r # current => paid'[r] = paid[r]
  BY <1>1, <1>2 DEF TypeInv
<1>4. TypeInv'
  <2>1. \A t \in net' : t.expiry \in Nat
    BY DEF TypeInv
  <2>2. DOMAIN mined' \subseteq net'
    BY DEF TypeInv
  <2>3. ~Sending' /\ height' \in Nat
    BY <1>1 DEF Sending, TypeInv
  <2>4. current' \in Nat
    BY <1>1, <1>2
  <2> QED BY <1>1, <1>3, <2>1, <2>2, <2>3, <2>4 DEF TypeInv
<1>5. \A t : t = held \/ Told(t) => Told(t)'
  <2>1. held.pays = Amount[current]
    BY DEF TypeInv
  <2>2. ASSUME NEW t, Told(t) PROVE Told(t)'
    <3>1. PICK r \in Payments : r < current /\ paid[r] = t /\ t.pays = Amount[r]
      BY <2>2 DEF Told
    <3>2. r # current /\ r < current + 1
      BY <1>2, <3>1
    <3>3. r < current' /\ paid'[r] = t
      BY <1>1, <1>3, <3>1, <3>2
    <3> QED BY <3>1, <3>3 DEF Told
  <2>3. current < current' /\ paid'[current] = held
    BY <1>1, <1>2, <1>3
  <2>4. ASSUME NEW t, t = held PROVE Told(t)'
    <3>1. paid'[current] = t /\ t.pays = Amount[current]
      BY <2>1, <2>3, <2>4
    <3> QED BY <1>2, <2>3, <3>1 DEF Told
  <2> QED BY <2>2, <2>4
<1>6. \A t \in net' : Live(t)' => t = held \/ (t \in net /\ Live(t))
  BY DEF Live, TypeInv
<1>7. NothingLivesForgotten'
  BY <1>1, <1>5, <1>6 DEF NothingLivesForgotten, Disowned
<1> QED BY <1>4, <1>7

\* A call whose bytes are now in doubt keeps them in hand.
LEMMA UncertainKeeps ==
  ASSUME IInv, pc = "send", Uncertain, UNCHANGED <<height, mined>>,
         net' = net \/ net' = net \cup {held}
  PROVE  IInv'
<1> USE DEF IInv
<1>1. pc' = "uncertain" /\ UNCHANGED <<current, seen, held, paid, disowned>>
  BY DEF Uncertain
<1>2. TypeInv'
  BY <1>1 DEF TypeInv, Sending
<1>3. NothingLivesForgotten'
  BY <1>1 DEF NothingLivesForgotten, Live, Told, Sending, Disowned
<1> QED BY <1>2, <1>3

\* What prepare_send signs is new to the promise: what lives was told, or is
\* disowned, before it was signed.
LEMMA BuildKeeps == ASSUME IInv, Build PROVE IInv'
<1> USE DEF IInv
<1> DEFINE ins == select_utxos(spendable, Amount[current])
           tx  == [ins |-> ins, pays |-> Amount[current], expiry |-> seen.tip + EXPIRY_BLOCKS]
<1>1. UNCHANGED <<height, mined, net, current, paid, disowned>> /\ pc = "reading" /\ seen.tip # None
  BY DEF Build, node
<1>2. CASE ins = {}
  <2>1. Forget
    BY <1>2 DEF Build
  <2> QED BY <1>1, <2>1, ForgetKeeps DEF Sending
<1>3. CASE ins # {}
  <2>1. held' = tx /\ pc' = "send" /\ UNCHANGED seen
    BY <1>3 DEF Build
  <2>2. held'.pays = Amount[current] /\ held'.expiry = seen.tip + EXPIRY_BLOCKS
    BY <2>1
  <2>3. held'.expiry \in Nat
    BY <1>1, <2>2, PaymentsAssumption DEF TypeInv
  <2>4. TypeInv'
    BY <1>1, <2>1, <2>2, <2>3 DEF TypeInv, Sending
  <2>5. \A t : Live(t) => Told(t) \/ t \in Disowned
    BY <1>1 DEF Live, TypeInv, NothingLivesForgotten, Sending
  <2>6. NothingLivesForgotten'
    BY <1>1, <2>1, <2>5 DEF NothingLivesForgotten, Live, Told, Disowned
  <2> QED BY <2>4, <2>6
<1> QED BY <1>2, <1>3

\* A refusal disowns what it refuses if that is out.
LEMMA RefusedKeeps ==
  ASSUME IInv, pc = "send", NEW why, Refused(why), UNCHANGED <<height, mined>>,
         net' = net \/ net' = net \cup {held}
  PROVE  IInv'
<1>1. /\ Forget /\ UNCHANGED <<current, paid>>
      /\ disowned' = IF held \in net' THEN disowned \cup {[tx |-> held, why |-> why]} ELSE disowned
  BY DEF Refused
<1>2. disowned \subseteq disowned' /\ Sending
  BY <1>1 DEF Sending
<1>3. ASSUME NEW t, t = held, Live(t)' PROVE t \in Disowned'
  <2>1. t \in net'
    BY <1>3 DEF Live, IInv, TypeInv
  <2>2. [tx |-> t, why |-> why] \in disowned'
    BY <1>1, <1>3, <2>1
  <2>3. [tx |-> t, why |-> why].tx = t
    OBVIOUS
  <2> QED BY <2>2, <2>3 DEF Disowned
<1> QED BY <1>1, <1>2, <1>3, ForgetKeeps

LEMMA BroadcastKeeps == ASSUME IInv, Broadcast PROVE IInv'
<1>1. /\ pc = "send" /\ UNCHANGED <<height, mined>> /\ Sending
      /\ net' = net \/ net' = net \cup {held}
  BY DEF Broadcast, Hears, Sending
<1>2. Done \/ Uncertain \/ Refused("rejected")
  BY DEF Broadcast
<1> QED BY <1>1, <1>2, DoneKeeps, UncertainKeeps, RefusedKeeps

LEMMA MisansweredKeeps == ASSUME IInv, BroadcastMisanswered PROVE IInv'
<1>1. /\ pc = "send" /\ UNCHANGED <<height, mined>>
      /\ net' = net \/ net' = net \cup {held}
  BY DEF BroadcastMisanswered, Hears
<1>2. Refused("another txid") \/ Refused("not served")
  BY DEF BroadcastMisanswered
<1> QED BY <1>1, <1>2, RefusedKeeps

LEMMA ResolveKeeps ==
  ASSUME IInv, ResolveKnown \/ ResolveAgain PROVE IInv'
<1>1. CASE ResolveKnown
  BY <1>1, DoneKeeps DEF ResolveKnown, node, Sending
<1>2. CASE ResolveAgain
  <2>1. pc = "uncertain" /\ pc' = "send"
    BY <1>2 DEF ResolveAgain
  <2>2. UNCHANGED <<height, mined, net, current, held, paid, seen, disowned>>
    BY <1>2 DEF ResolveAgain, node
  <2> QED BY <2>1, <2>2, QuietKeeps DEF IInv, TypeInv, Sending
<1> QED BY <1>1, <1>2

\* Reading changes nothing but what was read; losing an answer ends the call
\* before there is anything in hand.
LEMMA ReadKeeps ==
  ASSUME IInv, Start \/ ReadTip \/ ReadCoins \/ ReadMempool \/ ReadLost PROVE IInv'
<1>1. CASE Start
  BY <1>1, QuietKeeps DEF Start, node, IInv, TypeInv, Sending
<1>2. CASE ReadTip \/ ReadCoins \/ ReadMempool
  <2>1. DOMAIN seen' = {"tip", "coins", "spent"} /\ seen.tip' \in Nat \cup {None}
    BY <1>2 DEF ReadTip, ReadCoins, ReadMempool, IInv, TypeInv
  <2>2. UNCHANGED <<height, mined, net, current, held, paid, pc, disowned>> /\ pc = "reading"
    BY <1>2 DEF ReadTip, ReadCoins, ReadMempool, node
  <2> QED BY <2>1, <2>2, QuietKeeps DEF IInv, TypeInv, Sending
<1>3. CASE ReadLost
  <2>1. UNCHANGED <<height, mined, net, current, paid, disowned>> /\ pc = "reading"
    BY <1>3 DEF ReadLost, node
  <2>2. CASE Forget
    BY <2>1, <2>2, ForgetKeeps DEF Sending
  <2>3. CASE seen' = [seen EXCEPT !.spent = {}] /\ UNCHANGED <<pc, held>>
    <3>1. DOMAIN seen' = {"tip", "coins", "spent"} /\ seen.tip' \in Nat \cup {None}
      BY <2>3 DEF IInv, TypeInv
    <3> QED BY <2>1, <2>3, <3>1, QuietKeeps DEF IInv, TypeInv, Sending
  <2> QED BY <1>3, <2>2, <2>3 DEF ReadLost
<1> QED BY <1>1, <1>2, <1>3

LEMMA NextKeeps == ASSUME IInv, [Next]_vars PROVE IInv'
<1>1. CASE Mine
  BY <1>1, MineKeeps
<1>2. CASE Evict
  <2>1. UNCHANGED <<height, mined, net, current, pc, seen, held, paid, disowned>>
    BY <1>2 DEF Evict, caller
  <2> QED BY <2>1, QuietKeeps DEF IInv, TypeInv, Sending
<1>3. CASE Build
  BY <1>3, BuildKeeps
<1>4. CASE Broadcast
  BY <1>4, BroadcastKeeps
<1>5. CASE BroadcastUnanswered
  BY <1>5, UncertainKeeps DEF BroadcastUnanswered, Hears
<1>6. CASE ResolveKnown \/ ResolveAgain
  BY <1>6, ResolveKeeps
<1>9. CASE BroadcastMisanswered
  BY <1>9, MisansweredKeeps
<1>7. CASE Start \/ ReadTip \/ ReadCoins \/ ReadMempool \/ ReadLost
  BY <1>7, ReadKeeps
<1>8. CASE UNCHANGED vars
  BY <1>8, QuietKeeps DEF vars, node, caller, IInv, TypeInv, Sending
<1> QED
  BY <1>1, <1>2, <1>3, <1>4, <1>5, <1>6, <1>7, <1>8, <1>9 DEF Next, Caller

LEMMA Inductive == Spec => []IInv
BY InitHolds, NextKeeps, PTL DEF Spec

-----------------------------------------------------------------------------
\* Each mined transaction of an amount, unless disowned, is that of another
\* payment begun.
LEMMA MinedAreAsked ==
  ASSUME IInv, NEW v
  PROVE  Cardinality({t \in DOMAIN mined \ Disowned : t.pays = v}) \leq Cardinality({p \in Begun : Amount[p] = v})
<1> DEFINE Paying == {t \in DOMAIN mined \ Disowned : t.pays = v}
           Asking == {p \in Begun : Amount[p] = v}
           sent   == [p \in Asking |-> IF p < current THEN paid[p] ELSE held]
           Sent   == {sent[p] : p \in Asking}
<1>1. IsFiniteSet(Asking) /\ IsFiniteSet(Sent) /\ Cardinality(Sent) \leq Cardinality(Asking)
  <2>1. IsFiniteSet(Asking)
    BY PaymentsAssumption, FS_Subset DEF Begun
  <2>2. sent \in Surjection(Asking, Sent)
    BY DEF Surjection
  <2> QED BY <2>1, <2>2, FS_Surjection
<1>2. Paying \subseteq Sent
  <2> SUFFICES ASSUME NEW t \in DOMAIN mined \ Disowned, t.pays = v PROVE \E p \in Asking : sent[p] = t
    OBVIOUS
  <2>1. Told(t) \/ (Sending /\ t = held)
    BY DEF IInv, TypeInv, NothingLivesForgotten, Live
  <2>2. CASE Told(t)
    BY <2>2 DEF Told, Begun
  <2>3. CASE Sending /\ t = held
    <3>1. current \in Asking /\ ~(current < current)
      BY <2>3, PaymentsAreNumbers DEF Begun, IInv, TypeInv, Sending
    <3> QED BY <2>3, <3>1
  <2> QED BY <2>1, <2>2, <2>3
<1>3. Cardinality(Paying) \leq Cardinality(Sent)
  BY <1>1, <1>2, FS_Subset
<1>4. Cardinality(Paying) \in Nat /\ Cardinality(Sent) \in Nat /\ Cardinality(Asking) \in Nat
  BY <1>1, <1>2, FS_Subset, FS_CardinalityType
<1> QED BY <1>1, <1>3, <1>4

\* However answers, blocks, evictions, restarts and reads fall, the recipient
\* is paid no amount more often than the application asked so far, but for
\* bytes that were out when broadcast called them refused or another's.
THEOREM NothingIsPaidTwice == Spec => []NoDoublePayment
<1>1. IInv => NoDoublePayment
  BY MinedAreAsked DEF NoDoublePayment
<1> QED BY <1>1, Inductive, PTL

-----------------------------------------------------------------------------
(***************************************************************************)
(* Which coins are spent                                                   *)
(***************************************************************************)
\* What an explorer lists of an output.
IsCoin(c) == c.value \in Nat /\ c.height \in Nat /\ c.coinbase \in BOOLEAN

AreCoins(S) == IsFiniteSet(S) /\ \A c \in S : IsCoin(c)

\* What coins are worth together is their sum.
LEMMA ValueIsTotal ==
  ASSUME NEW S, AreCoins(S)
  PROVE  Value(S) = SumOver([c \in S |-> c.value], S)
<1> DEFINE v == [c \in S |-> c.value]
           first(s) == CHOOSE x \in s : TRUE
           it == CHOOSE f : f = [s \in SUBSET S |->
                    IF s = {} THEN 0 ELSE first(s).value + f[s \ {first(s)}]]
<1>1. Value(S) = it[S]
  BY DEF Value, MapThenSumSet, MapThenFoldSet
<1>7. v \in [S -> Int] /\ IsFiniteSet(S)
  BY DEF AreCoins, IsCoin
<1>2. PICK g : IsSum(g, v, S)
  BY <1>7, SumExists
<1>3. g = [s \in SUBSET S |-> IF s = {} THEN 0 ELSE first(s).value + g[s \ {first(s)}]]
  <2>1. g \in [SUBSET S -> Int] /\ g[{}] = 0
    BY <1>2 DEF IsSum
  <2>2. ASSUME NEW s \in SUBSET S, s # {}
        PROVE  g[s] = first(s).value + g[s \ {first(s)}]
    <3>1. first(s) \in s
      BY <2>2
    <3> QED BY <1>2, <3>1 DEF IsSum
  <2> QED BY <2>1, <2>2
<1>4. it = [s \in SUBSET S |-> IF s = {} THEN 0 ELSE first(s).value + it[s \ {first(s)}]]
  BY <1>3
<1>5. IsFold(it, v, S)
  <2> HIDE DEF it
  <2>1. it[{}] = 0
    BY <1>4
  <2>2. ASSUME NEW s \in SUBSET S, s # {}
        PROVE  \E x \in s : it[s] = v[x] + it[s \ {x}]
    <3>1. first(s) \in s
      BY <2>2
    <3>2. it[s] = first(s).value + it[s \ {first(s)}]
      BY <1>4, <2>2
    <3> QED BY <3>1, <3>2
  <2> QED BY <2>1, <2>2 DEF IsFold
<1>6. \A s \in SUBSET S : it[s] = g[s]
  <2> HIDE DEF it
  <2> QED BY <1>2, <1>5, <1>7, SumIsWhatAFoldGives
<1> QED BY <1>1, <1>2, <1>6, <1>7, SumIsTotal

LEMMA ValueType == ASSUME NEW S, AreCoins(S) PROVE Value(S) \in Nat
<1>1. [c \in S |-> c.value] \in [S -> Nat] /\ IsFiniteSet(S)
  BY DEF AreCoins, IsCoin
<1> QED BY <1>1, ValueIsTotal, TotalOfNaturals

LEMMA SomeCoins == ASSUME NEW S, AreCoins(S), NEW T \in SUBSET S PROVE AreCoins(T)
BY FS_Subset DEF AreCoins

\* Some of the coins are worth no more than all of them.
LEMMA PartOfValue ==
  ASSUME NEW S, AreCoins(S), NEW T \in SUBSET S
  PROVE  Value(T) \leq Value(S)
<1> DEFINE v == [c \in S |-> c.value]
           inside == [x \in T |-> v[x]]
           outside == [x \in S \ T |-> v[x]]
<1>1. IsFiniteSet(S) /\ v \in [S -> Nat] /\ v \in [S -> Int]
  BY DEF AreCoins, IsCoin
<1>2. SumOver(v, S) = SumOver(inside, T) + SumOver(outside, S \ T)
  <2> HIDE DEF v
  <2> QED BY <1>1, TotalOfParts
<1>3. SumOver(outside, S \ T) \in Nat
  <2>1. outside \in [S \ T -> Nat] /\ IsFiniteSet(S \ T)
    <3>1. S \ T \in SUBSET S
      OBVIOUS
    <3>2. \A x \in S \ T : v[x] \in Nat
      BY <1>1
    <3> QED BY <1>1, <3>1, <3>2, FS_Subset
  <2> HIDE DEF outside
  <2> QED BY <2>1, TotalOfNaturals
<1>4. AreCoins(T)
  BY SomeCoins
<1>5. inside = [c \in T |-> c.value]
  OBVIOUS
<1>6. Value(T) = SumOver(inside, T) /\ Value(T) \in Nat
  BY <1>4, <1>5, ValueIsTotal, ValueType
<1>7. Value(S) = SumOver(v, S)
  BY ValueIsTotal
<1> HIDE DEF v, inside, outside
<1> QED BY <1>2, <1>3, <1>6, <1>7

\* Whatever is required, only coins on offer are taken.
LEMMA OnlyOffered ==
  ASSUME NEW S, AreCoins(S), NEW required
  PROVE  select_utxos(S, required) \subseteq S
<1> DEFINE Enough == {T \in SUBSET S : Value(T) \geq required + FEE}
           Fewest == {T \in Enough : \A U \in Enough : Cardinality(T) \leq Cardinality(U)}
           Best(T) == \A U \in Fewest : Value(U) \leq Value(T)
<1>1. CASE Enough = {}
  BY <1>1 DEF select_utxos
<1>2. CASE Enough # {}
  <2>1. ASSUME NEW T \in SUBSET S
        PROVE  Cardinality(T) \in Nat /\ Value(T) \in Nat /\ Value(T) \leq Value(S)
    <3>1. IsFiniteSet(T) /\ AreCoins(T)
      BY SomeCoins DEF AreCoins
    <3> QED BY <3>1, FS_CardinalityType, ValueType, PartOfValue
  <2>2. Fewest # {}
    <3> DEFINE Sizes == {Cardinality(T) : T \in Enough}
    <3>1. Sizes \subseteq Nat /\ Sizes # {}
      BY <1>2, <2>1
    <3>2. PICK k \in Sizes : \A j \in Sizes : k \leq j
      <4> HIDE DEF Sizes
      <4> QED BY <3>1, LeastNatural
    <3>3. PICK T \in Enough : k = Cardinality(T)
      BY <3>2
    <3>4. \A U \in Enough : Cardinality(T) \leq Cardinality(U)
      BY <3>2, <3>3
    <3> QED BY <3>4
  <2>3. \E T \in Fewest : Best(T)
    <3> DEFINE Short == {Value(S) - Value(T) : T \in Fewest}
    <3>1. Value(S) \in Nat
      BY ValueType
    <3>2. \A T \in Fewest : T \in SUBSET S
      OBVIOUS
    <3> HIDE DEF Fewest
    <3>3. Short \subseteq Nat /\ Short # {}
      BY <2>1, <2>2, <3>1, <3>2
    <3>4. PICK k \in Short : \A j \in Short : k \leq j
      <4> HIDE DEF Short
      <4> QED BY <3>3, LeastNatural
    <3>5. PICK T \in Fewest : k = Value(S) - Value(T)
      BY <3>4
    <3>6. ASSUME NEW U \in Fewest PROVE Value(U) \leq Value(T)
      <4>1. Value(S) - Value(T) \leq Value(S) - Value(U)
        BY <3>4, <3>5
      <4>2. Value(U) \in Nat /\ Value(T) \in Nat
        BY <2>1, <3>2
      <4> QED BY <3>1, <4>1, <4>2
    <3> QED BY <3>6
  <2>4. select_utxos(S, required) = CHOOSE T \in Fewest : Best(T)
    BY <1>2 DEF select_utxos
  <2>5. select_utxos(S, required) \in Fewest
    <3> HIDE DEF Fewest, Best
    <3> QED BY <2>3, <2>4
  <2> QED BY <2>5
<1> QED BY <1>1, <1>2

\* A coinbase offered for spending is mature at the tip that was read.
LEMMA OfferedAreMature ==
  ASSUME AreCoins(seen.coins), seen.tip \in Nat, NEW c \in spendable
  PROVE  Mature(c, seen.tip)
<1>1. c \in seen.coins /\ c.height \in Nat /\ confirmations(c, seen.tip) \in Nat
  BY DEF spendable, AreCoins, IsCoin, confirmations
<1>2. COINBASE_MATURITY \in Nat
  BY PaymentsAssumption
<1> SUFFICES ASSUME c.coinbase, confirmations(c, seen.tip) < COINBASE_MATURITY PROVE FALSE
  BY <1>1, <1>2 DEF Mature
<1> DEFINE young == {d \in seen.coins : confirmations(d, seen.tip) < COINBASE_MATURITY}
           coinbaseHeights == {d.height : d \in {e \in young : e.coinbase}}
<1>3. c.height \in coinbaseHeights
  BY <1>1
<1>4. ~(confirmations(c, seen.tip) \geq COINBASE_MATURITY)
  BY <1>1, <1>2
<1>5. c.height \notin coinbaseHeights \/ confirmations(c, seen.tip) \geq COINBASE_MATURITY
  BY DEF spendable
<1> HIDE DEF coinbaseHeights
<1> QED BY <1>3, <1>4, <1>5

-----------------------------------------------------------------------------
(***************************************************************************)
(* Nothing premature is signed for                                         *)
(***************************************************************************)
IsPayment(t) == AreCoins(t.ins) /\ t.pays \in Nat

\* All that is mined, relayed, read or in hand is made of coins.
MoneyInv ==
  /\ IsFiniteSet(net) /\ \A t \in net : IsPayment(t)
  /\ \A t \in DOMAIN mined : mined[t] \in Nat
  /\ Sending => IsPayment(held)
  /\ seen.coins # None => AreCoins(seen.coins)

SignedInv == DOMAIN built = Payments /\ NeverPremature

\* A change output is worth what is left, and there is one only if anything is.
LEMMA ChangeIsCoins ==
  ASSUME NEW t, IsPayment(t), NEW h \in Nat
  PROVE  AreCoins(Change(t, h))
<1> DEFINE left == Value(t.ins) - t.pays - FEE
           coin == [value |-> left, height |-> h, coinbase |-> FALSE, tx |-> t]
<1>1. Value(t.ins) \in Nat /\ t.pays \in Nat /\ FEE \in Nat
  BY ValueType, PaymentsAssumption DEF IsPayment
<1>2. CASE left > 0
  <2>1. left \in Nat
    BY <1>1, <1>2
  <2>2. coin.value = left /\ coin.height = h /\ coin.coinbase = FALSE
    OBVIOUS
  <2>3. IsCoin(coin) /\ IsFiniteSet({coin})
    <3> HIDE DEF coin, left
    <3> QED BY <2>1, <2>2, FS_Singleton DEF IsCoin
  <2>4. Change(t, h) = {coin}
    BY <1>2 DEF Change
  <2> HIDE DEF coin
  <2> QED BY <2>3, <2>4 DEF AreCoins
<1>3. CASE ~(left > 0)
  BY <1>3, FS_EmptySet DEF Change, AreCoins
<1> QED BY <1>2, <1>3

LEMMA UnspentAreCoins == ASSUME IInv, MoneyInv PROVE AreCoins(Unspent)
<1> DEFINE change(t) == Change(t, mined[t])
           All == {change(t) : t \in DOMAIN mined}
           Listed == Confirmed \cup UNION All
<1>1. \A t \in DOMAIN mined : AreCoins(change(t))
  BY ChangeIsCoins DEF IInv, TypeInv, MoneyInv
<1>2. IsFiniteSet(All)
  <2> DEFINE at == [t \in DOMAIN mined |-> change(t)]
  <2>1. IsFiniteSet(DOMAIN mined)
    BY FS_Subset DEF IInv, TypeInv, MoneyInv
  <2>2. at \in Surjection(DOMAIN mined, All)
    BY DEF Surjection
  <2> HIDE DEF at, All
  <2> QED BY <2>1, <2>2, FS_Surjection
<1>3. IsFiniteSet(UNION All)
  <2>1. \A T \in All : IsFiniteSet(T)
    BY <1>1 DEF AreCoins
  <2> HIDE DEF All
  <2> QED BY <1>2, <2>1, FS_UNION
<1>4. AreCoins(Listed)
  <2>1. IsFiniteSet(Listed)
    <3> HIDE DEF All
    <3> QED BY <1>3, PaymentsAssumption, FS_Union
  <2>2. ASSUME NEW c \in Listed PROVE IsCoin(c)
    <3>1. CASE c \in Confirmed
      BY <3>1, PaymentsAssumption DEF IsCoin
    <3>2. CASE c \in UNION All
      BY <1>1, <3>2 DEF AreCoins
    <3> QED BY <3>1, <3>2
  <2> HIDE DEF Listed
  <2> QED BY <2>1, <2>2 DEF AreCoins
<1>5. Unspent \in SUBSET Listed
  BY DEF Unspent
<1> HIDE DEF Listed
<1> QED BY <1>4, <1>5, SomeCoins

\* Steps that sign nothing and read no coins.
LEMMA NothingNewKeeps ==
  ASSUME IInv, MoneyInv, SignedInv, UNCHANGED <<mined, built>>,
         net' = net \/ (Sending /\ net' = net \cup {held}),
         seen'.coins \in {seen.coins, None},
         Sending' => Sending /\ held' = held
  PROVE  (MoneyInv /\ SignedInv)'
<1>1. SignedInv'
  BY DEF SignedInv, NeverPremature
<1>2. IsFiniteSet(net') /\ \A t \in net' : IsPayment(t)
  BY FS_AddElement DEF MoneyInv
<1> QED BY <1>1, <1>2 DEF MoneyInv

LEMMA MoneyStep == ASSUME IInv, MoneyInv, SignedInv, [Next]_vars PROVE (MoneyInv /\ SignedInv)'
<1> USE DEF Forget, Unread
<1>1. CASE Mine
  <2>1. UNCHANGED <<net, pc, seen, held, built>> /\ height' \in Nat
    BY <1>1 DEF Mine, caller, IInv, TypeInv
  <2>2. \A t \in DOMAIN mined' : mined'[t] \in Nat
    BY <1>1 DEF Mine, IInv, TypeInv, MoneyInv
  <2>3. SignedInv'
    BY <2>1 DEF SignedInv, NeverPremature
  <2> QED BY <2>1, <2>2, <2>3 DEF MoneyInv, Sending
<1>2. CASE Evict
  BY <1>2, NothingNewKeeps DEF Evict, caller, Sending
<1>3. CASE ReadCoins
  <2>1. seen'.coins = Unspent /\ UNCHANGED <<mined, net, pc, held, built>>
    BY <1>3 DEF ReadCoins, node, IInv, TypeInv
  <2>2. AreCoins(seen'.coins)
    BY <2>1, UnspentAreCoins
  <2>3. SignedInv'
    BY <2>1 DEF SignedInv, NeverPremature
  <2> QED BY <2>1, <2>2, <2>3 DEF MoneyInv, Sending
<1>4. CASE Build
  <2> DEFINE ins == select_utxos(spendable, Amount[current])
             tx  == [ins |-> ins, pays |-> Amount[current], expiry |-> seen.tip + EXPIRY_BLOCKS]
  <2>1. /\ pc = "reading" /\ seen.tip \in Nat /\ AreCoins(seen.coins)
        /\ UNCHANGED <<mined, net, current>> /\ current \in Payments
    BY <1>4 DEF Build, node, IInv, TypeInv, MoneyInv
  <2>2. CASE ins = {}
    <3>1. Forget /\ UNCHANGED built
      BY <1>4, <2>2 DEF Build
    <3> QED BY <2>1, <3>1, NothingNewKeeps DEF Sending
  <2>3. CASE ins # {}
    <3>1. /\ held' = tx /\ pc' = "send" /\ UNCHANGED seen
          /\ built' = [built EXCEPT ![current] = @ \cup {tx}]
      BY <1>4, <2>3 DEF Build
    <3>2. spendable \in SUBSET seen.coins
      BY DEF spendable
    <3>3. AreCoins(spendable)
      BY <2>1, <3>2, SomeCoins
    <3>4. ins \in SUBSET spendable
      BY <3>3, OnlyOffered
    <3>5. AreCoins(ins)
      BY <3>3, <3>4, SomeCoins
    <3>6. tx.ins = ins /\ tx.pays = Amount[current] /\ tx.expiry = seen.tip + EXPIRY_BLOCKS
      OBVIOUS
    <3> HIDE DEF ins, tx
    <3>7. IsPayment(tx)
      BY <2>1, <3>5, <3>6, PaymentsAssumption DEF IsPayment
    <3>8. MoneyInv'
      BY <2>1, <3>1, <3>7 DEF MoneyInv
    <3>9. tx.expiry - EXPIRY_BLOCKS = seen.tip
      BY <2>1, <3>6, PaymentsAssumption
    <3>10. \A c \in tx.ins : Mature(c, tx.expiry - EXPIRY_BLOCKS)
      BY <2>1, <3>4, <3>6, <3>9, OfferedAreMature
    <3>11. SignedInv'
      <4>1. DOMAIN built' = Payments /\ built'[current] = built[current] \cup {tx}
            /\ \A p \in Payments \ {current} : built'[p] = built[p]
        BY <2>1, <3>1 DEF SignedInv
      <4> QED BY <3>10, <4>1 DEF SignedInv, NeverPremature
    <3> QED BY <3>8, <3>11
  <2> QED BY <2>2, <2>3
<1>5. CASE Broadcast \/ BroadcastUnanswered \/ BroadcastMisanswered
  <2>1. /\ Sending /\ UNCHANGED <<mined, built>>
        /\ net' = net \/ net' = net \cup {held}
    BY <1>5 DEF Broadcast, BroadcastUnanswered, BroadcastMisanswered, Hears, Sending
  <2>2. seen'.coins \in {seen.coins, None} /\ (Sending' => held' = held)
    <3>1. CASE Done
      BY <3>1 DEF Done, Sending
    <3>2. CASE Uncertain
      BY <3>2 DEF Uncertain
    <3>3. CASE Forget
      BY <3>3 DEF Sending
    <3> QED BY <1>5, <3>1, <3>2, <3>3 DEF Broadcast, BroadcastUnanswered, BroadcastMisanswered, Refused
  <2> QED BY <2>1, <2>2, NothingNewKeeps
<1>6. CASE ResolveKnown \/ ResolveAgain
  <2>1. /\ Sending /\ UNCHANGED <<mined, built, net>>
        /\ seen'.coins \in {seen.coins, None} /\ (Sending' => held' = held)
    BY <1>6 DEF ResolveKnown, ResolveAgain, Done, Sending, node
  <2> QED BY <2>1, NothingNewKeeps
<1>7. CASE Start \/ ReadTip \/ ReadMempool \/ ReadLost
  <2>1. pc \in {"idle", "reading"} /\ pc' \in {"idle", "reading"}
        /\ UNCHANGED <<mined, net, built>>
    BY <1>7 DEF Start, ReadTip, ReadMempool, ReadLost, node
  <2>2. seen'.coins \in {seen.coins, None}
    BY <1>7 DEF Start, ReadTip, ReadMempool, ReadLost, IInv, TypeInv
  <2> QED BY <2>1, <2>2, NothingNewKeeps DEF Sending
<1>8. CASE UNCHANGED vars
  BY <1>8, NothingNewKeeps DEF vars, node, caller, Sending
<1> QED BY <1>1, <1>2, <1>3, <1>4, <1>5, <1>6, <1>7, <1>8 DEF Next, Caller

\* Whatever blocks come between the reads, no transaction is signed that
\* spends a coinbase still young at the tip its expiry was counted from.
THEOREM NothingPrematureIsSigned == Spec => []NeverPremature
<1>1. Init => MoneyInv /\ SignedInv
  <2> SUFFICES ASSUME Init PROVE MoneyInv /\ SignedInv
    OBVIOUS
  <2>1. net = {} /\ DOMAIN mined = {} /\ pc = "idle" /\ seen.coins = None
    BY DEF Init, Unread
  <2>2. MoneyInv
    BY <2>1, FS_EmptySet DEF MoneyInv, Sending
  <2>3. SignedInv
    BY DEF Init, SignedInv, NeverPremature
  <2> QED BY <2>2, <2>3
<1>2. IInv /\ MoneyInv /\ SignedInv /\ [Next]_vars => (MoneyInv /\ SignedInv)'
  BY MoneyStep
<1>3. SignedInv => NeverPremature
  BY DEF SignedInv
<1> QED BY <1>1, <1>2, <1>3, Inductive, PTL DEF Spec

-----------------------------------------------------------------------------
(***************************************************************************)
(* Coin selection.  What is taken is at every moment the most valuable     *)
(* choice of as many outputs; so when that does not pay, no choice of as   *)
(* many does, and when nothing is left every number has been tried.        *)
(***************************************************************************)
Outputs == DOMAIN utxos
Worth(i) == utxos[i].satoshis

\* The caller's list and what it asks for.
ListInv ==
  /\ IsFiniteSet(Outputs) /\ Outputs \subseteq Nat
  /\ \A i \in Outputs : Worth(i) \in Nat
  /\ request.native \in Nat /\ request.rate \in Nat

\* What is worth most of as many is taken.
MostIsTaken ==
  /\ selected \in SUBSET Outputs /\ candidates = Outputs \ selected
  /\ \A i \in selected, j \in candidates : Worth(i) \geq Worth(j)

\* The loop's numbers are those of what is taken.
CountInv ==
  /\ remaining = request.native - ValueOf(selected)
  /\ fee = estimate_fee(IF selected = {} THEN 1 ELSE Cardinality(selected), request)

\* No fewer outputs would have paid.
FewerDoNotPay ==
  \A S \in SUBSET Outputs : S # {} /\ Cardinality(S) < Cardinality(selected) => ~Covers(S)

SelectionInv ==
  /\ ListInv /\ MostIsTaken /\ CountInv /\ FewerDoNotPay
  /\ ShortOnlyWhenHopeless /\ PaysExactly

LEMMA FeeType ==
  ASSUME NEW n \in Nat, NEW req, req.rate \in Nat
  PROVE  estimate_fee(n, req) \in Nat \ {0}
<1> DEFINE output == IF req.smart THEN SMART_OUTPUT_SIZE ELSE P2PKH_OUTPUT_SIZE
           size == TX_OVERHEAD + n * INPUT_SIZE + 2 * output
           product == size * req.rate
           price == (product + KB - 1) \div KB
<1>1. output \in Nat /\ n * INPUT_SIZE \in Nat
  BY FeeAssumption
<1> HIDE DEF output
<1>2. size \in Nat
  BY <1>1, FeeAssumption
<1> HIDE DEF size
<1>3. product \in Nat
  BY <1>2
<1> HIDE DEF product
<1>4. price \in Int
  BY <1>3, FeeAssumption
<1>5. estimate_fee(n, req) = IF product > MaxU64 THEN Overflow ELSE IF price > MIN_FEE THEN price ELSE MIN_FEE
  BY DEF estimate_fee, product, size, output
<1> HIDE DEF price
<1> QED BY <1>4, <1>5, FeeAssumption DEF Overflow

-----------------------------------------------------------------------------
LEMMA SomeOutputs ==
  ASSUME ListInv, NEW S \in SUBSET Outputs
  PROVE  /\ IsFiniteSet(S) /\ \A i \in S : i \in Nat /\ Worth(i) \in Nat
         /\ [i \in S |-> Worth(i)] \in [S -> Int]
<1>1. IsFiniteSet(Outputs) /\ \A i \in S : i \in Nat /\ Worth(i) \in Nat
  BY DEF ListInv
<1>2. IsFiniteSet(S)
  BY <1>1, FS_Subset
<1> QED BY <1>1, <1>2

\* What outputs are worth together is the sum of what each is worth.
LEMMA ValueOfIsTotal ==
  ASSUME ListInv, NEW S \in SUBSET Outputs
  PROVE  ValueOf(S) = SumOver([i \in S |-> Worth(i)], S)
<1> DEFINE v == [i \in S |-> Worth(i)]
           first(s) == CHOOSE i \in s : TRUE
           it == CHOOSE f : f = [s \in SUBSET S |->
                    IF s = {} THEN 0 ELSE Worth(first(s)) + f[s \ {first(s)}]]
<1>1. ValueOf(S) = it[S]
  BY DEF ValueOf, MapThenSumSet, MapThenFoldSet, Worth
<1>2. v \in [S -> Int] /\ IsFiniteSet(S)
  BY SomeOutputs
<1>3. PICK g : IsSum(g, v, S)
  BY <1>2, SumExists
<1>4. g = [s \in SUBSET S |-> IF s = {} THEN 0 ELSE Worth(first(s)) + g[s \ {first(s)}]]
  <2>1. g \in [SUBSET S -> Int] /\ g[{}] = 0
    BY <1>3 DEF IsSum
  <2>2. ASSUME NEW s \in SUBSET S, s # {}
        PROVE  g[s] = Worth(first(s)) + g[s \ {first(s)}]
    <3>1. first(s) \in s
      BY <2>2
    <3> QED BY <1>3, <3>1 DEF IsSum
  <2> QED BY <2>1, <2>2
<1>5. it = [s \in SUBSET S |-> IF s = {} THEN 0 ELSE Worth(first(s)) + it[s \ {first(s)}]]
  BY <1>4
<1>6. IsFold(it, v, S)
  <2> HIDE DEF it
  <2>1. it[{}] = 0
    BY <1>5
  <2>2. ASSUME NEW s \in SUBSET S, s # {}
        PROVE  \E x \in s : it[s] = v[x] + it[s \ {x}]
    <3>1. first(s) \in s
      BY <2>2
    <3>2. it[s] = Worth(first(s)) + it[s \ {first(s)}]
      BY <1>5, <2>2
    <3> QED BY <3>1, <3>2
  <2> QED BY <2>1, <2>2 DEF IsFold
<1>7. \A s \in SUBSET S : it[s] = g[s]
  <2> HIDE DEF it
  <2> QED BY <1>2, <1>3, <1>6, SumIsWhatAFoldGives
<1> QED BY <1>1, <1>2, <1>3, <1>7, SumIsTotal

LEMMA ValueOfSelection ==
  ASSUME ListInv, NEW S \in SUBSET Outputs
  PROVE  /\ ValueOf(S) \in Int
         /\ \A x \in S : ValueOf(S) = Worth(x) + ValueOf(S \ {x})
<1>1. IsFiniteSet(S) /\ [i \in S |-> Worth(i)] \in [S -> Int]
  BY SomeOutputs
<1>2. ValueOf(S) \in Int
  BY <1>1, ValueOfIsTotal, TotalType
<1>3. ASSUME NEW x \in S PROVE ValueOf(S) = Worth(x) + ValueOf(S \ {x})
  <2> DEFINE v == [i \in S |-> Worth(i)]
             w == [i \in S \ {x} |-> Worth(i)]
  <2>1. [i \in S \ {x} |-> v[i]] = w /\ v[x] = Worth(x)
    OBVIOUS
  <2>2. SumOver(v, S) = v[x] + SumOver([i \in S \ {x} |-> v[i]], S \ {x})
    <3> HIDE DEF v
    <3> QED BY <1>1, TotalOfOneMore DEF v
  <2>3. S \ {x} \in SUBSET Outputs
    OBVIOUS
  <2>4. ValueOf(S \ {x}) = SumOver(w, S \ {x})
    BY <2>3, ValueOfIsTotal
  <2> QED BY <2>1, <2>2, <2>4, ValueOfIsTotal
<1> QED BY <1>2, <1>3

LEMMA ValueOfNothing == ASSUME ListInv PROVE ValueOf({}) = 0
BY ValueOfIsTotal, TotalOfNothing

-----------------------------------------------------------------------------
\* Of outputs there is a first.
LEMMA FirstIs ==
  ASSUME ListInv, NEW S \in SUBSET Outputs, S # {}
  PROVE  First(S) \in S /\ \A j \in S \ {First(S)} : Before(First(S), j)
<1> DEFINE Leads(T, i) == \A j \in T \ {i} : Before(i, j)
           C == {T \in SUBSET Outputs : T # {} /\ ~ \E i \in T : Leads(T, i)}
<1>1. C = {}
  <2> SUFFICES ASSUME C # {} PROVE FALSE
    OBVIOUS
  <2>1. C \subseteq SUBSET Outputs /\ IsFiniteSet(Outputs)
    BY DEF ListInv
  <2>2. PICK T \in C : \A U \in C : \A x \in T : U # T \ {x}
    <3> HIDE DEF C
    <3>1. \E T \in C : IsFiniteSet(T) /\ \A U \in C : \A x \in T : U # T \ {x}
      BY <2>1, SmallestSubset
    <3> QED BY <3>1
  <2>3. PICK x \in T : TRUE
    BY <2>2
  <2>4. CASE T \ {x} = {}
    BY <2>2, <2>4
  <2>5. CASE T \ {x} # {}
    <3>1. PICK b \in T \ {x} : Leads(T \ {x}, b)
      BY <2>2, <2>3, <2>5
    <3>2. \A i \in T : i \in Nat /\ Worth(i) \in Nat
      BY <2>2 DEF ListInv
    <3>3. CASE Before(b, x)
      <4>1. Leads(T, b)
        BY <3>1, <3>3
      <4> QED BY <2>2, <3>1, <4>1
    <3>4. CASE Before(x, b)
      <4>1. ASSUME NEW j \in T \ {x} PROVE Before(x, j)
        <5>1. j = b \/ Before(b, j)
          BY <3>1
        <5> QED BY <3>1, <3>2, <3>4, <5>1 DEF Before, Worth
      <4>2. Leads(T, x)
        BY <4>1
      <4> QED BY <2>2, <4>2
    <3>5. b # x /\ b \in Nat /\ x \in Nat /\ Worth(b) \in Nat /\ Worth(x) \in Nat
      BY <3>1, <3>2
    <3>6. Before(b, x) \/ Before(x, b)
      BY <3>5 DEF Before, Worth
    <3> QED BY <3>3, <3>4, <3>6
  <2> QED BY <2>4, <2>5
<1>2. \E i \in S : \A j \in S \ {i} : Before(i, j)
  BY <1>1
<1> QED BY <1>2 DEF First

\* No choice of as many is worth more than the largest.
LEMMA LargestAreWorthMost ==
  ASSUME ListInv, NEW T \in SUBSET Outputs,
         \A i \in T : \A j \in Outputs \ T : Worth(i) \geq Worth(j),
         NEW S \in SUBSET Outputs, Cardinality(S) = Cardinality(T)
  PROVE  ValueOf(S) \leq ValueOf(T)
<1> DEFINE Better(Q) == Cardinality(Q) = Cardinality(T) /\ ~(ValueOf(Q) \leq ValueOf(T))
           C == {D \in SUBSET Outputs : \E Q \in SUBSET Outputs : D = Q \ T /\ Better(Q)}
<1>1. C = {}
  <2> SUFFICES ASSUME C # {} PROVE FALSE
    OBVIOUS
  <2>1. C \subseteq SUBSET Outputs /\ IsFiniteSet(Outputs)
    BY DEF ListInv
  <2>2. PICK D \in C : \A U \in C : \A x \in D : U # D \ {x}
    <3> HIDE DEF C
    <3> QED BY <2>1, SmallestSubset
  <2>3. PICK Q \in SUBSET Outputs : D = Q \ T /\ Better(Q)
    BY <2>2
  <2>4. IsFiniteSet(Q) /\ IsFiniteSet(T) /\ Cardinality(Q) \in Nat
    BY <2>1, FS_Subset, FS_CardinalityType
  <2>5. ValueOf(T) \in Int /\ ValueOf(Q) \in Int
    BY ValueOfSelection
  <2>6. Q # T
    BY <2>3, <2>5
  <2>7. PICK x \in Q : x \notin T
    <3>1. ~(Q \subseteq T)
      BY <2>3, <2>4, <2>6, FS_Subset
    <3> QED BY <3>1
  <2>8. PICK y \in T : y \notin Q
    <3>1. ~(T \subseteq Q)
      BY <2>3, <2>4, <2>6, FS_Subset
    <3> QED BY <3>1
  <2> DEFINE rest == Q \ {x}
             R == rest \cup {y}
  <2>9. Cardinality(R) = Cardinality(T)
    <3>1. IsFiniteSet(rest) /\ Cardinality(rest) = Cardinality(Q) - 1
      BY <2>4, FS_RemoveElement
    <3>2. y \notin rest
      BY <2>8
    <3> HIDE DEF rest
    <3>3. Cardinality(R) = Cardinality(rest) + 1
      BY <3>1, <3>2, FS_AddElement
    <3> QED BY <2>3, <2>4, <3>1, <3>3
  <2>10. R \in SUBSET Outputs /\ R \ T = D \ {x} /\ x \in D
    BY <2>3, <2>7, <2>8
  <2>11. D \ {x} \notin C
    BY <2>2, <2>10
  <2>12. D \ {x} \in SUBSET Outputs
    BY <2>2
  <2>13. ~Better(R)
    <3> HIDE DEF R, Better
    <3> QED BY <2>10, <2>11, <2>12
  <2>14. ValueOf(R) \leq ValueOf(T)
    BY <2>9, <2>13
  <2>15. ValueOf(Q) = Worth(x) + ValueOf(rest) /\ rest \in SUBSET Outputs
    BY ValueOfSelection
  <2>16. ValueOf(R) = Worth(y) + ValueOf(rest)
    <3>1. y \in R /\ R \ {y} = rest
      BY <2>8
    <3> HIDE DEF R, rest
    <3> QED BY <2>10, <3>1, ValueOfSelection
  <2>17. ValueOf(rest) \in Int
    BY <2>15, ValueOfSelection
  <2>18. Worth(y) \geq Worth(x) /\ Worth(x) \in Nat /\ Worth(y) \in Nat
    BY <2>7, <2>8 DEF ListInv
  <2> HIDE DEF R, rest
  <2> QED BY <2>3, <2>5, <2>14, <2>15, <2>16, <2>17, <2>18
<1>2. S \ T \in SUBSET Outputs /\ S \ T \notin C
  BY <1>1
<1>3. ~Better(S)
  <2> HIDE DEF Better
  <2> QED BY <1>2
<1> QED BY <1>3

-----------------------------------------------------------------------------
LEMMA SelectionInitHolds == SelectionInit => SelectionInv
<1> SUFFICES ASSUME SelectionInit PROVE SelectionInv
  OBVIOUS
<1>1. PICK n \in 0..MaxUtxos : utxos \in [1..n -> [outpoint : Outpoints, satoshis : Values]]
  BY DEF SelectionInit
<1>2. n \in Int
  BY FeeAssumption
<1>0. Values \subseteq Nat /\ Requests \subseteq Nat /\ Rates \subseteq Nat
  <2>1. MaxU64 \in Nat /\ Values \subseteq 0..MaxU64 /\ Requests \subseteq 0..MaxU64 /\ Rates \subseteq 0..MaxU64
    BY FeeAssumption
  <2> QED BY <2>1
<1>3. IsFiniteSet(Outputs) /\ Outputs \subseteq Nat
  <2>1. Outputs = 1..n
    BY <1>1 DEF Outputs
  <2>2. IsFiniteSet(1..n) /\ 1..n \subseteq Nat
    BY <1>2, FS_Interval
  <2> QED BY <2>1, <2>2
<1>4. ASSUME NEW i \in Outputs PROVE Worth(i) \in Nat
  <2>1. utxos[i] \in [outpoint : Outpoints, satoshis : Values]
    BY <1>1 DEF Outputs
  <2> QED BY <1>0, <2>1 DEF Worth
<1>5. request.native \in Nat /\ request.rate \in Nat
  BY <1>0 DEF SelectionInit
<1>6. ListInv
  BY <1>3, <1>4, <1>5 DEF ListInv
<1>7. MostIsTaken
  BY DEF SelectionInit, MostIsTaken, Outputs
<1>8. CountInv
  <2>1. ValueOf(selected) = 0
    BY <1>6, ValueOfNothing DEF SelectionInit
  <2> QED BY <1>5, <2>1 DEF SelectionInit, CountInv
<1>9. FewerDoNotPay
  <2>1. Cardinality(selected) = 0
    BY FS_EmptySet DEF SelectionInit
  <2>2. \A S \in SUBSET Outputs : Cardinality(S) \in Nat
    BY <1>6, SomeOutputs, FS_CardinalityType
  <2> QED BY <2>1, <2>2 DEF FewerDoNotPay
<1>10. ShortOnlyWhenHopeless /\ PaysExactly
  BY DEF SelectionInit, Running, ShortOnlyWhenHopeless, PaysExactly
<1> QED BY <1>6, <1>7, <1>8, <1>9, <1>10 DEF SelectionInv

\* When what is taken does not pay, no choice of as many or fewer does.
LEMMA NoMoreWouldPay ==
  ASSUME SelectionInv, Uncovered, NEW S \in SUBSET Outputs, S # {},
         Cardinality(S) \leq Cardinality(selected)
  PROVE  ~Covers(S)
<1>1. ListInv /\ selected \in SUBSET Outputs
  BY DEF SelectionInv, MostIsTaken
<1>2. /\ Cardinality(S) \in Nat \ {0} /\ Cardinality(selected) \in Nat
      /\ selected # {}
  <2>1. IsFiniteSet(S) /\ IsFiniteSet(selected)
    BY <1>1, SomeOutputs
  <2>2. Cardinality(S) \in Nat /\ Cardinality(selected) \in Nat /\ Cardinality(S) # 0
    BY <2>1, FS_CardinalityType, FS_EmptySet
  <2> QED BY <2>2, FS_EmptySet
<1>3. CASE Cardinality(S) < Cardinality(selected)
  BY <1>3 DEF SelectionInv, FewerDoNotPay
<1>4. CASE Cardinality(S) = Cardinality(selected)
  <2> DEFINE asked == estimate_fee(Cardinality(S), request)
  <2>1. \A i \in selected : \A j \in Outputs \ selected : Worth(i) \geq Worth(j)
    BY DEF SelectionInv, MostIsTaken
  <2>2. ValueOf(S) \leq ValueOf(selected)
    BY <1>1, <1>4, <2>1, LargestAreWorthMost
  <2>3. fee = asked /\ remaining = request.native - ValueOf(selected)
    BY <1>2, <1>4 DEF SelectionInv, CountInv
  <2>4. asked \in Nat /\ request.native \in Nat
    BY <1>1, <1>2, FeeType DEF ListInv
  <2>5. ValueOf(S) \in Int /\ ValueOf(selected) \in Int
    BY <1>1, ValueOfSelection
  <2> HIDE DEF asked
  <2>6. ValueOf(S) < request.native + asked
    BY <2>2, <2>3, <2>4, <2>5 DEF Uncovered
  <2>7. ~(ValueOf(S) \geq request.native + asked)
    BY <2>4, <2>5, <2>6
  <2> QED BY <2>7 DEF Covers, asked
<1> QED BY <1>2, <1>3, <1>4

\* The same list is worth the same.
LEMMA ListStays ==
  ASSUME UNCHANGED <<utxos, request>>
  PROVE  /\ Outputs' = Outputs /\ \A i : Worth(i)' = Worth(i)
         /\ \A S : ValueOf(S)' = ValueOf(S) /\ Covers(S)' = Covers(S)
         /\ ListInv => ListInv'
<1>1. Outputs' = Outputs /\ \A i : Worth(i)' = Worth(i)
  BY DEF Outputs, Worth
<1>2. \A S : ValueOf(S)' = ValueOf(S)
  BY DEF ValueOf, MapThenSumSet, MapThenFoldSet
<1>3. \A S : Covers(S)' = Covers(S)
  BY <1>2 DEF Covers
<1> QED BY <1>1, <1>2, <1>3 DEF ListInv

LEMMA TakeKeeps == ASSUME SelectionInv, Take PROVE SelectionInv'
<1> DEFINE one == First(candidates)
<1>1. /\ UNCHANGED <<utxos, request>> /\ result' = Running
      /\ candidates # {} /\ candidates' = candidates \ {one} /\ selected' = selected \cup {one}
      /\ remaining' = remaining - Worth(one)
      /\ fee' = estimate_fee(Cardinality(selected'), request)
      /\ Uncovered
  BY DEF Take, Worth
<1>2. ListInv /\ selected \in SUBSET Outputs /\ candidates = Outputs \ selected
  BY DEF SelectionInv, MostIsTaken
<1>3. one \in candidates /\ \A j \in candidates \ {one} : Before(one, j)
  <2>1. candidates \in SUBSET Outputs
    BY <1>2
  <2> QED BY <1>1, <1>2, <2>1, FirstIs
<1> HIDE DEF one
<1>4. ListInv' /\ Outputs' = Outputs /\ \A i : Worth(i)' = Worth(i)
  BY <1>1, <1>2, ListStays
<1>5. MostIsTaken'
  <2>1. selected' \in SUBSET Outputs' /\ candidates' = Outputs' \ selected'
    BY <1>1, <1>2, <1>3, <1>4
  <2>2. ASSUME NEW i \in selected', NEW j \in candidates' PROVE Worth(i)' \geq Worth(j)'
    <3>1. Worth(i) \in Nat /\ Worth(j) \in Nat /\ j \in candidates /\ j # one
      BY <1>1, <1>2, <1>3, SomeOutputs
    <3>2. CASE i = one
      <4>1. Before(one, j)
        BY <1>3, <3>1
      <4>2. Worth(one) \geq Worth(j)
        BY <3>1, <3>2, <4>1 DEF Before, Worth
      <4> QED BY <1>4, <3>2, <4>2
    <3>3. CASE i \in selected
      <4>1. Worth(i) \geq Worth(j)
        BY <3>1, <3>3 DEF SelectionInv, MostIsTaken
      <4> QED BY <1>4, <4>1
    <3> QED BY <1>1, <3>2, <3>3
  <2> QED BY <2>1, <2>2 DEF MostIsTaken
<1>6. /\ IsFiniteSet(selected) /\ Cardinality(selected) \in Nat
      /\ Cardinality(selected') = Cardinality(selected) + 1
  <2>1. IsFiniteSet(selected) /\ one \notin selected
    BY <1>2, <1>3, SomeOutputs
  <2> QED BY <1>1, <2>1, FS_AddElement, FS_CardinalityType
<1>7. CountInv'
  <2> DEFINE more == selected \cup {one}
  <2>1. more \in SUBSET Outputs /\ one \in more /\ more \ {one} = selected
    BY <1>2, <1>3
  <2> HIDE DEF more
  <2>2. ValueOf(more) = Worth(one) + ValueOf(selected)
    BY <1>2, <2>1, ValueOfSelection
  <2>3. ValueOf(selected) \in Int /\ Worth(one) \in Nat /\ request.native \in Nat
    BY <1>2, <1>3, ValueOfSelection, SomeOutputs DEF ListInv
  <2>4. remaining = request.native - ValueOf(selected)
    BY DEF SelectionInv, CountInv
  <2>5. remaining' = request.native - ValueOf(more)
    BY <1>1, <2>2, <2>3, <2>4
  <2>6. selected' = more /\ selected' # {} /\ request' = request
    BY <1>1 DEF more
  <2>8. ValueOf(selected)' = ValueOf(more)
    BY <1>1, <2>6 DEF ValueOf, MapThenSumSet, MapThenFoldSet
  <2> QED BY <1>1, <2>5, <2>6, <2>8 DEF CountInv
<1>8. FewerDoNotPay'
  <2>1. ASSUME NEW S \in SUBSET Outputs, S # {}, Cardinality(S) < Cardinality(selected')
        PROVE  ~Covers(S)'
    <3>1. Cardinality(S) \in Nat
      BY <1>2, SomeOutputs, FS_CardinalityType
    <3>2. Cardinality(S) \leq Cardinality(selected)
      BY <1>6, <2>1, <3>1
    <3>3. ~Covers(S)
      BY <1>1, <2>1, <3>2, NoMoreWouldPay
    <3> QED BY <1>1, <3>3, ListStays
  <2> QED BY <1>4, <2>1 DEF FewerDoNotPay
<1>9. (ShortOnlyWhenHopeless /\ PaysExactly)'
  BY <1>1 DEF Running, ShortOnlyWhenHopeless, PaysExactly
<1> QED BY <1>4, <1>5, <1>7, <1>8, <1>9 DEF SelectionInv

\* How the call ends leaves what it counted alone.
LEMMA EndKeeps ==
  ASSUME SelectionInv, UNCHANGED <<utxos, request, candidates, selected, remaining, fee>>
  PROVE  /\ (ListInv /\ MostIsTaken /\ CountInv /\ FewerDoNotPay)'
         /\ \A S : Covers(S)' = Covers(S)
         /\ ValueOf(selected)' = ValueOf(selected)
<1>1. /\ Outputs' = Outputs /\ \A i : Worth(i)' = Worth(i)
      /\ \A S : ValueOf(S)' = ValueOf(S) /\ Covers(S)' = Covers(S)
      /\ ListInv'
  BY ListStays DEF SelectionInv
<1>2. MostIsTaken'
  BY <1>1 DEF SelectionInv, MostIsTaken
<1>3. ValueOf(selected)' = ValueOf(selected)
  BY DEF ValueOf, MapThenSumSet, MapThenFoldSet
<1>4. CountInv'
  BY <1>3 DEF SelectionInv, CountInv
<1>5. FewerDoNotPay'
  BY <1>1 DEF SelectionInv, FewerDoNotPay
<1> QED BY <1>1, <1>2, <1>3, <1>4, <1>5

LEMMA RunDryKeeps == ASSUME SelectionInv, RunDry PROVE SelectionInv'
<1>1. /\ UNCHANGED <<utxos, request, candidates, selected, remaining, fee>>
      /\ result' = Returned("insufficient") /\ Uncovered /\ candidates = {}
  BY DEF RunDry
<1>2. selected = Outputs /\ IsFiniteSet(Outputs)
  BY <1>1 DEF SelectionInv, MostIsTaken, ListInv
<1>3. ASSUME NEW S \in SUBSET Outputs, S # {} PROVE ~Covers(S)'
  <2>1. Cardinality(S) \leq Cardinality(selected)
    BY <1>2, FS_Subset
  <2>2. ~Covers(S)
    BY <1>1, <1>3, <2>1, NoMoreWouldPay
  <2> QED BY <1>1, <2>2, EndKeeps
<1>4. ShortOnlyWhenHopeless'
  <2>1. Outputs' = DOMAIN utxos' /\ Outputs' = Outputs
    BY <1>1 DEF Outputs
  <2>2. \A S \in NonEmptyChoices' : S \in SUBSET Outputs /\ S # {}
    BY <2>1 DEF NonEmptyChoices
  <2> QED BY <1>3, <2>2 DEF ShortOnlyWhenHopeless
<1>5. PaysExactly'
  BY <1>1 DEF PaysExactly, Returned
<1> QED BY <1>1, <1>4, <1>5, EndKeeps DEF SelectionInv

LEMMA FinishKeeps == ASSUME SelectionInv, Finish PROVE SelectionInv'
<1> DEFINE total == ValueOf(selected)
           asked == estimate_fee(Cardinality(selected), request)
           left == total - request.native - fee
<1>1. /\ UNCHANGED <<utxos, request, candidates, selected, remaining, fee>>
      /\ ~Uncovered /\ ~Duplicated(Outputs)
      /\ result' \in {Returned("overflow"), Returned("ceiling"), Settle(left, fee)}
  BY DEF Finish, Outputs
<1>2. ListInv /\ selected \in SUBSET Outputs /\ remaining = request.native - total
  BY DEF SelectionInv, MostIsTaken, CountInv
<1>3. total \in Int /\ request.native \in Nat
  BY <1>2, ValueOfSelection DEF ListInv
<1>4. selected # {} /\ fee = asked /\ asked \in Nat
  <2>1. CASE selected = {}
    <3>1. fee = estimate_fee(1, request) /\ fee \in Nat \ {0}
      BY <1>2, <2>1, FeeType DEF SelectionInv, CountInv, ListInv
    <3>2. total = 0
      BY <1>2, <2>1, ValueOfNothing
    <3> HIDE DEF total
    <3> QED BY <1>1, <1>2, <1>3, <3>1, <3>2 DEF Uncovered
  <2>2. CASE selected # {}
    <3>1. Cardinality(selected) \in Nat /\ request.rate \in Nat
      BY <1>2, SomeOutputs, FS_CardinalityType DEF ListInv
    <3> QED BY <2>2, <3>1, FeeType DEF SelectionInv, CountInv
  <2> QED BY <2>1, <2>2
<1> HIDE DEF asked, total
<1>5. left \in Nat
  BY <1>1, <1>2, <1>3, <1>4 DEF Uncovered
<1>6. total = request.native + left + asked
  BY <1>3, <1>4
<1>7. ~Duplicated(selected)
  BY <1>1, <1>2 DEF Duplicated
<1>8. total' = total /\ Duplicated(selected)' = Duplicated(selected)
      /\ estimate_fee(Cardinality(selected), request)' = asked /\ request' = request
  BY <1>1, EndKeeps DEF Duplicated, total, asked
<1> HIDE DEF left
<1>9. CASE result' = Settle(left, fee)
  <2>1. /\ result'.kind = "selected"
        /\ request.native + result'.change + result'.fee = request.native + left + asked
        /\ asked \leq result'.fee /\ result'.fee \leq asked + DUST_THRESHOLD
    <3>1. CASE left > DUST_THRESHOLD
      BY <1>3, <1>4, <1>5, <1>9, <3>1, FeeAssumption DEF Settle
    <3>2. CASE ~(left > DUST_THRESHOLD)
      BY <1>3, <1>4, <1>5, <1>9, <3>2, FeeAssumption DEF Settle
    <3> QED BY <3>1, <3>2
  <2>2. PaysExactly'
    BY <1>6, <1>7, <1>8, <2>1 DEF PaysExactly, total
  <2>3. ShortOnlyWhenHopeless'
    BY <2>1 DEF ShortOnlyWhenHopeless
  <2> QED BY <1>1, <2>2, <2>3, EndKeeps DEF SelectionInv
<1>10. CASE result' \in {Returned("overflow"), Returned("ceiling")}
  <2>1. (ShortOnlyWhenHopeless /\ PaysExactly)'
    BY <1>10 DEF ShortOnlyWhenHopeless, PaysExactly, Returned
  <2> QED BY <1>1, <2>1, EndKeeps DEF SelectionInv
<1> QED BY <1>1, <1>9, <1>10

LEMMA SelectionNextKeeps == ASSUME SelectionInv, [SelectionNext]_selection_vars PROVE SelectionInv'
<1>1. CASE RefuseDuplicate \/ RefuseOverflow
  <2>1. /\ UNCHANGED <<utxos, request, candidates, selected, remaining, fee>>
        /\ result'.kind \in {"duplicate", "overflow"}
    BY <1>1 DEF RefuseDuplicate, RefuseOverflow, Returned
  <2>2. (ShortOnlyWhenHopeless /\ PaysExactly)'
    BY <2>1 DEF ShortOnlyWhenHopeless, PaysExactly
  <2> QED BY <2>1, <2>2, EndKeeps DEF SelectionInv
<1>2. CASE UNCHANGED selection_vars
  <2>1. UNCHANGED <<utxos, request, candidates, selected, remaining, fee, result>>
    BY <1>2 DEF selection_vars
  <2>2. /\ (ListInv /\ MostIsTaken /\ CountInv /\ FewerDoNotPay)'
        /\ \A S : Covers(S)' = Covers(S)
        /\ ValueOf(selected)' = ValueOf(selected)
    BY <2>1, EndKeeps
  <2>3. ShortOnlyWhenHopeless'
    BY <2>1, <2>2 DEF SelectionInv, ShortOnlyWhenHopeless, NonEmptyChoices
  <2>4. Duplicated(selected)' = Duplicated(selected)
    BY <2>1 DEF Duplicated
  <2>5. PaysExactly'
    BY <2>1, <2>2, <2>4 DEF SelectionInv, PaysExactly
  <2> QED BY <2>2, <2>3, <2>5 DEF SelectionInv
<1> QED BY <1>1, <1>2, TakeKeeps, RunDryKeeps, FinishKeeps DEF SelectionNext

LEMMA SelectionInductive == SelectionSpec => []SelectionInv
BY SelectionInitHolds, SelectionNextKeeps, PTL DEF SelectionSpec

-----------------------------------------------------------------------------
\* For any list, amounts and fee rates, select_utxos says "insufficient funds"
\* only when no choice of the caller's outputs would have paid for the request
\* and for itself.
THEOREM ShortageIsReal == SelectionSpec => []ShortOnlyWhenHopeless
<1>1. SelectionInv => ShortOnlyWhenHopeless
  BY DEF SelectionInv
<1> QED BY <1>1, SelectionInductive, PTL

\* What select_utxos takes is paid, returned or charged to the satoshi, no
\* outpoint twice, and the fee is the estimate and at most the dust on top.
THEOREM EverySatoshiIsCounted == SelectionSpec => []PaysExactly
<1>1. SelectionInv => PaysExactly
  BY DEF SelectionInv
<1> QED BY <1>1, SelectionInductive, PTL
=============================================================================
