---------------------------- MODULE LedgerProofs ----------------------------
(***************************************************************************)
(* What holds of Ledger for any coins, orders, transfers and offers, of    *)
(* the registrations of Naming for any names, policies and funding, and of *)
(* the launches of Launch for any definitions, policies and keys.          *)
(***************************************************************************)
EXTENDS Ledger, Launch, Sums, SequenceTheorems

-----------------------------------------------------------------------------
(***************************************************************************)
(* What a list is worth                                                    *)
(***************************************************************************)
\* Coins or outputs, each worth a natural number of every asset.
Valued(X) == \A x \in X : x.value \in Value

\* The amounts of one asset in a list.
Amounts(list, a) == [i \in 1..Len(list) |-> list[i].value[a]]

LEMMA AmountsType ==
  ASSUME NEW X, Valued(X), NEW s \in Seq(X), NEW a \in Assets
  PROVE  /\ Len(s) \in Nat /\ DOMAIN s = 1..Len(s) /\ IsFiniteSet(1..Len(s))
         /\ \A i \in 1..Len(s) : s[i] \in X /\ s[i].value[a] \in Nat
         /\ Amounts(s, a) \in [1..Len(s) -> Nat]
         /\ Amounts(s, a) \in [1..Len(s) -> Int]
<1>1. Len(s) \in Nat /\ DOMAIN s = 1..Len(s)
  BY LenProperties
<1>2. IsFiniteSet(1..Len(s))
  <2> DEFINE n == Len(s)
  <2>1. n \in Int /\ 1 \in Int
    BY <1>1
  <2> HIDE DEF n
  <2>2. IsFiniteSet(1..n)
    BY <2>1, FS_Interval
  <2> QED BY <2>2 DEF n
<1>3. \A i \in 1..Len(s) : s[i] \in X
  BY ElementOfSeq
<1>4. \A i \in 1..Len(s) : s[i].value[a] \in Nat
  BY <1>3 DEF Valued, Value
<1> QED BY <1>1, <1>2, <1>3, <1>4 DEF Amounts

LEMMA TotalIs ==
  ASSUME NEW X, Valued(X), NEW s \in Seq(X), NEW a \in Assets
  PROVE  Total(s, a) = SumOver(Amounts(s, a), 1..Len(s)) /\ Total(s, a) \in Nat
<1>1. Total(s, a) = SumFunction(Amounts(s, a))
  BY AmountsType DEF Total, Amounts
<1>2. SumFunction(Amounts(s, a)) = SumOver(Amounts(s, a), 1..Len(s))
  BY AmountsType, SumFunctionIsTotal
<1>3. SumOver(Amounts(s, a), 1..Len(s)) \in Nat
  BY AmountsType, TotalOfNaturals
<1> QED BY <1>1, <1>2, <1>3

LEMMA TotalOfEmpty == ASSUME NEW a \in Assets PROVE Total(<<>>, a) = 0
<1>1. <<>> \in Seq({}) /\ Valued({}) /\ Len(<<>>) = 0
  BY EmptySeq DEF Valued
<1>2. Total(<<>>, a) = SumOver(Amounts(<<>>, a), 1..0)
  BY <1>1, TotalIs
<1>3. 1..0 = {}
  OBVIOUS
<1> QED BY <1>2, <1>3, TotalOfNothing

LEMMA TotalWhereNone ==
  ASSUME NEW X, Valued(X), NEW s \in Seq(X), NEW a \in Assets,
         \A i \in 1..Len(s) : s[i].value[a] = 0
  PROVE  Total(s, a) = 0
<1>1. \A i \in 1..Len(s) : Amounts(s, a)[i] = 0
  BY DEF Amounts
<1>2. SumOver(Amounts(s, a), 1..Len(s)) = 0
  BY <1>1, AmountsType, SumOfZeros
<1> QED BY <1>2, TotalIs

LEMMA TotalOfConcat ==
  ASSUME NEW X, Valued(X), NEW s \in Seq(X), NEW t \in Seq(X), NEW a \in Assets
  PROVE  Total(s \o t, a) = Total(s, a) + Total(t, a)
<1> DEFINE m == Len(s)
           n == Len(t)
           Places == 1..(m + n)
           First == 1..m
           both == Amounts(s \o t, a)
           front == [i \in First |-> both[i]]
           behind == [i \in Places \ First |-> both[i]]
           shift == [i \in Places \ First |-> i - m]
<1>1. /\ m \in Nat /\ n \in Nat /\ s \o t \in Seq(X) /\ Len(s \o t) = m + n
      /\ \A i \in Places : (s \o t)[i] = IF i \leq m THEN s[i] ELSE t[i - m]
  BY ConcatProperties, LenProperties
<1>2. /\ IsFiniteSet(Places) /\ both \in [Places -> Int] /\ Total(s \o t, a) = SumOver(both, Places)
  <2>1. /\ IsFiniteSet(1..Len(s \o t)) /\ both \in [1..Len(s \o t) -> Int]
        /\ Total(s \o t, a) = SumOver(both, 1..Len(s \o t))
    BY <1>1, AmountsType, TotalIs
  <2> QED BY <1>1, <2>1
<1>3. First \in SUBSET Places
  BY <1>1
<1>4. SumOver(both, Places) = SumOver(front, First) + SumOver(behind, Places \ First)
  <2> HIDE DEF Places, First, both
  <2> QED BY <1>2, <1>3, TotalOfParts
<1>5. front = Amounts(s, a)
  <2>1. \A i \in First : both[i] = s[i].value[a]
    BY <1>1 DEF Amounts
  <2> HIDE DEF both
  <2> QED BY <2>1 DEF Amounts
<1>6. SumOver(behind, Places \ First) = SumOver(Amounts(t, a), 1..n)
  <2>1. \A i \in Places \ First : i - m \in 1..n /\ both[i] = t[i - m].value[a]
    BY <1>1 DEF Amounts
  <2>2. shift \in Bijection(Places \ First, 1..n)
    <3>1. shift \in [Places \ First -> 1..n]
      BY <2>1
    <3>2. \A i, j \in Places \ First : shift[i] = shift[j] => i = j
      BY <1>1
    <3>3. \A j \in 1..n : m + j \in Places \ First /\ shift[m + j] = j
      BY <1>1
    <3> HIDE DEF shift, Places, First
    <3> QED BY <3>1, <3>2, <3>3 DEF Bijection, Injection, IsInjective, Surjection
  <2>3. \A i \in Places \ First : behind[i] = Amounts(t, a)[shift[i]]
    BY <2>1 DEF Amounts
  <2>4. behind \in [Places \ First -> Int]
    BY <1>2
  <2>5. IsFiniteSet(Places \ First)
    <3> HIDE DEF Places, First
    <3> QED BY <1>2, FS_Difference
  <2>6. Amounts(t, a) \in [1..n -> Int] /\ IsFiniteSet(1..n)
    BY AmountsType
  <2> HIDE DEF behind, shift
  <2> DEFINE here == Amounts(t, a)
             Rest == 1..n
             Late == Places \ First
  <2>7. /\ shift \in Bijection(Late, Rest) /\ \A i \in Late : behind[i] = here[shift[i]]
        /\ behind \in [Late -> Int] /\ here \in [Rest -> Int]
        /\ IsFiniteSet(Late) /\ IsFiniteSet(Rest)
    BY <2>2, <2>3, <2>4, <2>5, <2>6
  <2> HIDE DEF here, Rest, Late
  <2>8. SumOver(behind, Late) = SumOver(here, Rest)
    BY ONLY <2>7, TotalOfImage, SMTT(60)
  <2> QED BY <2>8 DEF here, Rest, Late
<1>7. Total(s, a) = SumOver(Amounts(s, a), First) /\ Total(t, a) = SumOver(Amounts(t, a), 1..n)
  BY TotalIs
<1> HIDE DEF Places, First, front, both, behind
<1> QED BY <1>2, <1>4, <1>5, <1>6, <1>7

LEMMA TotalOfSingle ==
  ASSUME NEW x, x.value \in Value, NEW a \in Assets
  PROVE  Total(<<x>>, a) = x.value[a]
<1>1. <<x>> \in Seq({x}) /\ Len(<<x>>) = 1 /\ Valued({x})
  BY DEF Valued
<1> DEFINE v == Amounts(<<x>>, a)
<1>2. v[1] = x.value[a]
  BY <1>1 DEF Amounts
<1>3. Total(<<x>>, a) = SumOver(v, 1..1) /\ IsFiniteSet(1..1) /\ v \in [1..1 -> Int]
  <2>1. /\ Total(<<x>>, a) = SumOver(v, 1..Len(<<x>>)) /\ IsFiniteSet(1..Len(<<x>>))
        /\ v \in [1..Len(<<x>>) -> Int]
    BY <1>1, TotalIs, AmountsType
  <2> QED BY <1>1, <2>1
<1>4. 1 \in 1..1 /\ (1..1) \ {1} = {}
  OBVIOUS
<1>5. SumOver(v, 1..1) = v[1] + SumOver([y \in (1..1) \ {1} |-> v[y]], (1..1) \ {1})
  <2> HIDE DEF v
  <2> QED BY <1>3, <1>4, TotalOfOneMore
<1>6. SumOver([y \in (1..1) \ {1} |-> v[y]], (1..1) \ {1}) = 0
  BY <1>4, TotalOfNothing
<1>7. v[1] \in Int
  BY <1>3, <1>4
<1> HIDE DEF v
<1> QED BY <1>2, <1>3, <1>5, <1>6, <1>7

-----------------------------------------------------------------------------
(***************************************************************************)
(* Lists without repetition, and positions in order                        *)
(***************************************************************************)
Distinct(list) == \A i, j \in DOMAIN list : i # j => list[i] # list[j]

\* S is enumerated by its ranks in a strict total order.
IsOrderOn(order, S) ==
  /\ \A i \in S : <<i, i>> \notin order
  /\ \A i, j \in S : i # j => <<i, j>> \in order \/ <<j, i>> \in order
  /\ \A i, j, k \in S : <<i, j>> \in order /\ <<j, k>> \in order => <<i, k>> \in order

Before(S, order, i) == {j \in S : <<j, i>> \in order}

LEMMA RanksAreTaken ==
  ASSUME NEW S, IsFiniteSet(S), NEW order, IsOrderOn(order, S)
  PROVE  /\ Cardinality(S) \in Nat
         /\ \A n \in 1..Cardinality(S) :
              \E i \in S : Cardinality(Before(S, order, i)) = n - 1
<1> DEFINE size == Cardinality(S)
           ranks == 0..(size - 1)
           rank == [i \in S |-> Cardinality(Before(S, order, i))]
<1>1. size \in Nat
  BY FS_CardinalityType
<1>2. ASSUME NEW i \in S
      PROVE  /\ IsFiniteSet(Before(S, order, i))
             /\ rank[i] \in Nat /\ rank[i] < size
  <2> DEFINE B == Before(S, order, i)
  <2>1. B \in SUBSET S /\ i \notin B
    BY DEF IsOrderOn, Before
  <2>2. rank[i] = Cardinality(B)
    OBVIOUS
  <2> HIDE DEF B, rank
  <2>3. IsFiniteSet(B) /\ Cardinality(B) \leq size /\ (Cardinality(B) = size => B = S)
    BY <2>1, FS_Subset
  <2>4. Cardinality(B) \in Nat
    BY <2>3, FS_CardinalityType
  <2> QED BY <1>1, <2>1, <2>2, <2>3, <2>4 DEF B
<1>3. ASSUME NEW i \in S, NEW j \in S, <<i, j>> \in order PROVE rank[i] < rank[j]
  <2> DEFINE A == Before(S, order, i)
             B == Before(S, order, j)
  <2>1. A \in SUBSET B /\ i \in B /\ i \notin A
    BY <1>3 DEF IsOrderOn, Before
  <2>2. IsFiniteSet(B) /\ Cardinality(A) \in Nat /\ Cardinality(B) \in Nat
    BY <1>2
  <2>3. rank[i] = Cardinality(A) /\ rank[j] = Cardinality(B)
    OBVIOUS
  <2> HIDE DEF A, B, rank
  <2>4. Cardinality(A) \leq Cardinality(B) /\ (Cardinality(B) = Cardinality(A) => B = A)
    BY <2>1, <2>2, FS_Subset
  <2> QED BY <2>1, <2>2, <2>3, <2>4
<1>4. rank \in Injection(S, ranks)
  <2>1. rank \in [S -> ranks]
    <3>1. \A i \in S : rank[i] \in ranks
      BY <1>1, <1>2
    <3> QED BY <3>1
  <2>2. \A i, j \in S : rank[i] = rank[j] => i = j
    <3> SUFFICES ASSUME NEW i \in S, NEW j \in S, rank[i] = rank[j], i # j PROVE FALSE
      OBVIOUS
    <3>1. <<i, j>> \in order \/ <<j, i>> \in order
      BY DEF IsOrderOn
    <3>2. rank[i] \in Nat /\ rank[j] \in Nat
      BY <1>2
    <3> HIDE DEF rank
    <3> QED BY <1>3, <3>1, <3>2
  <2> HIDE DEF rank, ranks
  <2> QED BY <2>1, <2>2 DEF Injection, IsInjective
<1>5. IsFiniteSet(ranks) /\ Cardinality(ranks) = size
  <2> HIDE DEF size
  <2>1. 0 \in Int /\ size - 1 \in Int
    BY <1>1
  <2>2. IsFiniteSet(0..(size - 1)) /\ Cardinality(0..(size - 1)) = IF 0 > size - 1 THEN 0 ELSE size
    <3> DEFINE top == size - 1
    <3>1. top \in Int /\ top - 0 + 1 = size
      BY <1>1
    <3> HIDE DEF top
    <3>2. IsFiniteSet(0..top) /\ Cardinality(0..top) = IF 0 > top THEN 0 ELSE top - 0 + 1
      BY <3>1, FS_Interval, SMTT(30)
    <3> QED BY <3>1, <3>2 DEF top
  <2> QED BY <1>1, <2>2
<1>6. rank \in Surjection(S, ranks)
  <2> HIDE DEF rank, ranks
  <2> QED BY <1>4, <1>5, FS_Injection DEF size
<1>7. ASSUME NEW n \in 1..size PROVE \E i \in S : Cardinality(Before(S, order, i)) = n - 1
  <2>1. n - 1 \in ranks
    BY <1>1
  <2>2. \E i \in S : rank[i] = n - 1
    <3> HIDE DEF rank, ranks
    <3> QED BY <1>6, <2>1 DEF Surjection
  <2> QED BY <2>2
<1> QED BY <1>1, <1>7

\* What is listed in order comes from the positions, each at most once.
LEMMA InOrderIs ==
  ASSUME NEW list, NEW S, IsFiniteSet(S), NEW order, IsOrderOn(order, S)
  PROVE  \E at \in [1..Cardinality(S) -> S] :
           /\ \A m, n \in 1..Cardinality(S) : at[m] = at[n] => m = n
           /\ InOrder(list, S, order) = [n \in 1..Cardinality(S) |-> list[at[n]]]
<1> DEFINE size == Cardinality(S)
           is(n, i) == Cardinality(Before(S, order, i)) = n - 1
           at == [n \in 1..size |-> CHOOSE i \in S : is(n, i)]
<1>1. size \in Nat /\ \A n \in 1..size : \E i \in S : is(n, i)
  BY RanksAreTaken
<1>2. \A n \in 1..size : at[n] \in S /\ is(n, at[n])
  <2> HIDE DEF is, size
  <2> QED BY <1>1
<1>3. at \in [1..size -> S]
  <2> HIDE DEF is, size
  <2> QED BY <1>2
<1>4. \A m, n \in 1..size : at[m] = at[n] => m = n
  <2> SUFFICES ASSUME NEW m \in 1..size, NEW n \in 1..size, at[m] = at[n] PROVE m = n
    OBVIOUS
  <2>1. is(m, at[m]) /\ is(n, at[m])
    <3> HIDE DEF is
    <3> QED BY <1>2
  <2>2. m \in Int /\ n \in Int
    BY <1>1
  <2> HIDE DEF at
  <2> QED BY <2>1, <2>2
<1>5. InOrder(list, S, order) = [n \in 1..size |-> list[at[n]]]
  BY DEF InOrder, Before
<1> HIDE DEF at
<1> QED BY <1>3, <1>4, <1>5

Subsets(list) == SUBSET (DOMAIN list)

LEMMA ListedIsOrder ==
  ASSUME NEW X, NEW list \in Seq(X), NEW S \in Subsets(list)
  PROVE  IsOrderOn(Listed(list), S)
<1>1. DOMAIN list \subseteq Int
  BY LenProperties
<1>2. \A i, j \in S : <<i, j>> \in Listed(list) <=> i < j
  BY DEF Listed, Pairs, Subsets
<1>3. \A i \in S : i \in Int
  BY <1>1 DEF Subsets
<1> QED BY <1>2, <1>3 DEF IsOrderOn

LEMMA LargerFirstIsOrder ==
  ASSUME NEW X, Valued(X), NEW list \in Seq(X), NEW S \in Subsets(list)
  PROVE  IsOrderOn(LargerFirst(list), S)
<1>1. \A i \in S : i \in Int /\ Sat(list[i]) \in Nat
  <2>1. \A i \in DOMAIN list : i \in Int /\ list[i] \in X
    BY LenProperties, ElementOfSeq
  <2> QED BY <2>1 DEF Valued, Value, Sat, Assets, Subsets
<1>2. \A i, j \in S : <<i, j>> \in LargerFirst(list) <=>
         \/ Sat(list[i]) > Sat(list[j])
         \/ Sat(list[i]) = Sat(list[j]) /\ i < j
  BY DEF LargerFirst, Pairs, Subsets
<1> DEFINE worth(i) == Sat(list[i])
<1>3. \A i, j \in S : <<i, j>> \in LargerFirst(list) <=>
         worth(i) > worth(j) \/ (worth(i) = worth(j) /\ i < j)
  BY <1>2
<1>4. \A i \in S : i \in Int /\ worth(i) \in Int
  BY <1>1
<1> HIDE DEF worth
<1> QED BY <1>3, <1>4 DEF IsOrderOn

LEMMA PlainFirstIsOrder ==
  ASSUME NEW X, Valued(X), NEW list \in Seq(X), NEW S \in Subsets(list)
  PROVE  IsOrderOn(PlainFirst(list), S)
<1> DEFINE R == LargerFirst(list)
           bears(i) == CarriesTokens(list[i])
<1>1. IsOrderOn(R, S)
  BY LargerFirstIsOrder
<1>2. \A i, j \in S : <<i, j>> \in PlainFirst(list) <=>
         (~bears(i) /\ bears(j)) \/ (bears(i) = bears(j) /\ <<i, j>> \in R)
  BY DEF PlainFirst, Pairs, Subsets
<1>3. \A i \in S : bears(i) \in BOOLEAN
  BY DEF CarriesTokens
<1> HIDE DEF bears, R
<1> QED BY <1>1, <1>2, <1>3 DEF IsOrderOn

\* A part of a list, in any of the orders, has its members once each.
Drawn(part, list, S, X) ==
  /\ part \in Seq(X) /\ Distinct(part)
  /\ \A n \in DOMAIN part : \E i \in S : part[n] = list[i]

LEMMA InOrderDraws ==
  ASSUME NEW X, NEW list \in Seq(X), Distinct(list), NEW S \in Subsets(list),
         NEW order, IsOrderOn(order, S)
  PROVE  Drawn(InOrder(list, S, order), list, S, X)
<1>1. IsFiniteSet(S)
  <2> DEFINE n == Len(list)
  <2>1. n \in Nat /\ DOMAIN list = 1..n
    BY LenProperties
  <2>2. IsFiniteSet(1..n)
    <3> HIDE DEF n
    <3> QED BY <2>1, FS_Interval
  <2> QED BY <2>1, <2>2, FS_Subset DEF Subsets
<1> DEFINE size == Cardinality(S)
           part == InOrder(list, S, order)
<1>2. size \in Nat
  BY <1>1, FS_CardinalityType
<1>3. PICK at \in [1..size -> S] : /\ \A m, n \in 1..size : at[m] = at[n] => m = n
                                   /\ part = [n \in 1..size |-> list[at[n]]]
  BY <1>1, InOrderIs, SMTT(30)
<1>4. \A n \in 1..size : at[n] \in S /\ at[n] \in DOMAIN list /\ list[at[n]] \in X
  <2>1. \A i \in DOMAIN list : list[i] \in X
    BY LenProperties, ElementOfSeq
  <2> QED BY <2>1 DEF Subsets
<1>5. part \in Seq(X) /\ DOMAIN part = 1..size
  BY <1>2, <1>3, <1>4, IsASeq
<1>6. Distinct(part)
  <2> SUFFICES ASSUME NEW m \in 1..size, NEW n \in 1..size, m # n PROVE part[m] # part[n]
    BY <1>5 DEF Distinct
  <2>1. at[m] # at[n] /\ part[m] = list[at[m]] /\ part[n] = list[at[n]]
    BY <1>3
  <2> QED BY <1>4, <2>1 DEF Distinct
<1>7. \A n \in DOMAIN part : \E i \in S : part[n] = list[i]
  BY <1>3, <1>4, <1>5
<1> HIDE DEF part
<1> QED BY <1>5, <1>6, <1>7 DEF Drawn, part

LEMMA PrefixDraws ==
  ASSUME NEW X, NEW list, NEW S, NEW part, Drawn(part, list, S, X), NEW n \in 0..Len(part)
  PROVE  Drawn(SubSeq(part, 1, n), list, S, X)
<1> DEFINE first == SubSeq(part, 1, n)
<1>1. part \in Seq(X) /\ Len(part) \in Nat /\ DOMAIN part = 1..Len(part)
      /\ \A i \in 1..n : part[i] \in X /\ i \in DOMAIN part
  BY LenProperties, ElementOfSeq DEF Drawn
<1>2. first \in Seq(X) /\ Len(first) = n /\ \A i \in 1..n : first[i] = part[i]
  <2>1. n \in Int /\ 1 \in Int
    OBVIOUS
  <2>2. /\ SubSeq(part, 1, n) \in Seq(X) /\ Len(SubSeq(part, 1, n)) = IF 1 \leq n THEN n - 1 + 1 ELSE 0
        /\ \A i \in 1..(n - 1 + 1) : SubSeq(part, 1, n)[i] = part[1 + i - 1]
    BY <1>1, <2>1, SubSeqProperties
  <2>3. \A i \in 1..n : 1 + i - 1 = i
    OBVIOUS
  <2>4. n - 1 + 1 = n
    OBVIOUS
  <2> QED BY <2>2, <2>3, <2>4
<1>3. DOMAIN first = 1..n
  BY <1>2, LenProperties
<1>4. Distinct(first)
  BY <1>1, <1>2, <1>3 DEF Distinct, Drawn
<1>5. \A m \in DOMAIN first : \E i \in S : first[m] = list[i]
  BY <1>1, <1>2, <1>3 DEF Drawn
<1> HIDE DEF first
<1> QED BY <1>2, <1>4, <1>5 DEF Drawn, first

\* Two lists that share nothing, one behind the other.
Apart(s, t) == \A i \in DOMAIN s, j \in DOMAIN t : s[i] # t[j]

LEMMA ConcatIsDistinct ==
  ASSUME NEW X, NEW s \in Seq(X), NEW t \in Seq(X), Distinct(s), Distinct(t), Apart(s, t)
  PROVE  s \o t \in Seq(X) /\ Distinct(s \o t)
<1> DEFINE m == Len(s)
           n == Len(t)
           both == s \o t
<1>1. /\ m \in Nat /\ n \in Nat /\ both \in Seq(X) /\ Len(both) = m + n
      /\ \A i \in 1..(m + n) : both[i] = IF i \leq m THEN s[i] ELSE t[i - m]
      /\ DOMAIN s = 1..m /\ DOMAIN t = 1..n
  BY ConcatProperties, LenProperties
<1>2. DOMAIN both = 1..(m + n)
  BY <1>1, LenProperties
<1>3. ASSUME NEW i \in 1..(m + n), NEW j \in 1..(m + n), i < j PROVE both[i] # both[j]
  <2>1. i \in Int /\ j \in Int
    BY <1>1
  <2> HIDE DEF both, m, n
  <2>2. CASE j \leq m
    <3>1. i \in 1..m /\ j \in 1..m /\ i # j
      BY <1>1, <1>3, <2>1, <2>2
    <3>2. both[i] = s[i] /\ both[j] = s[j]
      BY <1>1, <1>3, <2>1, <2>2
    <3> QED BY <1>1, <3>1, <3>2 DEF Distinct
  <2>3. CASE i \leq m /\ j > m
    <3>1. i \in 1..m /\ j - m \in 1..n
      BY <1>1, <2>1, <2>3
    <3>2. both[i] = s[i] /\ both[j] = t[j - m]
      BY <1>1, <2>1, <2>3
    <3> QED BY <1>1, <3>1, <3>2 DEF Apart
  <2>4. CASE i > m
    <3>1. i - m \in 1..n /\ j - m \in 1..n /\ i - m # j - m
      BY <1>1, <1>3, <2>1, <2>4
    <3>2. both[i] = t[i - m] /\ both[j] = t[j - m]
      BY <1>1, <1>3, <2>1, <2>4
    <3> QED BY <1>1, <3>1, <3>2 DEF Distinct
  <2> QED BY <1>1, <2>1, <2>2, <2>3, <2>4
<1>4. Distinct(both)
  <2> SUFFICES ASSUME NEW i \in 1..(m + n), NEW j \in 1..(m + n), i # j
               PROVE both[i] # both[j]
    BY <1>2 DEF Distinct
  <2>1. i < j \/ j < i
    <3>1. i \in Int /\ j \in Int
      BY <1>1
    <3> QED BY <3>1
  <2> HIDE DEF both, m, n
  <2> QED BY <1>3, <2>1
<1> QED BY <1>1, <1>4

-----------------------------------------------------------------------------
(***************************************************************************)
(* Outputs                                                                 *)
(***************************************************************************)
Shapes == {"p2pkh", "identity", "reserve", "transfer", "offer"}

\* An output that the protocol holds, or that somebody can spend, with tokens
\* where there is a place for them.
Placed == {o \in [shape : Shapes, owner : Owners, value : Value] :
             (o.owner = Protocol \/ Movable(o)) /\ Truthful(o)}

LEMMA PlacedIsValued == Valued(Placed)
BY DEF Valued, Placed

LEMMA OfIsValue ==
  ASSUME NEW a \in Assets, NEW n \in Nat
  PROVE  Of(a, n) \in Value /\ \A b \in Assets : Of(a, n)[b] = IF b = a THEN n ELSE 0
BY DEF Of, Value

LEMMA AssetsAre == Native \in Assets /\ Tokens \subseteq Assets /\ \A t \in Tokens : t # Native
BY BuildersAssumption DEF Assets

LEMMA NativeIsTruthful ==
  ASSUME NEW o, NEW n, o.value = Of(Native, n)
  PROVE  Truthful(o)
<1>1. \A t \in Tokens : o.value[t] = 0
  BY AssetsAre DEF Of
<1> QED BY <1>1 DEF Truthful, CarriesTokens

\* Coins whose tokens are where there is a place for them, and a list without.
Sincere(X)  == \A c \in X : Truthful(c)
Plain(list) == \A i \in DOMAIN list, t \in Tokens : list[i].value[t] = 0

LEMMA PlainIs ==
  ASSUME NEW X, Valued(X), Sincere(X), NEW list \in Seq(X),
         \A i \in DOMAIN list : list[i].shape \in {"p2pkh", "identity", "offer"}
  PROVE  Plain(list) /\ \A t \in Tokens : Total(list, t) = 0
<1>1. DOMAIN list = 1..Len(list) /\ \A i \in DOMAIN list : list[i] \in X
  BY LenProperties, ElementOfSeq
<1>2. ASSUME NEW i \in DOMAIN list, NEW t \in Tokens PROVE list[i].value[t] = 0
  <2>1. list[i].value[t] \in Nat
    BY <1>1, AssetsAre DEF Valued, Value
  <2>2. ~(list[i].value[t] > 0)
    BY <1>1 DEF Sincere, Truthful, CarriesTokens
  <2> QED BY <2>1, <2>2
<1>3. ASSUME NEW t \in Tokens PROVE Total(list, t) = 0
  BY <1>1, <1>2, AssetsAre, TotalWhereNone
<1> QED BY <1>2, <1>3 DEF Plain

LEMMA PayIsPlaced ==
  ASSUME NEW owner \in Keys \cup Identities, NEW n \in Nat
  PROVE  Pay(owner, n) \in Placed /\ Pay(owner, n).value = Of(Native, n)
<1>1. Of(Native, n) \in Value /\ owner \in Owners
  BY AssetsAre, OfIsValue DEF Owners
<1> DEFINE o == Pay(owner, n)
<1>2. CASE owner \in Keys
  <2>1. o = Output("p2pkh", owner, Of(Native, n))
    BY <1>2 DEF Pay
  <2>2. /\ o \in [shape : Shapes, owner : Owners, value : Value]
        /\ o.shape = "p2pkh" /\ o.owner = owner /\ o.value = Of(Native, n)
    BY <1>1, <2>1 DEF Output, Shapes
  <2> HIDE DEF o
  <2>3. Movable(o)
    BY <1>2, <2>2 DEF Movable, KeySpendable
  <2>4. o \in Placed
    BY <2>2, <2>3, NativeIsTruthful DEF Placed
  <2> QED BY <2>2, <2>4 DEF o
<1>3. CASE owner \in Identities
  <2>1. o = Output("identity", owner, Of(Native, n))
    BY <1>3, BuildersAssumption DEF Pay
  <2>2. /\ o \in [shape : Shapes, owner : Owners, value : Value]
        /\ o.shape = "identity" /\ o.owner = owner /\ o.value = Of(Native, n)
    BY <1>1, <2>1 DEF Output, Shapes
  <2> HIDE DEF o
  <2>3. Movable(o)
    BY <1>3, <2>2 DEF Movable, IsPaymentTo
  <2>4. o \in Placed
    BY <2>2, <2>3, NativeIsTruthful DEF Placed
  <2> QED BY <2>2, <2>4 DEF o
<1> QED BY <1>2, <1>3

\* A reserve output for a key, or one that carries its token.
LEMMA ReserveIsPlaced ==
  ASSUME NEW owner \in Keys \cup Identities, NEW t \in Tokens, NEW n \in Nat,
         owner \in Keys \/ n > 0
  PROVE  Reserve(owner, t, n) \in Placed /\ Reserve(owner, t, n).value = Of(t, n)
<1> DEFINE o == Reserve(owner, t, n)
<1>1. /\ Of(t, n) \in Value /\ \A b \in Assets : Of(t, n)[b] = IF b = t THEN n ELSE 0
  BY AssetsAre, OfIsValue
<1>2. /\ o \in [shape : Shapes, owner : Owners, value : Value]
      /\ o.shape = "reserve" /\ o.owner = owner /\ o.value = Of(t, n)
  BY <1>1 DEF Output, Reserve, Owners, Shapes
<1> HIDE DEF o
<1>3. CASE owner \in Keys
  <2>1. Movable(o)
    BY <1>2, <1>3 DEF Movable, KeySpendable
  <2>2. o \in Placed
    BY <1>2, <2>1 DEF Placed, Truthful
  <2> QED BY <1>2, <2>2 DEF o
<1>4. CASE owner \in Identities /\ n > 0
  <2>1. Sat(o) = 0
    BY <1>1, <1>2, AssetsAre DEF Sat
  <2>2. HoldsOnly(o, t)
    <3>1. \A u \in Tokens : o.value[u] = IF u = t THEN n ELSE 0
      BY <1>1, <1>2, AssetsAre
    <3>2. \A u \in Tokens : (o.value[u] > 0) = (u = t)
      BY <1>4, <3>1
    <3> QED BY <1>2, <3>2 DEF HoldsOnly
  <2>3. Movable(o)
    BY <1>2, <1>4, <2>1, <2>2 DEF Movable
  <2>4. o \in Placed
    BY <1>2, <2>3 DEF Placed, Truthful
  <2> QED BY <1>2, <2>4 DEF o
<1> QED BY <1>3, <1>4

\* A list of at most one output, worth n of one asset.
LEMMA OneOutput ==
  ASSUME NEW o \in Placed, NEW a \in Assets, NEW n \in Nat, o.value = Of(a, n)
  PROVE  /\ <<o>> \in Seq(Placed)
         /\ \A b \in Assets : Total(<<o>>, b) = IF b = a THEN n ELSE 0
<1>1. o.value \in Value /\ \A b \in Assets : o.value[b] = IF b = a THEN n ELSE 0
  BY OfIsValue
<1> QED BY <1>1, TotalOfSingle

LEMMA NoOutputs == <<>> \in Seq(Placed) /\ \A a \in Assets : Total(<<>>, a) = 0
BY EmptySeq, TotalOfEmpty

LEMMA ChangeOutIs ==
  ASSUME NEW plan, plan.change \in Keys \cup Identities, NEW n \in Nat
  PROVE  /\ ChangeOut(plan, n) \in Seq(Placed)
         /\ Total(ChangeOut(plan, n), Native) = n
         /\ \A t \in Tokens : Total(ChangeOut(plan, n), t) = 0
<1>1. CASE n > 0
  <2> DEFINE o == Pay(plan.change, n)
  <2>1. o \in Placed /\ o.value = Of(Native, n)
    BY PayIsPlaced
  <2>2. ChangeOut(plan, n) = <<o>>
    BY <1>1 DEF ChangeOut
  <2> HIDE DEF o
  <2>3. <<o>> \in Seq(Placed) /\ \A b \in Assets : Total(<<o>>, b) = IF b = Native THEN n ELSE 0
    BY <2>1, OneOutput, AssetsAre
  <2> QED BY <2>2, <2>3, AssetsAre
<1>2. CASE n = 0
  <2>1. ChangeOut(plan, n) = <<>>
    BY <1>2 DEF ChangeOut
  <2> QED BY <1>2, <2>1, NoOutputs, AssetsAre
<1> QED BY <1>1, <1>2

\* With what is left over as change, the outputs cost exactly that more.
LEMMA WithChange ==
  ASSUME NEW outs \in Seq(Placed), NEW plan, plan.change \in Keys \cup Identities, NEW n \in Nat
  PROVE  /\ outs \o ChangeOut(plan, n) \in Seq(Placed)
         /\ Total(outs \o ChangeOut(plan, n), Native) = Total(outs, Native) + n
         /\ \A t \in Tokens : Total(outs \o ChangeOut(plan, n), t) = Total(outs, t)
<1> DEFINE back == ChangeOut(plan, n)
<1>1. back \in Seq(Placed) /\ Total(back, Native) = n /\ \A t \in Tokens : Total(back, t) = 0
  BY ChangeOutIs
<1> HIDE DEF back
<1>2. outs \o back \in Seq(Placed)
  BY <1>1, ConcatProperties
<1>3. \A a \in Assets : Total(outs \o back, a) = Total(outs, a) + Total(back, a) /\ Total(outs, a) \in Nat
  BY <1>1, PlacedIsValued, TotalOfConcat, TotalIs
<1>4. \A t \in Tokens : Total(outs \o back, t) = Total(outs, t)
  BY <1>1, <1>3, AssetsAre
<1>5. Total(outs \o back, Native) = Total(outs, Native) + n
  BY <1>1, <1>3, AssetsAre
<1> QED BY <1>2, <1>4, <1>5 DEF back

-----------------------------------------------------------------------------
(***************************************************************************)
(* What a list is worth to one owner                                       *)
(***************************************************************************)
Share(list, o, a) ==
  SumFunction([i \in DOMAIN list |-> IF list[i].owner = o THEN list[i].value[a] ELSE 0])

Masked == [value : Value]

\* The list with nothing in the hands of others.
Part(x, o) == [value |-> [a \in Assets |-> IF x.owner = o THEN x.value[a] ELSE 0]]
Only(list, o) == [i \in DOMAIN list |-> Part(list[i], o)]

LEMMA OnlyIs ==
  ASSUME NEW X, Valued(X), NEW s \in Seq(X), NEW o
  PROVE  /\ Only(s, o) \in Seq(Masked) /\ Len(Only(s, o)) = Len(s) /\ Len(s) \in Nat
         /\ Valued(Masked)
         /\ \A i \in 1..Len(s) : Only(s, o)[i] = Part(s[i], o)
         /\ \A a \in Assets : Share(s, o, a) = Total(Only(s, o), a) /\ Share(s, o, a) \in Nat
<1> DEFINE at(i) == Part(s[i], o)
           n == Len(s)
<1>1. n \in Nat /\ DOMAIN s = 1..n /\ \A i \in 1..n : s[i].value \in Value
  BY LenProperties, ElementOfSeq DEF Valued
<1>2. \A i \in 1..n : at(i) \in Masked
  BY <1>1 DEF Value, Masked, Part
<1>3. Only(s, o) = [i \in 1..n |-> at(i)]
  BY <1>1 DEF Only
<1>4. \A i \in 1..n, a \in Assets : at(i).value[a] = IF s[i].owner = o THEN s[i].value[a] ELSE 0
  BY DEF Part
<1> HIDE DEF at, n
<1>5. Only(s, o) \in Seq(Masked)
  <2>1. [i \in 1..n |-> at(i)] \in Seq(Masked)
    BY <1>1, <1>2, IsASeq
  <2> QED BY <1>3, <2>1
<1>6. Len(Only(s, o)) = n
  BY <1>1, <1>3, <1>5, LenProperties
<1>7. Valued(Masked)
  BY DEF Valued, Masked
<1>8. ASSUME NEW a \in Assets PROVE Share(s, o, a) = Total(Only(s, o), a) /\ Share(s, o, a) \in Nat
  <2>1. [i \in DOMAIN Only(s, o) |-> Only(s, o)[i].value[a]]
          = [i \in DOMAIN s |-> IF s[i].owner = o THEN s[i].value[a] ELSE 0]
    BY <1>1, <1>3, <1>4
  <2>2. Share(s, o, a) = Total(Only(s, o), a)
    BY <2>1 DEF Share, Total
  <2> QED BY <1>5, <1>7, <2>2, TotalIs
<1>9. \A i \in 1..n : Only(s, o)[i] = at(i)
  BY <1>3
<1> QED BY <1>1, <1>5, <1>6, <1>7, <1>8, <1>9 DEF at, n

LEMMA ShareOfConcat ==
  ASSUME NEW X, Valued(X), NEW s \in Seq(X), NEW t \in Seq(X), NEW o, NEW a \in Assets
  PROVE  Share(s \o t, o, a) = Share(s, o, a) + Share(t, o, a)
<1> DEFINE S == Only(s, o)
           T == Only(t, o)
           B == Only(s \o t, o)
           m == Len(s)
           n == Len(t)
<1>1. /\ m \in Nat /\ n \in Nat /\ s \o t \in Seq(X) /\ Len(s \o t) = m + n
      /\ \A i \in 1..(m + n) : (s \o t)[i] = IF i \leq m THEN s[i] ELSE t[i - m]
  BY ConcatProperties, LenProperties
<1>2. /\ S \in Seq(Masked) /\ T \in Seq(Masked) /\ B \in Seq(Masked)
      /\ Len(S) = m /\ Len(T) = n /\ Len(B) = m + n /\ Valued(Masked)
      /\ Share(s, o, a) = Total(S, a) /\ Share(t, o, a) = Total(T, a) /\ Share(s \o t, o, a) = Total(B, a)
  BY <1>1, OnlyIs
<1>3. /\ S \o T \in Seq(Masked) /\ Len(S \o T) = m + n
      /\ \A i \in 1..(m + n) : (S \o T)[i] = IF i \leq m THEN S[i] ELSE T[i - m]
  BY <1>2, ConcatProperties
<1>4. \A i \in 1..(m + n) : B[i] = (S \o T)[i]
  <2> SUFFICES ASSUME NEW i \in 1..(m + n) PROVE B[i] = (S \o T)[i]
    OBVIOUS
  <2>1. /\ \A j \in 1..m : S[j] = Part(s[j], o)
        /\ \A j \in 1..n : T[j] = Part(t[j], o)
        /\ \A j \in 1..(m + n) : B[j] = Part((s \o t)[j], o)
    <3>1. \A list \in {s, t, s \o t} : \A j \in 1..Len(list) : Only(list, o)[j] = Part(list[j], o)
      <4> TAKE list \in {s, t, s \o t}
      <4>1. list \in Seq(X)
        BY <1>1
      <4> QED BY <4>1, OnlyIs
    <3> QED BY <1>1, <3>1
  <2> HIDE DEF S, T, B, m, n
  <2>2. CASE i \leq m
    <3>1. i \in 1..m
      BY <1>1, <2>2
    <3> QED BY <1>1, <1>3, <2>1, <2>2, <3>1
  <2>3. CASE ~(i \leq m)
    <3>1. i - m \in 1..n
      BY <1>1, <2>3
    <3> QED BY <1>1, <1>3, <2>1, <2>3, <3>1
  <2> QED BY <2>2, <2>3
<1> HIDE DEF S, T, B, m, n
<1>5. B = S \o T
  <2>1. DOMAIN B = 1..(m + n) /\ DOMAIN (S \o T) = 1..(m + n)
    BY <1>2, <1>3, LenProperties
  <2>2. B = [i \in 1..(m + n) |-> B[i]] /\ S \o T = [i \in 1..(m + n) |-> (S \o T)[i]]
    BY <1>2, <1>3, <2>1, LenProperties
  <2> QED BY <1>4, <2>2
<1>6. Total(S \o T, a) = Total(S, a) + Total(T, a)
  BY <1>2, TotalOfConcat
<1> QED BY <1>2, <1>5, <1>6

LEMMA ShareOfEmpty == ASSUME NEW o, NEW a \in Assets PROVE Share(<<>>, o, a) = 0
<1>1. [i \in DOMAIN <<>> |-> IF <<>>[i].owner = o THEN <<>>[i].value[a] ELSE 0]
        = [i \in DOMAIN <<>> |-> <<>>[i].value[a]]
  OBVIOUS
<1> QED BY <1>1, TotalOfEmpty DEF Share, Total

LEMMA ShareOfSingle ==
  ASSUME NEW x, x.value \in Value, NEW o, NEW a \in Assets
  PROVE  Share(<<x>>, o, a) = IF x.owner = o THEN x.value[a] ELSE 0
<1> DEFINE y == Part(x, o)
<1>1. y.value \in Value /\ y.value[a] = IF x.owner = o THEN x.value[a] ELSE 0
  BY DEF Value, Part
<1>2. [i \in DOMAIN <<x>> |-> IF <<x>>[i].owner = o THEN <<x>>[i].value[a] ELSE 0]
        = [i \in DOMAIN <<y>> |-> <<y>>[i].value[a]]
  <2>1. DOMAIN <<x>> = {1} /\ DOMAIN <<y>> = {1} /\ <<x>>[1] = x /\ <<y>>[1] = y
    OBVIOUS
  <2> HIDE DEF y
  <2> QED BY <1>1, <2>1
<1> HIDE DEF y
<1>3. Total(<<y>>, a) = y.value[a]
  BY <1>1, TotalOfSingle
<1>4. Share(<<x>>, o, a) = Total(<<y>>, a)
  BY <1>2 DEF Share, Total
<1> QED BY <1>1, <1>3, <1>4

\* Where only one owner has any of an asset.
LEMMA ShareOfHolder ==
  ASSUME NEW X, Valued(X), NEW s \in Seq(X), NEW a \in Assets, NEW p,
         \A i \in DOMAIN s : s[i].value[a] # 0 => s[i].owner = p,
         NEW o
  PROVE  Share(s, o, a) = IF o = p THEN Total(s, a) ELSE 0
<1>1. CASE o = p
  <2>1. [i \in DOMAIN s |-> IF s[i].owner = o THEN s[i].value[a] ELSE 0]
          = [i \in DOMAIN s |-> s[i].value[a]]
    BY <1>1
  <2> QED BY <1>1, <2>1 DEF Share, Total
<1>2. CASE o # p
  <2>1. \A i \in 1..Len(s) : Only(s, o)[i].value[a] = 0
    <3> SUFFICES ASSUME NEW i \in 1..Len(s) PROVE Only(s, o)[i].value[a] = 0
      OBVIOUS
    <3>1. (IF s[i].owner = o THEN s[i].value[a] ELSE 0) = 0
      BY <1>2, LenProperties
    <3>2. Only(s, o)[i] = Part(s[i], o)
      BY OnlyIs
    <3> QED BY <3>1, <3>2 DEF Part
  <2>2. Total(Only(s, o), a) = 0
    BY <2>1, OnlyIs, TotalWhereNone
  <2> QED BY <1>2, <2>2, OnlyIs
<1> QED BY <1>1, <1>2

\* Two lists that give the same to the same.
LEMMA SharesAgree ==
  ASSUME NEW s, NEW t, NEW a, DOMAIN s = DOMAIN t,
         \A i \in DOMAIN s : s[i].owner = t[i].owner /\ s[i].value[a] = t[i].value[a]
  PROVE  (\A o : Share(s, o, a) = Share(t, o, a)) /\ Total(s, a) = Total(t, a)
<1>1. \A o : [i \in DOMAIN s |-> IF s[i].owner = o THEN s[i].value[a] ELSE 0]
               = [i \in DOMAIN t |-> IF t[i].owner = o THEN t[i].value[a] ELSE 0]
  OBVIOUS
<1>2. [i \in DOMAIN s |-> s[i].value[a]] = [i \in DOMAIN t |-> t[i].value[a]]
  OBVIOUS
<1> QED BY <1>1, <1>2 DEF Share, Total

\* p says, for each asset, who holds what the list has of it.
HeldBy(list, p) ==
  \A i \in DOMAIN list, a \in Assets : list[i].value[a] # 0 => list[i].owner = p[a]

\* Beyond what is paid, the outputs are what p says.
Leaves(outs, paid, p) ==
  \A a \in Assets : \A o :
    Share(outs, o, a) = Share(paid, o, a)
                        + (IF o = p[a] THEN Total(outs, a) - Total(paid, a) ELSE 0)

LEMMA SharesType ==
  ASSUME NEW X, Valued(X), NEW s \in Seq(X)
  PROVE  \A a \in Assets : Total(s, a) \in Nat /\ \A o : Share(s, o, a) \in Nat
BY OnlyIs, TotalIs

LEMMA SharesOfHeld ==
  ASSUME NEW X, Valued(X), NEW s \in Seq(X), NEW p, HeldBy(s, p)
  PROVE  \A a \in Assets : \A o : Share(s, o, a) = IF o = p[a] THEN Total(s, a) ELSE 0
<1> SUFFICES ASSUME NEW a \in Assets, NEW o
             PROVE  Share(s, o, a) = IF o = p[a] THEN Total(s, a) ELSE 0
  OBVIOUS
<1> DEFINE who == p[a]
<1>1. \A i \in DOMAIN s : s[i].value[a] # 0 => s[i].owner = who
  BY DEF HeldBy
<1> HIDE DEF who
<1>2. Share(s, o, a) = IF o = who THEN Total(s, a) ELSE 0
  BY <1>1, ShareOfHolder
<1> QED BY <1>2 DEF who

LEMMA HeldConcat ==
  ASSUME NEW X, NEW s \in Seq(X), NEW t \in Seq(X), NEW p, HeldBy(s, p), HeldBy(t, p)
  PROVE  HeldBy(s \o t, p)
<1> DEFINE m == Len(s)
           n == Len(t)
<1>1. /\ m \in Nat /\ n \in Nat /\ s \o t \in Seq(X) /\ Len(s \o t) = m + n
      /\ \A i \in 1..(m + n) : (s \o t)[i] = IF i \leq m THEN s[i] ELSE t[i - m]
      /\ DOMAIN s = 1..m /\ DOMAIN t = 1..n
  BY ConcatProperties, LenProperties
<1>2. DOMAIN (s \o t) = 1..(m + n)
  BY <1>1, LenProperties
<1> HIDE DEF m, n
<1>3. ASSUME NEW i \in 1..(m + n), NEW a \in Assets, (s \o t)[i].value[a] # 0
      PROVE  (s \o t)[i].owner = p[a]
  <2>1. CASE i \leq m
    <3>1. i \in DOMAIN s /\ (s \o t)[i] = s[i]
      BY <1>1, <2>1
    <3> QED BY <1>3, <3>1 DEF HeldBy
  <2>2. CASE ~(i \leq m)
    <3>1. i - m \in DOMAIN t /\ (s \o t)[i] = t[i - m]
      BY <1>1, <2>2
    <3> QED BY <1>3, <3>1 DEF HeldBy
  <2> QED BY <2>1, <2>2
<1> QED BY <1>2, <1>3 DEF HeldBy

LEMMA HeldLeaves ==
  ASSUME NEW X, Valued(X), NEW s \in Seq(X), NEW t \in Seq(X), NEW p, HeldBy(t, p)
  PROVE  Leaves(s \o t, s, p)
<1> SUFFICES ASSUME NEW a \in Assets, NEW o
             PROVE  Share(s \o t, o, a) = Share(s, o, a)
                      + (IF o = p[a] THEN Total(s \o t, a) - Total(s, a) ELSE 0)
  BY DEF Leaves
<1> DEFINE both == s \o t
<1>1. Share(both, o, a) = Share(s, o, a) + Share(t, o, a)
  BY ShareOfConcat
<1>2. Total(both, a) = Total(s, a) + Total(t, a)
  BY TotalOfConcat
<1>3. Share(t, o, a) = IF o = p[a] THEN Total(t, a) ELSE 0
  BY SharesOfHeld
<1>4. Total(s, a) \in Nat /\ Total(t, a) \in Nat /\ Share(s, o, a) \in Nat
  BY SharesType
<1> HIDE DEF both
<1>5. Share(both, o, a) = Share(s, o, a) + (IF o = p[a] THEN Total(both, a) - Total(s, a) ELSE 0)
  BY <1>1, <1>2, <1>3, <1>4
<1> QED BY <1>5 DEF both

\* Nothing paid: all of it is what p says.
LEMMA HeldAlone ==
  ASSUME NEW X, Valued(X), NEW t \in Seq(X), NEW p, HeldBy(t, p)
  PROVE  Leaves(t, <<>>, p)
<1> SUFFICES ASSUME NEW a \in Assets, NEW o
             PROVE  Share(t, o, a) = Share(<<>>, o, a)
                      + (IF o = p[a] THEN Total(t, a) - Total(<<>>, a) ELSE 0)
  BY DEF Leaves
<1>1. Share(<<>>, o, a) = 0 /\ Total(<<>>, a) = 0
  BY ShareOfEmpty, TotalOfEmpty
<1>2. Share(t, o, a) = IF o = p[a] THEN Total(t, a) ELSE 0
  BY SharesOfHeld
<1>3. Total(t, a) \in Nat
  BY SharesType
<1> QED BY <1>1, <1>2, <1>3

LEMMA LeavesOn ==
  ASSUME NEW X, Valued(X), NEW r \in Seq(X), NEW s \in Seq(X), NEW t \in Seq(X), NEW p,
         Leaves(t, s, p), Leaves(s, r, p)
  PROVE  Leaves(t, r, p)
<1> SUFFICES ASSUME NEW a \in Assets, NEW o
             PROVE  Share(t, o, a) = Share(r, o, a) + (IF o = p[a] THEN Total(t, a) - Total(r, a) ELSE 0)
  BY DEF Leaves
<1>1. Share(t, o, a) = Share(s, o, a) + (IF o = p[a] THEN Total(t, a) - Total(s, a) ELSE 0)
      /\ Share(s, o, a) = Share(r, o, a) + (IF o = p[a] THEN Total(s, a) - Total(r, a) ELSE 0)
  BY DEF Leaves
<1>2. /\ Total(r, a) \in Nat /\ Total(s, a) \in Nat /\ Total(t, a) \in Nat
      /\ Share(r, o, a) \in Nat
  BY SharesType
<1> QED BY <1>1, <1>2

-----------------------------------------------------------------------------
(***************************************************************************)
(* What is asked for                                                       *)
(***************************************************************************)
AskSet == [from : Owners, to : Owners, asset : Assets, amount : Nat]

\* The asks as coins of whoever gives, or of whoever receives.
Coins(asks, end) ==
  [i \in DOMAIN asks |-> [owner |-> asks[i][end], value |-> Of(asks[i].asset, asks[i].amount)]]
Coin == [owner : Owners, value : Value]

LEMMA CoinsAre ==
  ASSUME NEW asks \in Seq(AskSet), NEW end \in {"from", "to"}
  PROVE  /\ Coins(asks, end) \in Seq(Coin) /\ Valued(Coin) /\ Len(Coins(asks, end)) = Len(asks)
         /\ Len(asks) \in Nat /\ DOMAIN asks = 1..Len(asks)
         /\ \A i \in 1..Len(asks) :
              Coins(asks, end)[i] = [owner |-> asks[i][end], value |-> Of(asks[i].asset, asks[i].amount)]
         /\ \A h : h.asks = asks =>
              \A o : \A a \in Assets : Asked(h, end, o, a) = Share(Coins(asks, end), o, a)
<1> DEFINE n == Len(asks)
           at(i) == [owner |-> asks[i][end], value |-> Of(asks[i].asset, asks[i].amount)]
<1>1. n \in Nat /\ DOMAIN asks = 1..n /\ \A i \in 1..n : asks[i] \in AskSet
  <2> HIDE DEF AskSet
  <2> QED BY LenProperties, ElementOfSeq
<1>2. ASSUME NEW i \in 1..n PROVE at(i) \in Coin
  <2>1. asks[i][end] \in Owners /\ asks[i].asset \in Assets /\ asks[i].amount \in Nat
    <3>1. asks[i] \in AskSet
      BY <1>1
    <3> QED BY <3>1 DEF AskSet
  <2>2. Of(asks[i].asset, asks[i].amount) \in Value
    BY <2>1, OfIsValue
  <2> QED BY <2>1, <2>2 DEF Coin
<1>3. Coins(asks, end) = [i \in 1..n |-> at(i)]
  BY <1>1 DEF Coins
<1>4. Valued(Coin)
  BY DEF Valued, Coin
<1>5. \A i \in 1..n, a \in Assets : at(i).owner = asks[i][end]
         /\ at(i).value[a] = IF asks[i].asset = a THEN asks[i].amount ELSE 0
  BY DEF Of
<1> HIDE DEF at, n
<1>6. [i \in 1..n |-> at(i)] \in Seq(Coin)
  BY <1>1, <1>2, IsASeq
<1>7. Coins(asks, end) \in Seq(Coin) /\ Len(Coins(asks, end)) = n
  BY <1>1, <1>3, <1>6, LenProperties
<1>8. ASSUME NEW h, h.asks = asks, NEW o, NEW a \in Assets
      PROVE  Asked(h, end, o, a) = Share(Coins(asks, end), o, a)
  <2>1. [i \in DOMAIN h.asks |->
           IF h.asks[i][end] = o /\ h.asks[i].asset = a THEN h.asks[i].amount ELSE 0]
          = [i \in DOMAIN Coins(asks, end) |->
               IF Coins(asks, end)[i].owner = o THEN Coins(asks, end)[i].value[a] ELSE 0]
    BY <1>1, <1>3, <1>5, <1>8
  <2> QED BY <2>1 DEF Asked, Share
<1>9. \A i \in 1..n : Coins(asks, end)[i] = at(i)
  BY <1>3
<1> QED BY <1>1, <1>4, <1>7, <1>8, <1>9 DEF at, n

LEMMA CoinsOfConcat ==
  ASSUME NEW s \in Seq(AskSet), NEW t \in Seq(AskSet), NEW end \in {"from", "to"}
  PROVE  s \o t \in Seq(AskSet) /\ Coins(s \o t, end) = Coins(s, end) \o Coins(t, end)
<1> DEFINE m == Len(s)
           n == Len(t)
           C == Coins(s, end)
           D == Coins(t, end)
           B == Coins(s \o t, end)
           of(ask) == [owner |-> ask[end], value |-> Of(ask.asset, ask.amount)]
<1>1. /\ m \in Nat /\ n \in Nat /\ s \o t \in Seq(AskSet) /\ Len(s \o t) = m + n
      /\ \A i \in 1..(m + n) : (s \o t)[i] = IF i \leq m THEN s[i] ELSE t[i - m]
  <2> HIDE DEF AskSet
  <2> QED BY ConcatProperties, LenProperties
<1>2. /\ C \in Seq(Coin) /\ Len(C) = m /\ \A i \in 1..m : C[i] = of(s[i])
      /\ D \in Seq(Coin) /\ Len(D) = n /\ \A i \in 1..n : D[i] = of(t[i])
      /\ B \in Seq(Coin) /\ Len(B) = m + n /\ \A i \in 1..(m + n) : B[i] = of((s \o t)[i])
  <2>1. \A list \in Seq(AskSet) :
          /\ Coins(list, end) \in Seq(Coin) /\ Len(Coins(list, end)) = Len(list)
          /\ \A i \in 1..Len(list) : Coins(list, end)[i] = of(list[i])
    BY CoinsAre
  <2> HIDE DEF of
  <2> QED BY <1>1, <2>1
<1> HIDE DEF C, D, B, of, m, n
<1>3. /\ C \o D \in Seq(Coin) /\ Len(C \o D) = m + n
      /\ \A i \in 1..(m + n) : (C \o D)[i] = IF i \leq m THEN C[i] ELSE D[i - m]
  BY <1>2, ConcatProperties
<1>4. ASSUME NEW i \in 1..(m + n) PROVE B[i] = (C \o D)[i]
  <2>1. CASE i \leq m
    <3>1. i \in 1..m
      BY <1>1, <2>1
    <3> QED BY <1>1, <1>2, <1>3, <2>1, <3>1
  <2>2. CASE ~(i \leq m)
    <3>1. i - m \in 1..n
      BY <1>1, <2>2
    <3> QED BY <1>1, <1>2, <1>3, <2>2, <3>1
  <2> QED BY <2>1, <2>2
<1>5. B = C \o D
  <2>1. DOMAIN B = 1..(m + n) /\ DOMAIN (C \o D) = 1..(m + n)
    BY <1>2, <1>3, LenProperties
  <2>2. B = [i \in 1..(m + n) |-> B[i]] /\ C \o D = [i \in 1..(m + n) |-> (C \o D)[i]]
    BY <1>2, <1>3, <2>1, LenProperties
  <2> QED BY <1>4, <2>2
<1> QED BY <1>1, <1>5 DEF B, C, D

LEMMA AskedOfConcat ==
  ASSUME NEW s \in Seq(AskSet), NEW t \in Seq(AskSet), NEW end \in {"from", "to"},
         NEW o, NEW a \in Assets
  PROVE  Share(Coins(s \o t, end), o, a) = Share(Coins(s, end), o, a) + Share(Coins(t, end), o, a)
<1>1. Coins(s, end) \in Seq(Coin) /\ Coins(t, end) \in Seq(Coin) /\ Valued(Coin)
  BY CoinsAre
<1>2. Share(Coins(s, end) \o Coins(t, end), o, a) = Share(Coins(s, end), o, a) + Share(Coins(t, end), o, a)
  BY <1>1, ShareOfConcat
<1> QED BY <1>2, CoinsOfConcat

LEMMA NothingAsked ==
  /\ <<>> \in Seq(AskSet)
  /\ \A end \in {"from", "to"} : \A a \in Assets : \A o : Share(Coins(<<>>, end), o, a) = 0
<1>1. <<>> \in Seq(AskSet)
  BY EmptySeq
<1>2. ASSUME NEW end \in {"from", "to"} PROVE Coins(<<>>, end) = <<>>
  <2>1. Coins(<<>>, end) \in Seq(Coin) /\ Len(Coins(<<>>, end)) = 0
    BY <1>1, CoinsAre, EmptySeq
  <2> QED BY <2>1, EmptySeq
<1> QED BY <1>1, <1>2, ShareOfEmpty

LEMMA AskedOfOne ==
  ASSUME NEW ask \in AskSet, NEW end \in {"from", "to"}, NEW o, NEW a \in Assets
  PROVE  /\ <<ask>> \in Seq(AskSet)
         /\ Share(Coins(<<ask>>, end), o, a) = IF ask[end] = o /\ ask.asset = a THEN ask.amount ELSE 0
<1> DEFINE c == [owner |-> ask[end], value |-> Of(ask.asset, ask.amount)]
<1>1. ask.asset \in Assets /\ ask.amount \in Nat
  BY DEF AskSet
<1>2. Of(ask.asset, ask.amount) \in Value /\ Of(ask.asset, ask.amount)[a] = IF ask.asset = a THEN ask.amount ELSE 0
  BY <1>1, OfIsValue
<1>3. Coins(<<ask>>, end) = <<c>>
  BY DEF Coins
<1>4. c.value \in Value /\ c.owner = ask[end] /\ c.value[a] = IF ask.asset = a THEN ask.amount ELSE 0
  BY <1>2
<1>5. <<ask>> \in Seq(AskSet)
  <2> HIDE DEF AskSet
  <2> QED OBVIOUS
<1> HIDE DEF c
<1>6. Share(<<c>>, o, a) = IF c.owner = o THEN c.value[a] ELSE 0
  BY <1>4, ShareOfSingle
<1> QED BY <1>3, <1>4, <1>5, <1>6

-----------------------------------------------------------------------------
(***************************************************************************)
(* Fees and selection                                                      *)
(***************************************************************************)
LEMMA PriceType ==
  ASSUME NEW inputs \in Nat, NEW outputs \in Nat, NEW smart
  PROVE  Price(inputs, outputs, smart) \in Nat
<1> DEFINE out == IF smart THEN SMART_OUTPUT_SIZE ELSE P2PKH_OUTPUT_SIZE
           first == inputs * INPUT_SIZE
           second == outputs * out
<1>1. INPUT_SIZE \in Nat /\ out \in Nat /\ TX_OVERHEAD \in Nat /\ MIN_FEE \in Nat
  BY BuildersAssumption
<1>2. first \in Nat /\ second \in Nat
  <2> HIDE DEF out
  <2> QED BY <1>1
<1>3. Price(inputs, outputs, smart)
        = IF TX_OVERHEAD + first + second > MIN_FEE THEN TX_OVERHEAD + first + second ELSE MIN_FEE
  BY DEF Price
<1> HIDE DEF first, second
<1> QED BY <1>1, <1>2, <1>3

LEMMA SettleIs ==
  ASSUME NEW left \in Nat, NEW fee \in Nat
  PROVE  /\ Settle(left, fee).change \in Nat /\ Settle(left, fee).fee \in Nat
         /\ Settle(left, fee).change + Settle(left, fee).fee = left + fee
BY DEF Settle

LEMMA LeastIsMin ==
  ASSUME NEW S, S \subseteq Nat, S # {}
  PROVE  Min(S) \in S
<1>1. PICK x \in S : \A y \in S : x \leq y
  BY LeastNatural
<1> QED BY <1>1 DEF Min

LEMMA ExitsAre ==
  ASSUME NEW X, NEW list \in Seq(X), NEW needed, Exits(list, needed) # {}
  PROVE  LET n == Min(Exits(list, needed))
         IN n \in 0..Len(list) /\ Total(SubSeq(list, 1, n), Native) \geq needed[n]
<1>1. Exits(list, needed) \subseteq Nat
  BY LenProperties DEF Exits
<1>2. Min(Exits(list, needed)) \in Exits(list, needed)
  BY <1>1, LeastIsMin
<1> QED BY <1>2 DEF Exits

\* What is selected pays exactly what is required, the change and the fee.
LEMMA SelectionIs ==
  ASSUME NEW X, Valued(X), NEW list \in Seq(X), Distinct(list),
         NEW required \in Nat, NEW outputs \in Nat, NEW smart,
         NEW s, s = select_utxos(list, required, outputs, smart), s.kind # "refused"
  PROVE  /\ Drawn(s.taken, list, DOMAIN list, X)
         /\ s.change \in Nat /\ s.fee \in Nat
         /\ Total(s.taken, Native) = required + s.change + s.fee
<1> DEFINE sorted == InOrder(list, DOMAIN list, LargerFirst(list))
           fee(n) == Price(IF n = 0 THEN 1 ELSE n, outputs + 1, smart)
           needed == [n \in 0..Len(list) |-> required + fee(n)]
           exits  == Exits(sorted, needed)
           n      == Min(exits)
           taken  == SubSeq(sorted, 1, n)
           left   == Total(taken, Native) - needed[n]
           r      == Settle(left, fee(n))
<1>1. Drawn(sorted, list, DOMAIN list, X)
  <2>1. DOMAIN list \in Subsets(list)
    BY DEF Subsets
  <2> QED BY <2>1, LargerFirstIsOrder, InOrderDraws
<1>2. exits # {} /\ s = [kind |-> "selected", taken |-> taken, change |-> r.change, fee |-> r.fee]
  <2>1. ~Repeats(list)
    BY DEF select_utxos, Refused
  <2>2. exits # {}
    BY <2>1 DEF select_utxos, Refused
  <2> QED BY <2>1, <2>2 DEF select_utxos
<1>3. n \in 0..Len(sorted) /\ Total(taken, Native) \geq needed[n]
  <2>1. sorted \in Seq(X)
    BY <1>1 DEF Drawn
  <2> HIDE DEF sorted, needed
  <2> QED BY <1>2, <2>1, ExitsAre
<1>4. Len(sorted) = Len(list) /\ Len(list) \in Nat
  <2>1. sorted \in Seq(X) /\ Len(list) \in Nat /\ DOMAIN list = 1..Len(list)
    BY <1>1, LenProperties DEF Drawn
  <2>2. Cardinality(DOMAIN list) = Len(list) 
    <3> DEFINE m == Len(list)
    <3> HIDE DEF m
    <3>1. m \in Nat => Cardinality(1..m) = m
      BY FS_Interval
    <3> QED BY <2>1, <3>1 DEF m
  <2>3. DOMAIN sorted = 1..Len(list)
    BY <2>2 DEF InOrder
  <2> HIDE DEF sorted
  <2> QED BY <2>1, <2>3, LenProperties
<1>5. Drawn(taken, list, DOMAIN list, X)
  <2> HIDE DEF sorted, n
  <2> QED BY <1>1, <1>3, PrefixDraws
<1>6. fee(n) \in Nat /\ needed[n] = required + fee(n)
  <2>1. n \in Nat /\ (IF n = 0 THEN 1 ELSE n) \in Nat /\ n \in 0..Len(list)
    BY <1>3, <1>4
  <2>2. Price(IF n = 0 THEN 1 ELSE n, outputs + 1, smart) \in Nat
    <3> DEFINE inputs == IF n = 0 THEN 1 ELSE n
    <3>1. inputs \in Nat /\ outputs + 1 \in Nat
      BY <2>1
    <3> HIDE DEF inputs
    <3> QED BY <3>1, PriceType DEF inputs
  <2>3. needed[n] = required + fee(n)
    <3> HIDE DEF n
    <3> QED BY <2>1
  <2> QED BY <2>2, <2>3
<1>7. Total(taken, Native) \in Nat
  BY <1>5, AssetsAre, TotalIs DEF Drawn
<1> HIDE DEF taken, n, fee, needed
<1>8. left \in Nat
  BY <1>3, <1>6, <1>7
<1> HIDE DEF left
<1>9. r.change \in Nat /\ r.fee \in Nat /\ r.change + r.fee = left + fee(n)
  BY <1>6, <1>8, SettleIs
<1> HIDE DEF r
<1>10. Total(taken, Native) = required + r.change + r.fee
  <2> DEFINE paid == Total(taken, Native)
             need == needed[n]
             cost == fee(n)
             change == r.change
             given == r.fee
  <2>1. /\ left = paid - need /\ need = required + cost /\ change + given = left + cost
        /\ paid \in Int /\ cost \in Int /\ change \in Int /\ given \in Int /\ required \in Int
    BY <1>6, <1>7, <1>9 DEF left
  <2> HIDE DEF paid, need, cost, change, given
  <2>2. paid = required + change + given
    BY <2>1
  <2> QED BY <2>2 DEF paid, change, given
<1> QED BY <1>2, <1>5, <1>9, <1>10

-----------------------------------------------------------------------------
(***************************************************************************)
(* What a builder makes of coins in X that one key signs for               *)
(***************************************************************************)
\* The fee is what the outputs leave, and of tokens they leave nothing.
Exactly(ins, outs, fee) ==
  /\ fee \in Nat /\ Total(ins, Native) = Total(outs, Native) + fee
  /\ \A t \in Tokens : Total(ins, t) = Total(outs, t)

Good(tx, key, X) ==
  /\ tx.ins \in Seq(X) /\ Distinct(tx.ins)
  /\ tx.outs \in Seq(Placed)
  /\ Exactly(tx.ins, tx.outs, tx.fee)
  /\ tx.sigs = [i \in DOMAIN tx.ins |-> [by |-> key, hash |-> "all"]]

LEMMA BuiltIsGood ==
  ASSUME NEW X, NEW key, NEW ins \in Seq(X), Distinct(ins), NEW outs \in Seq(Placed),
         NEW fee, Exactly(ins, outs, fee), NEW unpriced
  PROVE  Good(Built(key, ins, outs, fee, unpriced), key, X)
BY DEF Good, Built

\* Everything one owner's.
Always(who) == [a \in Assets |-> who]

\* p says whose the inputs are; beyond what is paid, the outputs are theirs.
Fair(tx, paid, p) == HeldBy(tx.ins, p) /\ Leaves(tx.outs, paid, p)

\* What the callers of assemble hand over.
WellPlanned(plan, X, p) ==
  /\ plan.leading \in Seq(X) /\ Distinct(plan.leading)
  /\ plan.funding \in Seq(X) /\ Distinct(plan.funding)
  /\ Apart(plan.leading, plan.funding)
  /\ plan.outs \in Seq(Placed)
  /\ plan.counted \in Nat /\ plan.burn \in Nat
  /\ plan.change \in Keys \cup Identities
  /\ \A t \in Tokens : Total(plan.leading, t) = Total(plan.outs, t)
  /\ plan.change = p[Native]
  /\ Plain(plan.funding) /\ \A i \in DOMAIN plan.funding : plan.funding[i].owner = p[Native]
  /\ plan.bearing => \A i \in DOMAIN plan.leading : plan.leading[i].owner = p[Native]
  /\ \A i \in DOMAIN plan.leading, t \in Tokens :
       plan.leading[i].value[t] # 0 => plan.leading[i].owner = p[t]

LEMMA ChangeIsHeld ==
  ASSUME NEW plan, NEW p, plan.change \in Keys \cup Identities, plan.change = p[Native], NEW n \in Nat
  PROVE  HeldBy(ChangeOut(plan, n), p)
<1> DEFINE who == plan.change
<1>1. CASE n > 0
  <2> DEFINE o == Pay(who, n)
  <2>1. ChangeOut(plan, n) = <<o>>
    BY <1>1 DEF ChangeOut
  <2>2. o.owner = who /\ o.value = Of(Native, n)
    BY DEF Pay, Output
  <2> HIDE DEF o
  <2>3. \A a \in Assets : o.value[a] # 0 => o.owner = p[a]
    BY <2>2 DEF Of
  <2> QED BY <2>1, <2>3 DEF HeldBy
<1>2. CASE ~(n > 0)
  BY <1>2 DEF ChangeOut, HeldBy
<1> QED BY <1>1, <1>2

LEMMA ChangeIsFair ==
  ASSUME NEW plan, NEW p, plan.change \in Keys \cup Identities, plan.change = p[Native],
         NEW outs \in Seq(Placed), NEW n \in Nat
  PROVE  Leaves(outs \o ChangeOut(plan, n), outs, p)
<1> DEFINE back == ChangeOut(plan, n)
<1>1. back \in Seq(Placed) /\ HeldBy(back, p)
  BY ChangeOutIs, ChangeIsHeld
<1> HIDE DEF back
<1>2. Leaves(outs \o back, outs, p)
  BY <1>1, PlacedIsValued, HeldLeaves
<1> QED BY <1>2 DEF back

LEMMA TotalsAreNat ==
  ASSUME NEW X, Valued(X), NEW s \in Seq(X)
  PROVE  \A a \in Assets : Total(s, a) \in Nat
BY TotalIs

LEMMA PaidByLeadingIsGood ==
  ASSUME NEW X, Valued(X), NEW key, NEW plan, NEW p, WellPlanned(plan, X, p), plan.bearing,
         NEW tx, tx = PaidByLeading(key, plan), tx.kind = "built"
  PROVE  Good(tx, key, X) /\ Fair(tx, plan.outs, p)
<1> DEFINE required == Total(plan.outs, Native) + plan.burn
           fee      == Price(Len(plan.leading), plan.counted, TRUE)
           brought  == Total(plan.leading, Native)
           left     == brought - required - fee
           s        == Settle(left, fee)
           outs     == plan.outs \o ChangeOut(plan, s.change)
<1>1. ~(left < 0) /\ tx = Built(key, plan.leading, outs, s.fee + plan.burn, 0)
  <2>1. plan.change \in Identities
    BY DEF PaidByLeading, Refused
  <2>2. plan.funding = <<>>
    BY <2>1 DEF PaidByLeading, Refused
  <2>3. ~Repeats(plan.leading)
    BY <2>1, <2>2 DEF PaidByLeading, Refused
  <2>4. ~(left < 0)
    BY <2>1, <2>2, <2>3 DEF PaidByLeading, Refused
  <2> QED BY <2>1, <2>2, <2>3, <2>4 DEF PaidByLeading
<1>2. brought \in Nat /\ Total(plan.outs, Native) \in Nat
  BY AssetsAre, TotalsAreNat, PlacedIsValued DEF WellPlanned
<1>3. fee \in Nat
  <2>1. Len(plan.leading) \in Nat /\ plan.counted \in Nat
    BY LenProperties DEF WellPlanned
  <2> QED BY <2>1, PriceType
<1>4. plan.burn \in Nat
  BY DEF WellPlanned
<1>5. left \in Nat /\ brought = required + left + fee
  <2> DEFINE needed == Total(plan.outs, Native)
             burn == plan.burn
  <2> HIDE DEF brought, fee, needed, burn
  <2> QED BY <1>1, <1>2, <1>3, <1>4 DEF needed, burn
<1>6. s.change \in Nat /\ s.fee \in Nat /\ s.change + s.fee = left + fee
  <2> HIDE DEF left, fee
  <2> QED BY <1>3, <1>5, SettleIs
<1> HIDE DEF s, left, fee, brought
<1>7. /\ outs \in Seq(Placed) /\ Total(outs, Native) = Total(plan.outs, Native) + s.change
      /\ \A t \in Tokens : Total(outs, t) = Total(plan.outs, t)
  <2> DEFINE change == s.change
             paid == plan.outs
  <2>1. change \in Nat /\ paid \in Seq(Placed) /\ plan.change \in Keys \cup Identities
    BY <1>6 DEF WellPlanned
  <2>2. /\ paid \o ChangeOut(plan, change) \in Seq(Placed)
        /\ Total(paid \o ChangeOut(plan, change), Native) = Total(paid, Native) + change
        /\ \A t \in Tokens : Total(paid \o ChangeOut(plan, change), t) = Total(paid, t)
    <3> HIDE DEF change, paid
    <3> QED BY <2>1, WithChange
  <2> QED BY <2>2
<1>a. Leaves(outs, plan.outs, p)
  <2> DEFINE change == s.change
             paid == plan.outs
  <2>1. change \in Nat /\ paid \in Seq(Placed) /\ plan.change \in Keys \cup Identities
        /\ plan.change = p[Native]
    BY <1>6 DEF WellPlanned
  <2>2. Leaves(paid \o ChangeOut(plan, change), paid, p)
    <3> HIDE DEF change, paid
    <3> QED BY <2>1, ChangeIsFair
  <2> QED BY <2>2
<1> HIDE DEF outs
<1>b. HeldBy(plan.leading, p)
  BY DEF WellPlanned, HeldBy, Assets
<1>8. Exactly(plan.leading, outs, s.fee + plan.burn)
  <2>1. brought = Total(outs, Native) + (s.fee + plan.burn) /\ s.fee + plan.burn \in Nat
    <3> DEFINE paid == Total(plan.outs, Native)
               burn == plan.burn
               change == s.change
               given == s.fee
               all == Total(outs, Native)
    <3>1. /\ all = paid + change /\ brought = paid + burn + left + fee /\ change + given = left + fee
          /\ paid \in Nat /\ burn \in Nat /\ left \in Nat /\ fee \in Nat /\ change \in Nat /\ given \in Nat
      BY <1>2, <1>3, <1>4, <1>5, <1>6, <1>7
    <3> HIDE DEF paid, burn, change, given, all
    <3>2. brought = all + (given + burn) /\ given + burn \in Nat
      BY <3>1
    <3> QED BY <3>2 DEF all, given, burn
  <2>2. \A t \in Tokens : Total(plan.leading, t) = Total(outs, t)
    BY <1>7 DEF WellPlanned
  <2> QED BY <2>1, <2>2 DEF Exactly, brought
<1>9. Good(tx, key, X)
  <2> DEFINE fee2 == s.fee + plan.burn
  <2>1. tx = Built(key, plan.leading, outs, fee2, 0) /\ Exactly(plan.leading, outs, fee2)
    BY <1>1, <1>8
  <2> HIDE DEF fee2
  <2> QED BY <1>7, <2>1, BuiltIsGood DEF WellPlanned
<1> QED BY <1>1, <1>9, <1>a, <1>b DEF Fair, Built

LEMMA PaidByFundingIsGood ==
  ASSUME NEW X, Valued(X), NEW key, NEW plan, NEW p, WellPlanned(plan, X, p),
         NEW tx, tx = PaidByFunding(key, plan), tx.kind = "built"
  PROVE  Good(tx, key, X) /\ Fair(tx, plan.outs, p)
<1> DEFINE required == Total(plan.outs, Native) + plan.burn
           s == select_utxos(plan.funding, required, plan.counted, TRUE)
           outs == plan.outs \o ChangeOut(plan, s.change)
           ins  == plan.leading \o s.taken
<1>1. /\ s.kind # "refused"
      /\ tx = Built(key, ins, outs, s.fee + plan.burn, Len(plan.leading))
      /\ ~ \E i \in DOMAIN plan.leading : Sat(plan.leading[i]) > 0
  <2>1. ~ \E i \in DOMAIN plan.leading : Sat(plan.leading[i]) > 0
    BY DEF PaidByFunding, Refused
  <2>2. s.kind # "refused"
    <3> SUFFICES ASSUME s.kind = "refused" PROVE FALSE
      OBVIOUS
    <3>1. tx = s
      BY <2>1 DEF PaidByFunding
    <3> HIDE DEF s
    <3> QED BY <3>1
  <2> QED BY <2>1, <2>2 DEF PaidByFunding
<1>2. Total(plan.outs, Native) \in Nat /\ plan.burn \in Nat /\ required \in Nat
  BY AssetsAre, TotalsAreNat, PlacedIsValued DEF WellPlanned
<1>3. /\ Drawn(s.taken, plan.funding, DOMAIN plan.funding, X)
      /\ s.change \in Nat /\ s.fee \in Nat
      /\ Total(s.taken, Native) = required + s.change + s.fee
  <2> DEFINE picked == s
             list == plan.funding
             need == required
             counted == plan.counted
             smart == TRUE
  <2>1. picked = select_utxos(list, need, counted, smart) /\ picked.kind # "refused"
    BY <1>1
  <2>2. list \in Seq(X) /\ Distinct(list) /\ need \in Nat /\ counted \in Nat
    BY <1>2 DEF WellPlanned
  <2>3. /\ Drawn(picked.taken, list, DOMAIN list, X) /\ picked.change \in Nat /\ picked.fee \in Nat
        /\ Total(picked.taken, Native) = need + picked.change + picked.fee
    <3> HIDE DEF picked, list, need, counted, smart
    <3> QED BY <2>1, <2>2, SelectionIs
  <2> QED BY <2>3
<1> HIDE DEF s
<1>4. ins \in Seq(X) /\ Distinct(ins)
  <2>1. s.taken \in Seq(X) /\ Distinct(s.taken)
    BY <1>3 DEF Drawn
  <2>2. Apart(plan.leading, s.taken)
    BY <1>3 DEF Drawn, Apart, WellPlanned
  <2> QED BY <2>1, <2>2, ConcatIsDistinct DEF WellPlanned
<1>5. /\ outs \in Seq(Placed) /\ Total(outs, Native) = Total(plan.outs, Native) + s.change
      /\ \A t \in Tokens : Total(outs, t) = Total(plan.outs, t)
  BY <1>3, WithChange DEF WellPlanned
<1>6. \A a \in Assets : /\ Total(ins, a) = Total(plan.leading, a) + Total(s.taken, a)
                        /\ Total(plan.leading, a) \in Nat /\ Total(s.taken, a) \in Nat
  BY <1>3, TotalOfConcat, TotalsAreNat DEF WellPlanned, Drawn
<1>a. Leaves(outs, plan.outs, p)
  BY <1>3, ChangeIsFair DEF WellPlanned
<1>b. \A i \in DOMAIN s.taken : /\ s.taken[i].owner = p[Native]
                                /\ \A t \in Tokens : s.taken[i].value[t] = 0
  BY <1>3 DEF Drawn, WellPlanned, Plain
<1>c. \A t \in Tokens : Total(s.taken, t) = 0
  <2>1. s.taken \in Seq(X)
    BY <1>3 DEF Drawn
  <2>2. DOMAIN s.taken = 1..Len(s.taken)
    BY <2>1, LenProperties
  <2> QED BY <1>b, <2>1, <2>2, AssetsAre, TotalWhereNone
<1>e. (\A i \in DOMAIN plan.leading : plan.leading[i].value[Native] = 0)
      /\ Total(plan.leading, Native) = 0
  <2>1. plan.leading \in Seq(X)
    BY DEF WellPlanned
  <2>2. DOMAIN plan.leading = 1..Len(plan.leading) /\ \A i \in DOMAIN plan.leading : plan.leading[i] \in X
    BY <2>1, LenProperties, ElementOfSeq
  <2>3. \A i \in DOMAIN plan.leading : plan.leading[i].value[Native] = 0
    <3> SUFFICES ASSUME NEW i \in DOMAIN plan.leading PROVE plan.leading[i].value[Native] = 0
      OBVIOUS
    <3>1. plan.leading[i].value[Native] \in Nat
      BY <2>2, AssetsAre DEF Valued, Value
    <3> QED BY <1>1, <3>1 DEF Sat
  <2> QED BY <2>1, <2>2, <2>3, AssetsAre, TotalWhereNone
<1>d. HeldBy(ins, p)
  <2>1. HeldBy(s.taken, p)
    BY <1>b DEF HeldBy, Assets
  <2>3. HeldBy(plan.leading, p)
    BY <1>e DEF HeldBy, Assets, WellPlanned
  <2>4. plan.leading \in Seq(X) /\ s.taken \in Seq(X)
    BY <1>3 DEF WellPlanned, Drawn
  <2> QED BY <2>1, <2>3, <2>4, HeldConcat
<1> HIDE DEF outs, ins
<1>7. Exactly(ins, outs, s.fee + plan.burn)
  <2>1. Total(ins, Native) = Total(outs, Native) + (s.fee + plan.burn) /\ s.fee + plan.burn \in Nat
    <3> DEFINE brought == Total(ins, Native)
               led == Total(plan.leading, Native)
               taken == Total(s.taken, Native)
               paid == Total(plan.outs, Native)
               burn == plan.burn
               all == Total(outs, Native)
               change == s.change
               given == s.fee
    <3>1. /\ brought = led + taken /\ taken = paid + burn + change + given /\ all = paid + change
          /\ led = 0 /\ paid \in Nat /\ burn \in Nat /\ change \in Nat /\ given \in Nat
      BY <1>2, <1>3, <1>5, <1>6, <1>e, AssetsAre
    <3> HIDE DEF brought, led, taken, paid, burn, all, change, given
    <3>2. brought = all + (given + burn) /\ given + burn \in Nat
      BY <3>1
    <3> QED BY <3>2 DEF brought, all, given, burn
  <2>2. ASSUME NEW t \in Tokens PROVE Total(ins, t) = Total(outs, t)
    <3> DEFINE brought == Total(ins, t)
               led == Total(plan.leading, t)
               taken == Total(s.taken, t)
               all == Total(outs, t)
    <3>1. /\ brought = led + taken /\ led \in Nat /\ taken = 0
      BY <1>6, <1>c, AssetsAre
    <3>2. all = led
      BY <1>5 DEF WellPlanned
    <3> HIDE DEF brought, led, taken, all
    <3>3. brought = all
      BY <3>1, <3>2
    <3> QED BY <3>3 DEF brought, all
  <2> QED BY <2>1, <2>2 DEF Exactly
<1>8. Good(tx, key, X)
  <2> DEFINE fee == s.fee + plan.burn
             n == Len(plan.leading)
  <2>1. tx = Built(key, ins, outs, fee, n) /\ Exactly(ins, outs, fee)
    BY <1>1, <1>7
  <2> HIDE DEF fee, n
  <2> QED BY <1>4, <1>5, <2>1, BuiltIsGood
<1> QED BY <1>1, <1>8, <1>a, <1>d DEF Fair, Built

LEMMA AssembleIsGood ==
  ASSUME NEW X, Valued(X), NEW key, NEW plan, NEW p, WellPlanned(plan, X, p),
         NEW tx, tx = assemble(key, plan), tx.kind = "built"
  PROVE  Good(tx, key, X) /\ Fair(tx, plan.outs, p)
BY PaidByLeadingIsGood, PaidByFundingIsGood DEF assemble

-----------------------------------------------------------------------------
(***************************************************************************)
(* Sends                                                                   *)
(***************************************************************************)
Recipients == Seq([to : Holder, asset : Assets, amount : Nat])

LEMMA RecipientsAre ==
  ASSUME NEW order \in Recipients
  PROVE  /\ Len(order) \in Nat /\ DOMAIN order = 1..Len(order)
         /\ \A i \in DOMAIN order : /\ order[i].to \in Keys \cup Identities
                                    /\ order[i].asset \in Assets /\ order[i].amount \in Nat
<1> DEFINE R == [to : Holder, asset : Assets, amount : Nat]
<1>1. order \in Seq(R)
  BY DEF Recipients
<1>2. Len(order) \in Nat /\ DOMAIN order = 1..Len(order)
  BY <1>1, LenProperties
<1>3. \A i \in 1..Len(order) : order[i] \in R
  <2> HIDE DEF R
  <2> QED BY <1>1, ElementOfSeq
<1> QED BY <1>2, <1>3 DEF Holder

PaymentsOf(order) == [i \in DOMAIN order |-> Pay(order[i].to, order[i].amount)]
ReservesOf(order) ==
  [i \in DOMAIN order |-> Reserve(order[i].to, order[i].asset, order[i].amount)]

LEMMA PaymentsAre ==
  ASSUME NEW order \in Recipients, NEW outs, outs = PaymentsOf(order)
  PROVE  outs \in Seq(Placed) /\ \A t \in Tokens : Total(outs, t) = 0
<1>1. \A i \in DOMAIN order : /\ Pay(order[i].to, order[i].amount) \in Placed
                              /\ Pay(order[i].to, order[i].amount).value = Of(Native, order[i].amount)
  BY RecipientsAre, PayIsPlaced
<1>2. outs \in Seq(Placed) /\ Len(outs) = Len(order)
  <2>1. \A i \in 1..Len(order) : Pay(order[i].to, order[i].amount) \in Placed
    BY <1>1, RecipientsAre
  <2>2. [i \in 1..Len(order) |-> Pay(order[i].to, order[i].amount)] \in Seq(Placed)
    BY <2>1, RecipientsAre, IsASeq
  <2>3. DOMAIN outs = 1..Len(order)
    BY RecipientsAre DEF PaymentsOf
  <2>4. outs \in Seq(Placed)
    BY <2>2, RecipientsAre DEF PaymentsOf
  <2> QED BY <2>3, <2>4, RecipientsAre, LenProperties
<1>3. ASSUME NEW t \in Tokens PROVE Total(outs, t) = 0
  <2>1. \A i \in 1..Len(outs) : outs[i].value[t] = 0
    <3> SUFFICES ASSUME NEW i \in 1..Len(outs) PROVE outs[i].value[t] = 0
      OBVIOUS
    <3>1. outs[i].value = Of(Native, order[i].amount)
      BY <1>1, <1>2, RecipientsAre DEF PaymentsOf
    <3> QED BY <3>1, AssetsAre DEF Of
  <2> QED BY <1>2, <2>1, AssetsAre, PlacedIsValued, TotalWhereNone
<1> QED BY <1>2, <1>3

LEMMA TransparentSendIsGood ==
  ASSUME NEW X, Valued(X), Sincere(X), NEW key, NEW list \in Seq(X), Distinct(list),
         NEW order \in Recipients, NEW back \in Keys, \A i \in DOMAIN list : list[i].owner = back,
         NEW tx, tx = plan_transparent_send(key, list, order, back), tx.kind = "built"
  PROVE  Good(tx, key, X) /\ Fair(tx, PaymentsOf(order), Always(back))
<1> DEFINE paid  == PaymentsOf(order)
           smart == \E i \in DOMAIN order : order[i].to \in Identities
           required == Total(paid, Native)
           s     == select_utxos(list, required, Len(order), smart)
           plan  == [change |-> back]
           outs  == paid \o ChangeOut(plan, s.change)
<1>1. /\ s.kind # "refused" /\ tx = Built(key, s.taken, outs, s.fee, 0)
      /\ ~(\E i \in DOMAIN list : list[i].shape # "p2pkh")
  <2>1. order # <<>> /\ ~(\E i \in DOMAIN list : list[i].shape # "p2pkh")
    BY DEF plan_transparent_send, Refused
  <2>2. ~(\E i \in DOMAIN order : order[i].amount = 0)
    BY <2>1 DEF plan_transparent_send, Refused
  <2>3. s.kind # "refused"
    <3> SUFFICES ASSUME s.kind = "refused" PROVE FALSE
      OBVIOUS
    <3>1. tx = s
      BY <2>1, <2>2 DEF plan_transparent_send, PaymentsOf
    <3> HIDE DEF s
    <3> QED BY <3>1
  <2> QED BY <2>1, <2>2, <2>3 DEF plan_transparent_send, PaymentsOf
<1>2. paid \in Seq(Placed) /\ \A t \in Tokens : Total(paid, t) = 0
  BY PaymentsAre
<1>3. required \in Nat /\ Len(order) \in Nat
  BY <1>2, AssetsAre, PlacedIsValued, TotalsAreNat, RecipientsAre
<1>4. /\ Drawn(s.taken, list, DOMAIN list, X) /\ s.change \in Nat /\ s.fee \in Nat
      /\ Total(s.taken, Native) = required + s.change + s.fee
  <2> DEFINE picked == s
             need == required
             count == Len(order)
             wide == smart
  <2>1. picked = select_utxos(list, need, count, wide) /\ picked.kind # "refused"
    BY <1>1
  <2>2. need \in Nat /\ count \in Nat
    BY <1>3
  <2>3. /\ Drawn(picked.taken, list, DOMAIN list, X) /\ picked.change \in Nat /\ picked.fee \in Nat
        /\ Total(picked.taken, Native) = need + picked.change + picked.fee
    <3> HIDE DEF picked, need, count, wide
    <3> QED BY <2>1, <2>2, SelectionIs
  <2> QED BY <2>3
<1> HIDE DEF s, paid
<1>5. /\ outs \in Seq(Placed) /\ Total(outs, Native) = required + s.change
      /\ \A t \in Tokens : Total(outs, t) = 0
  <2> DEFINE change == s.change
  <2>1. change \in Nat /\ plan.change \in Keys \cup Identities
    BY <1>4
  <2>2. /\ paid \o ChangeOut(plan, change) \in Seq(Placed)
        /\ Total(paid \o ChangeOut(plan, change), Native) = required + change
        /\ \A t \in Tokens : Total(paid \o ChangeOut(plan, change), t) = Total(paid, t)
    <3> HIDE DEF change, plan
    <3> QED BY <1>2, <2>1, WithChange
  <2> QED BY <1>2, <2>2
<1>6. s.taken \in Seq(X) /\ Distinct(s.taken) /\ \A a \in Assets : Total(s.taken, a) \in Nat
  BY <1>4, TotalsAreNat DEF Drawn
<1>a. Leaves(outs, paid, Always(back))
  <2> DEFINE change == s.change
             p == Always(back)
  <2>1. change \in Nat /\ plan.change \in Keys \cup Identities /\ plan.change = p[Native]
    BY <1>4, AssetsAre DEF Always
  <2>2. Leaves(paid \o ChangeOut(plan, change), paid, p)
    <3> HIDE DEF change, plan, p
    <3> QED BY <1>2, <2>1, ChangeIsFair
  <2> QED BY <2>2
<1> HIDE DEF outs
<1>b. HeldBy(s.taken, Always(back)) /\ \A t \in Tokens : Total(s.taken, t) = 0
  <2>1. \A i \in DOMAIN s.taken : s.taken[i].owner = back /\ s.taken[i].shape = "p2pkh"
    BY <1>1, <1>4 DEF Drawn
  <2>2. \A t \in Tokens : Total(s.taken, t) = 0
    <3> DEFINE taken == s.taken
    <3>1. taken \in Seq(X) /\ \A i \in DOMAIN taken : taken[i].shape \in {"p2pkh", "identity", "offer"}
      BY <1>6, <2>1
    <3> HIDE DEF taken
    <3>2. \A t \in Tokens : Total(taken, t) = 0
      BY <3>1, PlainIs
    <3> QED BY <3>2 DEF taken
  <2> QED BY <2>1, <2>2 DEF HeldBy, Always
<1>7. Exactly(s.taken, outs, s.fee)
  <2>1. Total(s.taken, Native) = Total(outs, Native) + s.fee /\ s.fee \in Nat
    <3> DEFINE taken == Total(s.taken, Native)
               all == Total(outs, Native)
               change == s.change
               given == s.fee
    <3>1. /\ taken = required + change + given /\ all = required + change
          /\ required \in Nat /\ change \in Nat /\ given \in Nat
      BY <1>3, <1>4, <1>5
    <3> HIDE DEF taken, all, change, given, required
    <3>2. taken = all + given
      BY <3>1
    <3> QED BY <1>4, <3>2 DEF taken, all, given
  <2>2. \A t \in Tokens : Total(s.taken, t) = Total(outs, t)
    BY <1>5, <1>b
  <2> QED BY <2>1, <2>2 DEF Exactly
<1>8. Good(tx, key, X)
  <2> DEFINE fee == s.fee
             taken == s.taken
  <2>1. tx = Built(key, taken, outs, fee, 0) /\ Exactly(taken, outs, fee)
        /\ taken \in Seq(X) /\ Distinct(taken)
    BY <1>1, <1>6, <1>7
  <2> HIDE DEF fee, taken
  <2> QED BY <1>5, <2>1, BuiltIsGood
<1> QED BY <1>1, <1>8, <1>a, <1>b DEF Fair, Built, paid

\* A sum with one member that is not zero.
LEMMA SumOfOne ==
  ASSUME NEW D, IsFiniteSet(D), NEW v \in [D -> Int], NEW p \in D,
         \A x \in D : x # p => v[x] = 0
  PROVE  SumOver(v, D) = v[p]
<1> DEFINE Rest == D \ {p}
           others == [y \in Rest |-> v[y]]
<1>1. SumOver(v, D) = v[p] + SumOver(others, Rest)
  BY TotalOfOneMore
<1>2. IsFiniteSet(Rest) /\ others \in [Rest -> Int] /\ \A y \in Rest : others[y] = 0
  BY FS_RemoveElement
<1>3. SumOver(others, Rest) = 0
  <2> HIDE DEF Rest, others
  <2> QED BY <1>2, SumOfZeros
<1>4. v[p] \in Int
  OBVIOUS
<1> QED BY <1>1, <1>3, <1>4

LEMMA SetToSeqIs ==
  ASSUME NEW S, IsFiniteSet(S)
  PROVE  /\ Cardinality(S) \in Nat
         /\ SetToSeq(S) \in Bijection(1..Cardinality(S), S)
<1> DEFINE n == Cardinality(S)
           Positions == 1..n
           listed == SetToSeq(S)
<1>1. n \in Nat /\ ExistsBijection(Positions, S)
  BY FS_CardinalityType
<1>2. \E f \in [Positions -> S] : IsInjective(f)
  BY <1>1 DEF ExistsBijection, Bijection, Injection
<1>3. listed \in [Positions -> S] /\ IsInjective(listed)
  BY <1>2 DEF SetToSeq
<1>4. IsFiniteSet(Positions) /\ Cardinality(Positions) = n
  <2> HIDE DEF n
  <2> QED BY <1>1, FS_Interval
<1> HIDE DEF listed, Positions
<1>5. listed \in Injection(Positions, S)
  BY <1>3 DEF Injection
<1>6. listed \in Surjection(Positions, S)
  BY <1>4, <1>5, FS_Injection
<1> QED BY <1>1, <1>5, <1>6 DEF Bijection, listed, Positions

\* One output for each token there is too much of, worth all of the surplus.
LEMMA TokenChangeIs ==
  ASSUME NEW balances \in [Tokens -> Int], NEW demand, NEW back \in Keys
  PROVE  LET outs == TokenChange(balances, demand, back)
         IN /\ outs \in Seq(Placed) /\ Total(outs, Native) = 0
            /\ \A t \in Tokens : Total(outs, t) = IF balances[t] < 0 THEN -balances[t] ELSE 0
            /\ HeldBy(outs, Always(back))
<1> DEFINE S == Surplus(balances)
           size == Cardinality(S)
           over == SetToSeq(S)
           outs == TokenChange(balances, demand, back)
<1>1. S \in SUBSET Tokens /\ IsFiniteSet(S)
  BY BuildersAssumption, FS_Subset DEF Surplus
<1>2. size \in Nat /\ over \in Bijection(1..size, S)
  <2> HIDE DEF S
  <2> QED BY <1>1, SetToSeqIs
<1>3. /\ over \in [1..size -> S]
      /\ \A i, j \in 1..size : over[i] = over[j] => i = j
      /\ \A t \in S : \E i \in 1..size : over[i] = t
  <2> HIDE DEF over, size, S
  <2> QED BY <1>2 DEF Bijection, Injection, IsInjective, Surjection
<1>4. DOMAIN over = 1..size /\ outs = [i \in 1..size |-> Reserve(back, over[i], -balances[over[i]])]
  BY <1>3 DEF TokenChange
<1> HIDE DEF over, size, outs
<1>5. ASSUME NEW i \in 1..size
      PROVE  /\ over[i] \in Tokens /\ -balances[over[i]] \in Nat
             /\ outs[i] \in Placed /\ outs[i].value = Of(over[i], -balances[over[i]])
             /\ outs[i].owner = back
  <2>1. over[i] \in Tokens /\ balances[over[i]] \in Int /\ balances[over[i]] < 0
    BY <1>1, <1>3 DEF Surplus
  <2> DEFINE t == over[i]
             amount == -balances[over[i]]
  <2>2. t \in Tokens /\ amount \in Nat /\ outs[i] = Reserve(back, t, amount)
    BY <1>4, <2>1
  <2>3. outs[i] \in Placed /\ outs[i].value = Of(t, amount)
    <3> HIDE DEF t, amount
    <3> QED BY <2>2, ReserveIsPlaced
  <2>4. outs[i].owner = back
    BY <2>2 DEF Reserve, Output
  <2> QED BY <2>2, <2>3, <2>4
<1>6. outs \in Seq(Placed) /\ Len(outs) = size
  <2>1. \A i \in 1..size : Reserve(back, over[i], -balances[over[i]]) \in Placed
    BY <1>4, <1>5
  <2>2. [i \in 1..size |-> Reserve(back, over[i], -balances[over[i]])] \in Seq(Placed)
    BY <1>2, <2>1, IsASeq
  <2>3. DOMAIN outs = 1..size /\ outs \in Seq(Placed)
    BY <1>4, <2>2
  <2> QED BY <1>2, <2>3, LenProperties
<1>7. \A i \in 1..size, a \in Assets : outs[i].value[a] = IF a = over[i] THEN -balances[over[i]] ELSE 0
  BY <1>5 DEF Of
<1>8. Total(outs, Native) = 0
  <2>1. \A i \in 1..Len(outs) : outs[i].value[Native] = 0
    BY <1>5, <1>6, <1>7, AssetsAre
  <2> QED BY <1>6, <2>1, AssetsAre, PlacedIsValued, TotalWhereNone
<1>9. ASSUME NEW t \in Tokens PROVE Total(outs, t) = IF balances[t] < 0 THEN -balances[t] ELSE 0
  <2>1. CASE t \in S
    <3>1. balances[t] < 0
      BY <2>1 DEF Surplus
    <3>2. PICK p \in 1..size : over[p] = t
      BY <1>3, <2>1
    <3> DEFINE amounts == Amounts(outs, t)
               Positions == 1..size
    <3>3. /\ IsFiniteSet(Positions) /\ amounts \in [Positions -> Int]
          /\ Total(outs, t) = SumOver(amounts, Positions)
      <4>1. /\ IsFiniteSet(1..Len(outs)) /\ amounts \in [1..Len(outs) -> Int]
            /\ Total(outs, t) = SumOver(amounts, 1..Len(outs))
        BY <1>6, AssetsAre, PlacedIsValued, AmountsType, TotalIs
      <4> QED BY <1>6, <4>1
    <3>4. \A i \in Positions : amounts[i] = IF t = over[i] THEN -balances[over[i]] ELSE 0
      BY <1>6, <1>7, AssetsAre DEF Amounts
    <3>5. \A i \in Positions : i # p => amounts[i] = 0
      BY <1>3, <3>2, <3>4
    <3>6. amounts[p] = -balances[t]
      BY <3>2, <3>4
    <3>7. SumOver(amounts, Positions) = amounts[p]
      <4> HIDE DEF amounts, Positions
      <4>1. p \in Positions
        BY DEF Positions
      <4> QED BY <3>3, <3>5, <4>1, SumOfOne
    <3> QED BY <3>1, <3>3, <3>6, <3>7
  <2>2. CASE t \notin S
    <3>1. ~(balances[t] < 0)
      BY <2>2 DEF Surplus
    <3>2. \A i \in 1..Len(outs) : outs[i].value[t] = 0
      BY <1>3, <1>6, <1>7, <2>2, AssetsAre
    <3>3. Total(outs, t) = 0
      BY <1>6, <3>2, AssetsAre, PlacedIsValued, TotalWhereNone
    <3> QED BY <3>1, <3>3
  <2> QED BY <2>1, <2>2
<1>10. HeldBy(outs, Always(back))
  <2>1. DOMAIN outs = 1..size
    BY <1>6, LenProperties
  <2> QED BY <1>5, <2>1 DEF HeldBy, Always
<1> QED BY <1>6, <1>8, <1>9, <1>10 DEF outs

\* The outputs of a token send are worth what was demanded.
LEMMA ReservesAre ==
  ASSUME NEW order \in Recipients, InTokens(order),
         \A i \in DOMAIN order : order[i].amount # 0,
         NEW outs, outs = ReservesOf(order)
  PROVE  /\ outs \in Seq(Placed) /\ Total(outs, Native) = 0
         /\ Demand(order) \in [Tokens -> Nat]
         /\ \A t \in Tokens : Total(outs, t) = Demand(order)[t]
<1>1. ASSUME NEW i \in DOMAIN order
      PROVE  /\ outs[i] \in Placed
             /\ \A a \in Assets : outs[i].value[a] = IF a = order[i].asset THEN order[i].amount ELSE 0
  <2> DEFINE to == order[i].to
             t == order[i].asset
             n == order[i].amount
  <2>1. to \in Keys \cup Identities /\ t \in Tokens /\ n \in Nat /\ n > 0
    <3>1. order[i].amount # 0 /\ order[i].asset \in Tokens
      BY DEF InTokens
    <3> QED BY <3>1, RecipientsAre
  <2>2. outs[i] = Reserve(to, t, n)
    BY DEF ReservesOf
  <2>3. outs[i] \in Placed /\ outs[i].value = Of(t, n)
    <3> HIDE DEF to, t, n
    <3> QED BY <2>1, <2>2, ReserveIsPlaced
  <2> QED BY <2>3 DEF Of
<1>2. outs \in Seq(Placed) /\ Len(outs) = Len(order)
  <2>1. \A i \in 1..Len(order) : Reserve(order[i].to, order[i].asset, order[i].amount) \in Placed
    BY <1>1, RecipientsAre DEF ReservesOf
  <2>2. [i \in 1..Len(order) |-> Reserve(order[i].to, order[i].asset, order[i].amount)] \in Seq(Placed)
    BY <2>1, RecipientsAre, IsASeq
  <2>3. DOMAIN outs = 1..Len(order)
    BY RecipientsAre DEF ReservesOf
  <2>4. outs \in Seq(Placed)
    BY <2>2, RecipientsAre DEF ReservesOf
  <2> QED BY <2>3, <2>4, RecipientsAre, LenProperties
<1>3. Total(outs, Native) = 0
  <2>1. \A i \in 1..Len(outs) : outs[i].value[Native] = 0
    <3> SUFFICES ASSUME NEW i \in 1..Len(outs) PROVE outs[i].value[Native] = 0
      OBVIOUS
    <3>1. i \in DOMAIN order
      BY <1>2, RecipientsAre
    <3>2. order[i].asset \in Tokens
      BY <3>1 DEF InTokens
    <3> QED BY <1>1, <3>1, <3>2, AssetsAre
  <2> QED BY <1>2, <2>1, AssetsAre, PlacedIsValued, TotalWhereNone
<1>4. ASSUME NEW t \in Tokens PROVE Total(outs, t) = Demand(order)[t]
  <2>1. [i \in DOMAIN outs |-> outs[i].value[t]]
          = [i \in DOMAIN order |-> IF order[i].asset = t THEN order[i].amount ELSE 0]
    <3>1. DOMAIN outs = DOMAIN order
      BY DEF ReservesOf
    <3>2. \A i \in DOMAIN order : outs[i].value[t] = IF order[i].asset = t THEN order[i].amount ELSE 0
      BY <1>1, AssetsAre
    <3> QED BY <3>1, <3>2
  <2> QED BY <2>1 DEF Total, Demand
<1>5. Demand(order) \in [Tokens -> Nat]
  <2>1. \A t \in Tokens : Total(outs, t) \in Nat
    BY <1>2, AssetsAre, PlacedIsValued, TotalsAreNat
  <2>2. \A t \in Tokens : Demand(order)[t] \in Nat
    BY <1>4, <2>1
  <2>3. Demand(order) = [t \in Tokens |-> Demand(order)[t]]
    BY DEF Demand
  <2> QED BY <2>2, <2>3
<1> QED BY <1>2, <1>3, <1>4, <1>5

LEMMA BalancesAre ==
  ASSUME NEW X, Valued(X), NEW ins \in Seq(X), NEW demand \in [Tokens -> Nat]
  PROVE  /\ Balances(demand, ins) \in [Tokens -> Int]
         /\ \A t \in Tokens : Balances(demand, ins)[t] = demand[t] - Total(ins, t)
         /\ IsFiniteSet(Surplus(Balances(demand, ins)))
<1>1. \A t \in Tokens : Total(ins, t) \in Nat /\ demand[t] \in Nat
  BY TotalsAreNat, AssetsAre
<1>2. Surplus(Balances(demand, ins)) \in SUBSET Tokens
  BY DEF Surplus
<1>3. IsFiniteSet(Surplus(Balances(demand, ins)))
  BY <1>2, BuildersAssumption, FS_Subset
<1> QED BY <1>1, <1>3 DEF Balances

\* Outputs, the surplus of every token, and change.
Begins(outs, paid) == \A i \in 1..Len(paid) : outs[i] = paid[i] /\ i \in DOMAIN outs
Over(balances, t) == IF balances[t] < 0 THEN -balances[t] ELSE 0
AllOuts(paid, balances, demand, back, change) ==
  paid \o TokenChange(balances, demand, back) \o ChangeOut([change |-> back], change)

LEMMA AllOutsAre ==
  ASSUME NEW paid \in Seq(Placed), NEW balances \in [Tokens -> Int], NEW demand,
         NEW back \in Keys, NEW change \in Nat
  PROVE  LET outs == AllOuts(paid, balances, demand, back, change)
         IN /\ outs \in Seq(Placed)
            /\ Total(outs, Native) = Total(paid, Native) + change
            /\ \A t \in Tokens : Total(outs, t) = Total(paid, t) + Over(balances, t)
            /\ Begins(outs, paid)
            /\ Leaves(outs, paid, Always(back))
<1> DEFINE outs == AllOuts(paid, balances, demand, back, change)
<1> DEFINE given == TokenChange(balances, demand, back)
           before == paid \o given
           plan == [change |-> back]
           last == ChangeOut(plan, change)
<1>1. /\ given \in Seq(Placed) /\ Total(given, Native) = 0
      /\ \A t \in Tokens : Total(given, t) = IF balances[t] < 0 THEN -balances[t] ELSE 0
      /\ HeldBy(given, Always(back))
  BY TokenChangeIs
<1>2. outs = before \o last
  BY DEF AllOuts
<1>a. HeldBy(last, Always(back))
  <2> DEFINE p == Always(back)
  <2>1. plan.change \in Keys \cup Identities /\ plan.change = p[Native]
    BY AssetsAre DEF Always
  <2> HIDE DEF plan, p
  <2> QED BY <2>1, ChangeIsHeld DEF p
<1> HIDE DEF given
<1>3. /\ before \in Seq(Placed) /\ Len(before) = Len(paid) + Len(given)
      /\ \A i \in 1..(Len(paid) + Len(given)) :
           before[i] = IF i \leq Len(paid) THEN paid[i] ELSE given[i - Len(paid)]
      /\ \A a \in Assets : Total(before, a) = Total(paid, a) + Total(given, a)
  BY <1>1, ConcatProperties, PlacedIsValued, TotalOfConcat
<1>4. /\ last \in Seq(Placed) /\ Total(last, Native) = change
      /\ \A t \in Tokens : Total(last, t) = 0
  <2>1. plan.change \in Keys \cup Identities
    OBVIOUS
  <2> HIDE DEF plan
  <2> QED BY <2>1, ChangeOutIs
<1> HIDE DEF before, last, outs
<1>5. /\ outs \in Seq(Placed) /\ Len(outs) = Len(before) + Len(last)
      /\ \A i \in 1..(Len(before) + Len(last)) :
           outs[i] = IF i \leq Len(before) THEN before[i] ELSE last[i - Len(before)]
      /\ \A a \in Assets : Total(outs, a) = Total(before, a) + Total(last, a)
  <2>1. /\ before \o last \in Seq(Placed) /\ Len(before \o last) = Len(before) + Len(last)
        /\ \A i \in 1..(Len(before) + Len(last)) :
             (before \o last)[i] = IF i \leq Len(before) THEN before[i] ELSE last[i - Len(before)]
    <3>1. before \in Seq(Placed) /\ last \in Seq(Placed)
      BY <1>3, <1>4
    <3> QED BY ONLY <3>1, ConcatProperties
  <2>2. \A a \in Assets : Total(before \o last, a) = Total(before, a) + Total(last, a)
    BY <1>3, <1>4, PlacedIsValued, TotalOfConcat
  <2> QED BY <1>2, <2>1, <2>2
<1>6. \A a \in Assets : Total(paid, a) \in Nat
  BY PlacedIsValued, TotalsAreNat
<1>7. Total(outs, Native) = Total(paid, Native) + change
  BY <1>1, <1>3, <1>4, <1>5, <1>6, AssetsAre
<1>8. ASSUME NEW t \in Tokens
      PROVE  Total(outs, t) = Total(paid, t) + Over(balances, t)
  <2>1. /\ Total(outs, t) = Total(before, t) + 0 /\ Total(before, t) = Total(paid, t) + Total(given, t)
        /\ Total(paid, t) \in Nat
    BY <1>3, <1>4, <1>5, <1>6, AssetsAre
  <2>2. Total(given, t) = IF balances[t] < 0 THEN -balances[t] ELSE 0
    BY <1>1
  <2>3. balances[t] \in Int
    OBVIOUS
  <2> QED BY <2>1, <2>2, <2>3 DEF Over
<1>9. ASSUME NEW i \in 1..Len(paid) PROVE outs[i] = paid[i] /\ i \in DOMAIN outs
  <2>1. Len(paid) \in Nat /\ Len(given) \in Nat /\ Len(last) \in Nat /\ DOMAIN outs = 1..Len(outs)
    BY <1>1, <1>4, <1>5, LenProperties
  <2>2. i \in Int /\ 1 \leq i /\ i \leq Len(paid) /\ i \leq Len(before)
        /\ i \in 1..(Len(paid) + Len(given)) /\ i \in 1..(Len(before) + Len(last))
    BY <1>3, <2>1
  <2> QED BY <1>3, <1>5, <2>1, <2>2
<1>10. Leaves(outs, paid, Always(back))
  <2> DEFINE p == Always(back)
  <2>1. Leaves(before, paid, p)
    <3>1. given \in Seq(Placed) /\ HeldBy(given, p)
      BY <1>1
    <3> HIDE DEF p
    <3> QED BY <3>1, PlacedIsValued, HeldLeaves DEF before
  <2>2. Leaves(outs, before, p)
    <3>1. last \in Seq(Placed) /\ HeldBy(last, p) /\ before \in Seq(Placed)
      BY <1>3, <1>4, <1>a
    <3> HIDE DEF p
    <3>2. Leaves(before \o last, before, p)
      BY <3>1, PlacedIsValued, HeldLeaves
    <3> QED BY <1>2, <3>2
  <2>3. outs \in Seq(Placed) /\ before \in Seq(Placed)
    BY <1>3, <1>5
  <2> HIDE DEF p
  <2> QED BY <2>1, <2>2, <2>3, PlacedIsValued, LeavesOn DEF p
<1> QED BY <1>5, <1>7, <1>8, <1>9, <1>10 DEF outs, Begins

\* A transaction that pays its demand and gives the surplus of every token back.
LEMMA PaidWithTokenChange ==
  ASSUME NEW X, Valued(X), NEW back \in Keys, NEW ins \in Seq(X),
         NEW demand \in [Tokens -> Nat],
         \A t \in Tokens : Total(ins, t) \geq demand[t],
         NEW paid \in Seq(Placed), \A t \in Tokens : Total(paid, t) = demand[t],
         NEW change \in Nat, NEW fee \in Nat, Total(ins, Native) = Total(paid, Native) + change + fee,
         NEW outs, outs = AllOuts(paid, Balances(demand, ins), demand, back, change)
  PROVE  outs \in Seq(Placed) /\ Exactly(ins, outs, fee) /\ Leaves(outs, paid, Always(back))
<1> DEFINE left == Balances(demand, ins)
<1>1. left \in [Tokens -> Int] /\ \A t \in Tokens : left[t] = demand[t] - Total(ins, t)
  BY BalancesAre
<1>2. /\ outs \in Seq(Placed) /\ Total(outs, Native) = Total(paid, Native) + change
      /\ \A t \in Tokens : Total(outs, t) = Total(paid, t) + Over(left, t)
      /\ Leaves(outs, paid, Always(back))
  <2>1. outs = AllOuts(paid, left, demand, back, change)
    OBVIOUS
  <2> HIDE DEF left
  <2>2. left \in [Tokens -> Int] /\ paid \in Seq(Placed) /\ back \in Keys /\ change \in Nat
    BY <1>1
  <2> DEFINE rest == change
  <2>3. rest \in Nat /\ outs = AllOuts(paid, left, demand, back, rest)
    BY <2>1
  <2>4. /\ outs \in Seq(Placed) /\ Total(outs, Native) = Total(paid, Native) + rest
        /\ \A t \in Tokens : Total(outs, t) = Total(paid, t) + Over(left, t)
        /\ Leaves(outs, paid, Always(back))
    <3> HIDE DEF rest
    <3> QED BY ONLY <2>2, <2>3, AllOutsAre, SMTT(60)
  <2> QED BY <2>4
<1> HIDE DEF left
<1>3. ASSUME NEW t \in Tokens PROVE Total(ins, t) = Total(outs, t)
  <2> DEFINE brought == Total(ins, t)
             all == Total(outs, t)
             short == left[t]
             owed == demand[t]
  <2>1. /\ brought \in Nat /\ owed \in Nat /\ brought \geq owed
        /\ short = owed - brought /\ all = owed + (IF short < 0 THEN -short ELSE 0)
    BY <1>1, <1>2, AssetsAre, TotalsAreNat DEF Over
  <2> HIDE DEF brought, all, short, owed
  <2>2. brought = all
    BY <2>1
  <2> QED BY <2>2 DEF brought, all
<1>4. Total(ins, Native) = Total(outs, Native) + fee
  <2>1. Total(paid, Native) \in Nat
    BY PlacedIsValued, TotalsAreNat, AssetsAre
  <2> QED BY <1>2, <2>1
<1> QED BY <1>2, <1>3, <1>4 DEF Exactly

LEMMA TokenSendIsGood ==
  ASSUME NEW X, Valued(X), NEW key, NEW list \in Seq(X), Distinct(list),
         NEW order \in Recipients, InTokens(order),
         NEW back \in Keys, \A i \in DOMAIN list : list[i].owner = back,
         NEW tx, tx = build_token_send(key, list, order, back), tx.kind = "built"
  PROVE  Good(tx, key, X) /\ Fair(tx, ReservesOf(order), Always(back))
<1> DEFINE demand == Demand(order)
           chosen == ForTokens(list, demand)
           first  == InOrder(list, chosen, Listed(list))
           rest   == ForNative(list, chosen)
           taken(n) == first \o SubSeq(rest, 1, n)
           after(n) == Balances(demand, taken(n))
           fee(n) == Price(Len(first) + (IF n = 0 THEN 1 ELSE n),
                           Len(order) + 1 + Cardinality(Surplus(after(n))), TRUE)
           needed == [n \in 0..Len(rest) |-> fee(n) - Total(first, Native)]
           exits  == Exits(rest, needed)
           num  == Min(exits)
           ins  == taken(num)
           cost == fee(num)
           left == Total(ins, Native) - cost
           s    == Settle(left, cost)
           paid == ReservesOf(order)
           plan == [change |-> back]
           outs == paid \o TokenChange(Balances(demand, ins), demand, back) \o ChangeOut(plan, s.change)
<1>1. /\ \A i \in DOMAIN order : order[i].amount # 0
      /\ Short(Balances(demand, first)) = {} /\ exits # {}
      /\ tx = Built(key, ins, outs, s.fee, 0)
  <2>1. order # <<>> /\ ~(\E i \in DOMAIN list : ~KeySpendable(list[i]))
    BY DEF build_token_send, Refused
  <2>2. ~(\E i \in DOMAIN order : order[i].amount = 0)
    BY <2>1 DEF build_token_send, Refused
  <2>3. Short(Balances(demand, first)) = {}
    BY <2>1, <2>2 DEF build_token_send, Refused
  <2>4. exits # {}
    BY <2>1, <2>2, <2>3 DEF build_token_send, Refused
  <2> QED BY <2>1, <2>2, <2>3, <2>4 DEF build_token_send, ReservesOf
<1>2. chosen \in Subsets(list) /\ (DOMAIN list) \ chosen \in Subsets(list)
  BY DEF ForTokens, Subsets
<1>3. Drawn(first, list, chosen, X) /\ Drawn(rest, list, (DOMAIN list) \ chosen, X)
  <2>1. IsOrderOn(Listed(list), chosen)
    BY <1>2, ListedIsOrder
  <2>2. IsOrderOn(PlainFirst(list), (DOMAIN list) \ chosen)
    BY <1>2, PlainFirstIsOrder
  <2>3. rest = InOrder(list, (DOMAIN list) \ chosen, PlainFirst(list))
    BY DEF ForNative
  <2> HIDE DEF chosen, rest
  <2> QED BY <1>2, <2>1, <2>2, <2>3, InOrderDraws
<1> DEFINE more == SubSeq(rest, 1, num)
<1>4. num \in 0..Len(rest) /\ Total(more, Native) \geq needed[num]
  <2>1. rest \in Seq(X)
    BY <1>3 DEF Drawn
  <2> HIDE DEF rest, needed
  <2> QED BY <1>1, <2>1, ExitsAre
<1>5. needed[num] = cost - Total(first, Native)
  <2> HIDE DEF num, rest, first
  <2> QED BY <1>4
<1>6. Drawn(more, list, (DOMAIN list) \ chosen, X)
  <2> HIDE DEF rest, num, chosen
  <2> QED BY <1>3, <1>4, PrefixDraws
<1>7. demand \in [Tokens -> Nat] /\ paid \in Seq(Placed) /\ Total(paid, Native) = 0
      /\ \A t \in Tokens : Total(paid, t) = demand[t]
  <2> HIDE DEF demand
  <2> QED BY <1>1, ReservesAre DEF demand
<1> HIDE DEF chosen, first, more, demand, paid
<1>8. ins = first \o more
  BY DEF more
<1>9. ins \in Seq(X) /\ Distinct(ins) /\ first \in Seq(X) /\ more \in Seq(X)
  <2>1. Apart(first, more)
    <3> SUFFICES ASSUME NEW i \in DOMAIN first, NEW j \in DOMAIN more PROVE first[i] # more[j]
      BY DEF Apart
    <3>1. PICK p \in chosen : first[i] = list[p]
      BY <1>3 DEF Drawn
    <3>2. PICK q \in (DOMAIN list) \ chosen : more[j] = list[q]
      BY <1>6 DEF Drawn
    <3> QED BY <1>2, <3>1, <3>2 DEF Distinct, Subsets
  <2>2. /\ first \in Seq(X) /\ more \in Seq(X) /\ Distinct(first) /\ Distinct(more)
    BY <1>3, <1>6 DEF Drawn
  <2>3. first \o more \in Seq(X) /\ Distinct(first \o more)
    BY <2>1, <2>2, ConcatIsDistinct
  <2> HIDE DEF ins
  <2> QED BY <1>8, <2>2, <2>3
<1>a. HeldBy(ins, Always(back))
  <2>1. HeldBy(first, Always(back)) /\ HeldBy(more, Always(back))
    BY <1>2, <1>3, <1>6 DEF Drawn, HeldBy, Always, Subsets
  <2>2. HeldBy(first \o more, Always(back))
    BY <1>9, <2>1, HeldConcat
  <2> HIDE DEF ins
  <2> QED BY <1>8, <2>2
<1>10. \A a \in Assets : /\ Total(ins, a) = Total(first, a) + Total(more, a)
                         /\ Total(first, a) \in Nat /\ Total(more, a) \in Nat /\ Total(ins, a) \in Nat
  <2>1. \A a \in Assets : /\ Total(first \o more, a) = Total(first, a) + Total(more, a)
                          /\ Total(first, a) \in Nat /\ Total(more, a) \in Nat
    BY <1>9, TotalOfConcat, TotalsAreNat
  <2> HIDE DEF ins
  <2> QED BY <1>8, <2>1
<1>11. ASSUME NEW t \in Tokens PROVE Total(ins, t) \geq demand[t]
  <2>1. ~(demand[t] - Total(first, t) > 0)
    BY <1>1 DEF Short, Balances
  <2>2. demand[t] \in Nat /\ Total(first, t) \in Nat /\ Total(more, t) \in Nat
        /\ Total(ins, t) = Total(first, t) + Total(more, t)
    BY <1>7, <1>10, AssetsAre
  <2> HIDE DEF ins
  <2> QED BY <2>1, <2>2
<1>12. cost \in Nat
  <2> DEFINE inputs == Len(first) + (IF num = 0 THEN 1 ELSE num)
             size == Cardinality(Surplus(Balances(demand, ins)))
             outputs == Len(order) + 1 + size
  <2>1. num \in Nat /\ Len(first) \in Nat /\ Len(order) \in Nat
    BY <1>3, <1>4, <1>9, LenProperties, RecipientsAre
  <2>2. size \in Nat
    <3> HIDE DEF ins
    <3> QED BY <1>7, <1>9, BalancesAre, FS_CardinalityType
  <2> HIDE DEF size, num
  <2>3. inputs \in Nat /\ outputs \in Nat
    BY <2>1, <2>2
  <2>4. Price(inputs, outputs, TRUE) \in Nat
    <3> HIDE DEF inputs, outputs
    <3> QED BY <2>3, PriceType
  <2> QED BY <2>4 DEF size
<1> HIDE DEF ins, cost, num, rest
<1>13. left \in Nat
  <2> DEFINE all == Total(ins, Native)
             one == Total(first, Native)
             two == Total(more, Native)
  <2>1. all = one + two /\ one \in Nat /\ two \in Nat /\ two \geq cost - one
    <3>1. two \geq cost - one
      BY <1>4, <1>5
    <3> QED BY <1>10, <3>1, AssetsAre
  <2> HIDE DEF all, one, two
  <2>2. all - cost \in Nat
    BY <1>12, <2>1
  <2> QED BY <2>2 DEF all
<1>14. s.change \in Nat /\ s.fee \in Nat /\ s.change + s.fee = left + cost
  <2> HIDE DEF left
  <2> QED BY <1>12, <1>13, SettleIs
<1> DEFINE change == s.change
           given == s.fee
<1>15. change \in Nat /\ given \in Nat /\ Total(ins, Native) = Total(paid, Native) + change + given
  <2> DEFINE all == Total(ins, Native)
             none == Total(paid, Native)
  <2>1. all \in Nat /\ none = 0 /\ left = all - cost /\ change + given = left + cost
        /\ change \in Nat /\ given \in Nat /\ cost \in Nat
    BY <1>7, <1>10, <1>12, <1>14, AssetsAre
  <2> HIDE DEF all, none, left, change, given
  <2>2. all = none + change + given
    BY <2>1
  <2> QED BY <2>1, <2>2 DEF all, none
<1>16. outs \in Seq(Placed) /\ Exactly(ins, outs, given) /\ Leaves(outs, paid, Always(back))
  <2>1. outs = AllOuts(paid, Balances(demand, ins), demand, back, change)
    BY DEF AllOuts
  <2> HIDE DEF change, given, outs
  <2>2. /\ \A t \in Tokens : Total(ins, t) \geq demand[t]
        /\ \A t \in Tokens : Total(paid, t) = demand[t]
        /\ change \in Nat /\ given \in Nat /\ Total(ins, Native) = Total(paid, Native) + change + given
        /\ paid \in Seq(Placed) /\ ins \in Seq(X) /\ demand \in [Tokens -> Nat]
    BY <1>7, <1>9, <1>11, <1>15
  <2> QED BY ONLY Valued(X), back \in Keys, <2>1, <2>2, PaidWithTokenChange
<1>17. tx = Built(key, ins, outs, given, 0)
  BY <1>1
<1> HIDE DEF outs, s, given
<1>18. Good(tx, key, X)
  BY <1>9, <1>16, <1>17, BuiltIsGood
<1> QED BY <1>16, <1>17, <1>18, <1>a DEF Fair, Built, paid

-----------------------------------------------------------------------------
(***************************************************************************)
(* What identities hold, and conversions                                   *)
(***************************************************************************)
LEMMA EmptyIsApart ==
  ASSUME NEW X, NEW list \in Seq(X), Distinct(list)
  PROVE  /\ <<>> \in Seq(X) /\ Distinct(<<>>) /\ Apart(list, <<>>) /\ Apart(<<>>, list)
         /\ \A a \in Assets : Total(<<>>, a) = 0
<1>1. DOMAIN <<>> = {} /\ <<>> \in Seq(X)
  BY EmptySeq
<1> QED BY <1>1, TotalOfEmpty DEF Distinct, Apart

LEMMA IdentitySpendIsGood ==
  ASSUME NEW X, Valued(X), Sincere(X), NEW key, NEW identity \in Identities,
         NEW list \in Seq(X), Distinct(list), NEW order \in Recipients,
         NEW tx, tx = build_identity_spend(key, identity, list, order), tx.kind = "built"
  PROVE  Good(tx, key, X) /\ Fair(tx, PaymentsOf(order), Always(identity))
<1> DEFINE paid == PaymentsOf(order)
           p    == Always(identity)
           plan == [burn |-> 0, leading |-> list, funding |-> <<>>, outs |-> paid,
                    counted |-> Len(paid) + 1, change |-> identity, bearing |-> TRUE]
<1>1. tx = assemble(key, plan) /\ \A i \in DOMAIN list : IsPaymentTo(list[i], identity)
  <2>1. order # <<>> /\ list # <<>> /\ ~(\E i \in DOMAIN list : ~IsPaymentTo(list[i], identity))
    BY DEF build_identity_spend, Refused
  <2>2. ~(\E i \in DOMAIN order : order[i].amount = 0)
    BY <2>1 DEF build_identity_spend, Refused
  <2> QED BY <2>1, <2>2 DEF build_identity_spend, PaymentsOf
<1>2. paid \in Seq(Placed) /\ \A t \in Tokens : Total(paid, t) = 0
  BY PaymentsAre
<1>3. Len(paid) + 1 \in Nat
  BY <1>2, LenProperties
<1>4. WellPlanned(plan, X, p)
  <2>1. /\ <<>> \in Seq(X) /\ Distinct(<<>>) /\ Apart(list, <<>>) /\ Plain(<<>>)
        /\ \A i \in DOMAIN <<>> : <<>>[i].owner = p[Native]
    BY EmptyIsApart DEF Plain
  <2>2. \A i \in DOMAIN list : list[i].owner = identity /\ list[i].shape = "identity"
    BY <1>1 DEF IsPaymentTo
  <2>3. \A t \in Tokens : Total(list, t) = Total(paid, t)
    BY <1>2, <2>2, PlainIs
  <2>4. \A a \in Assets : p[a] = identity
    BY DEF Always
  <2> HIDE DEF paid, p
  <2> QED BY <1>2, <1>3, <2>1, <2>2, <2>3, <2>4, AssetsAre DEF WellPlanned
<1>5. plan.outs = paid
  OBVIOUS
<1> HIDE DEF plan, p
<1>6. Good(tx, key, X) /\ Fair(tx, plan.outs, p)
  BY <1>1, <1>4, AssembleIsGood
<1> QED BY <1>5, <1>6 DEF p

\* One owner's satoshis and another's tokens.
Payer(one, other) == [a \in Assets |-> IF a = Native THEN one ELSE other]

\* An output, and what is left of one token.
AndSurplus(front, who, kind, over) ==
  <<front>> \o (IF over > 0 THEN <<Reserve(who, kind, over)>> ELSE <<>>)

LEMMA WithSurplus ==
  ASSUME NEW front \in Placed, NEW who \in Keys \cup Identities, NEW kind \in Tokens,
         NEW over \in Nat, NEW result, result = AndSurplus(front, who, kind, over)
  PROVE  /\ result \in Seq(Placed) /\ Len(result) \in Nat
         /\ \A a \in Assets : Total(result, a) = front.value[a] + (IF a = kind THEN over ELSE 0)
         /\ \A p : p[kind] = who => Leaves(result, <<front>>, p)
<1> DEFINE back == IF over > 0 THEN <<Reserve(who, kind, over)>> ELSE <<>>
<1>1. <<front>> \in Seq(Placed) /\ \A a \in Assets : Total(<<front>>, a) = front.value[a] /\ front.value[a] \in Nat
  <2>1. front.value \in Value
    BY DEF Placed
  <2> QED BY <2>1, TotalOfSingle DEF Value
<1>2. back \in Seq(Placed) /\ \A a \in Assets : Total(back, a) = IF a = kind THEN over ELSE 0
  <2>1. CASE over > 0
    <3> DEFINE r == Reserve(who, kind, over)
    <3>1. r \in Placed /\ r.value = Of(kind, over)
      BY <2>1, ReserveIsPlaced
    <3>2. back = <<r>>
      BY <2>1
    <3> HIDE DEF r
    <3> QED BY <3>1, <3>2, OneOutput, AssetsAre
  <2>2. CASE over = 0
    <3>1. back = <<>>
      BY <2>2
    <3> QED BY <2>2, <3>1, NoOutputs
  <2> QED BY <2>1, <2>2
<1>a. ASSUME NEW p, p[kind] = who PROVE HeldBy(back, p)
  <2>1. CASE over > 0
    <3> DEFINE r == Reserve(who, kind, over)
    <3>1. r.owner = who /\ r.value = Of(kind, over)
      BY DEF Reserve, Output
    <3>2. back = <<r>>
      BY <2>1
    <3> HIDE DEF r
    <3>3. \A a \in Assets : r.value[a] # 0 => r.owner = p[a]
      BY <1>a, <3>1 DEF Of
    <3> QED BY <3>2, <3>3 DEF HeldBy
  <2>2. CASE ~(over > 0)
    BY <2>2 DEF HeldBy
  <2> QED BY <2>1, <2>2
<1>3. result = <<front>> \o back
  BY DEF AndSurplus
<1> HIDE DEF back
<1> DEFINE one == <<front>>
<1>4. one \o back \in Seq(Placed) /\ \A a \in Assets : Total(one \o back, a) = Total(one, a) + Total(back, a)
  <2>1. one \in Seq(Placed)
    BY <1>1
  <2> HIDE DEF one
  <2> QED BY <1>2, <2>1, ConcatProperties, PlacedIsValued, TotalOfConcat
<1>5. result \in Seq(Placed) /\ Len(result) \in Nat
  BY <1>3, <1>4, LenProperties
<1>6. \A a \in Assets : Total(result, a) = front.value[a] + (IF a = kind THEN over ELSE 0)
  BY <1>1, <1>2, <1>3, <1>4
<1>7. ASSUME NEW p, p[kind] = who PROVE Leaves(result, <<front>>, p)
  <2>1. one \in Seq(Placed) /\ back \in Seq(Placed) /\ HeldBy(back, p)
    BY <1>1, <1>2, <1>7, <1>a
  <2> HIDE DEF one
  <2>2. Leaves(one \o back, one, p)
    BY <2>1, PlacedIsValued, HeldLeaves
  <2> QED BY <1>3, <2>2 DEF one
<1> QED BY <1>5, <1>6, <1>7

\* Of what holds only one token there is none of the others.
LEMMA OneTokenIs ==
  ASSUME NEW X, Valued(X), NEW list \in Seq(X), NEW token \in Tokens,
         \A i \in DOMAIN list : HoldsOnly(list[i], token)
  PROVE  /\ \A i \in DOMAIN list, t \in Tokens : list[i].value[t] # 0 => t = token
         /\ \A t \in Tokens : t # token => Total(list, t) = 0
<1>1. DOMAIN list = 1..Len(list) /\ \A i \in DOMAIN list : list[i] \in X
  BY LenProperties, ElementOfSeq
<1>2. ASSUME NEW i \in DOMAIN list, NEW t \in Tokens, t # token PROVE list[i].value[t] = 0
  <2>1. list[i].value[t] \in Nat
    BY <1>1, AssetsAre DEF Valued, Value
  <2>2. ~(list[i].value[t] > 0)
    BY <1>2 DEF HoldsOnly
  <2> QED BY <2>1, <2>2
<1>3. ASSUME NEW t \in Tokens, t # token PROVE Total(list, t) = 0
  BY <1>1, <1>2, <1>3, AssetsAre, TotalWhereNone
<1> QED BY <1>2, <1>3

LEMMA IdentityTokenSpendIsGood ==
  ASSUME NEW X, Valued(X), Sincere(X), NEW key, NEW identity \in Identities, NEW token \in Tokens,
         NEW list \in Seq(X), Distinct(list), NEW funding \in Seq(X), Distinct(funding),
         Apart(list, funding), NEW to \in Keys \cup Identities, NEW amount \in Nat, NEW back \in Keys,
         \A i \in DOMAIN funding : funding[i].owner = back /\ funding[i].shape = "p2pkh",
         NEW tx, tx = build_identity_token_spend(key, identity, token, list, funding, to, amount, back),
         tx.kind = "built"
  PROVE  Good(tx, key, X) /\ Fair(tx, <<Reserve(to, token, amount)>>, Payer(back, identity))
<1> DEFINE surplus == Total(list, token) - amount
           o == Reserve(to, token, amount)
           outs == <<o>> \o (IF surplus > 0 THEN <<Reserve(identity, token, surplus)>> ELSE <<>>)
           plan == [burn |-> 0, leading |-> list, funding |-> funding, outs |-> outs,
                    counted |-> Len(outs) + 1, change |-> back, bearing |-> FALSE]
           p == Payer(back, identity)
<1>1. amount # 0 /\ ~(surplus < 0) /\ tx = assemble(key, plan)
      /\ \A i \in DOMAIN list : HoldsOnly(list[i], token) /\ list[i].owner = identity
  <2>1. amount # 0
    BY DEF build_identity_token_spend, Refused
  <2>2. list # <<>>
    BY <2>1 DEF build_identity_token_spend, Refused
  <2>3. ~(\E i \in DOMAIN list : ~HoldsOnly(list[i], token) \/ list[i].owner # identity)
    BY <2>1, <2>2 DEF build_identity_token_spend, Refused
  <2>4. ~(surplus < 0)
    BY <2>1, <2>2, <2>3 DEF build_identity_token_spend, Refused
  <2> QED BY <2>1, <2>2, <2>3, <2>4 DEF build_identity_token_spend
<1>2. \A t \in Tokens : Total(list, t) \in Nat
  BY AssetsAre, TotalsAreNat
<1>3. surplus \in Nat /\ Total(list, token) = amount + surplus
  <2> DEFINE all == Total(list, token)
  <2>1. all \in Nat /\ ~(all - amount < 0)
    BY <1>1, <1>2
  <2> HIDE DEF all
  <2>2. all - amount \in Nat /\ all = amount + (all - amount)
    BY <2>1
  <2> QED BY <2>2 DEF all
<1>4. o \in Placed /\ o.value = Of(token, amount)
  <2>1. amount > 0
    BY <1>1
  <2> QED BY <2>1, ReserveIsPlaced
<1> HIDE DEF o, surplus
<1>a. p[Native] = back /\ \A t \in Tokens : p[t] = identity
  BY AssetsAre DEF Payer
<1> HIDE DEF p
<1>5. /\ outs \in Seq(Placed) /\ Len(outs) \in Nat
      /\ \A a \in Assets : Total(outs, a) = o.value[a] + (IF a = token THEN surplus ELSE 0)
      /\ Leaves(outs, <<o>>, p)
  <2>1. outs = AndSurplus(o, identity, token, surplus)
    BY DEF AndSurplus
  <2> HIDE DEF outs
  <2> QED BY <1>3, <1>4, <1>a, <2>1, WithSurplus
<1> HIDE DEF outs
<1>b. /\ \A i \in DOMAIN list, t \in Tokens : list[i].value[t] # 0 => list[i].owner = p[t]
      /\ \A t \in Tokens : t # token => Total(list, t) = 0
  BY <1>1, <1>a, OneTokenIs
<1>c. Plain(funding)
  BY PlainIs
<1>6. \A t \in Tokens : Total(list, t) = Total(outs, t)
  <2> SUFFICES ASSUME NEW t \in Tokens PROVE Total(list, t) = Total(outs, t)
    OBVIOUS
  <2>1. o.value[t] = IF t = token THEN amount ELSE 0
    BY <1>4, AssetsAre DEF Of
  <2>2. Total(outs, t) = o.value[t] + (IF t = token THEN surplus ELSE 0)
    BY <1>5, AssetsAre
  <2> QED BY <1>2, <1>3, <1>b, <2>1, <2>2
<1>7. WellPlanned(plan, X, p)
  BY <1>5, <1>6, <1>a, <1>b, <1>c DEF WellPlanned
<1>8. plan.outs = outs
  OBVIOUS
<1> HIDE DEF plan
<1>9. Good(tx, key, X) /\ Fair(tx, outs, p)
  BY <1>1, <1>7, <1>8, AssembleIsGood
<1>10. Leaves(tx.outs, <<o>>, p)
  <2> DEFINE one == <<o>>
             all == tx.outs
  <2>1. /\ Leaves(all, outs, p) /\ Leaves(outs, one, p)
        /\ one \in Seq(Placed) /\ outs \in Seq(Placed) /\ all \in Seq(Placed)
    BY <1>4, <1>5, <1>9 DEF Fair, Good
  <2> HIDE DEF one, all
  <2>2. Leaves(all, one, p)
    BY <2>1, PlacedIsValued, LeavesOn
  <2> QED BY <2>2 DEF one, all
<1> QED BY <1>9, <1>10 DEF Fair, o, p

\* A transfer as it is asked for, its fee in the chain's own currency.
IsTransfer(t) ==
  /\ t.source \in Assets /\ t.fee_currency = Native
  /\ t.amount \in Nat /\ t.fee \in Nat
  /\ Minting(t) => Minted(t) \in Tokens

LEMMA TransferOutIs ==
  ASSUME NEW transfer, IsTransfer(transfer)
  PROVE  LET o == TransferOut(transfer)
         IN /\ o \in Placed
            /\ \A t \in Tokens : o.value[t] = IF t = transfer.source /\ ~Minting(transfer)
                                              THEN transfer.amount ELSE 0
            /\ o.value[Native] = (IF transfer.source = Native /\ ~Minting(transfer)
                                  THEN transfer.amount ELSE 0) + transfer.fee
            /\ o.owner = Protocol /\ o.value \in Value
<1> DEFINE tokens == reserve_value(transfer)
           value == [a \in Assets |-> IF a = Native THEN native_value(transfer) ELSE tokens[a]]
           o == TransferOut(transfer)
<1>1. transfer.amount \in Nat /\ transfer.fee \in Nat /\ transfer.fee_currency = Native
  BY DEF IsTransfer
<1>2. native_value(transfer) \in Nat
  BY <1>1 DEF native_value
<1>3. \A t \in Tokens : tokens[t] = IF t = transfer.source /\ ~Minting(transfer)
                                   THEN transfer.amount ELSE 0
  BY <1>1, AssetsAre DEF reserve_value
<1>4. value \in Value
  <2>1. \A a \in Assets : a # Native => a \in Tokens
    BY DEF Assets
  <2> HIDE DEF tokens
  <2> QED BY <1>1, <1>2, <1>3, <2>1 DEF Value
<1>5. o = [shape |-> "transfer", owner |-> Protocol, value |-> value]
  BY DEF TransferOut, Output
<1>6. o \in Placed
  <2>1. Protocol \in Owners
    BY DEF Owners
  <2> HIDE DEF value, o
  <2> QED BY <1>4, <1>5, <2>1 DEF Placed, Shapes, Truthful
<1>7. \A t \in Tokens : o.value[t] = tokens[t]
  <2>1. o.value = value
    BY <1>5
  <2> HIDE DEF tokens, o
  <2> QED BY <2>1, AssetsAre
<1>8. o.value[Native] = (IF transfer.source = Native /\ ~Minting(transfer)
                         THEN transfer.amount ELSE 0) + transfer.fee
  <2>1. o.value[Native] = native_value(transfer)
    BY <1>5, AssetsAre
  <2> HIDE DEF o
  <2> QED BY <1>1, <2>1 DEF native_value
<1>9. o.owner = Protocol /\ o.value \in Value
  BY <1>4, <1>5
<1> QED BY <1>3, <1>6, <1>7, <1>8, <1>9

LEMMA MintIsGood ==
  ASSUME NEW X, Valued(X), Sincere(X), NEW key, NEW transfer, IsTransfer(transfer), Minting(transfer),
         NEW list \in Seq(X), Distinct(list), NEW utxos,
         NEW tx, tx = Mint(key, transfer, utxos, list), tx.kind = "built"
  PROVE  Good(tx, key, X) /\ Fair(tx, <<TransferOut(transfer)>>, Always(Issuer[Minted(transfer)]))
<1> DEFINE o == TransferOut(transfer)
           who == Issuer[Minted(transfer)]
           p == Always(who)
           plan == [burn |-> 0, leading |-> list, funding |-> <<>>, outs |-> <<o>>,
                    counted |-> 2, change |-> Issuer[Minted(transfer)], bearing |-> TRUE]
<1>1. tx = assemble(key, plan) /\ \A i \in DOMAIN list : IsPaymentTo(list[i], who)
  <2>1. ~(transfer.source # Native)
    BY DEF Mint, Refused
  <2>2. ~(list = <<>> \/ utxos # <<>>)
    BY <2>1 DEF Mint, Refused
  <2>3. ~(\E i \in DOMAIN list : ~IsPaymentTo(list[i], Issuer[Minted(transfer)]))
    BY <2>1, <2>2 DEF Mint, Refused
  <2> QED BY <2>1, <2>2, <2>3 DEF Mint
<1>2. o \in Placed /\ \A t \in Tokens : o.value[t] = 0
  BY TransferOutIs
<1> HIDE DEF o
<1>3. <<o>> \in Seq(Placed) /\ \A t \in Tokens : Total(<<o>>, t) = 0
  <2>1. o.value \in Value
    BY <1>2 DEF Placed
  <2> QED BY <1>2, <2>1, TotalOfSingle, AssetsAre
<1>4. who \in Identities
  BY BuildersAssumption DEF IsTransfer
<1> HIDE DEF who
<1>5. WellPlanned(plan, X, p)
  <2>1. /\ <<>> \in Seq(X) /\ Distinct(<<>>) /\ Apart(list, <<>>) /\ Plain(<<>>)
        /\ \A i \in DOMAIN <<>> : <<>>[i].owner = p[Native]
    BY EmptyIsApart DEF Plain
  <2>2. \A i \in DOMAIN list : list[i].owner = who /\ list[i].shape = "identity"
    BY <1>1 DEF IsPaymentTo
  <2>3. \A t \in Tokens : Total(list, t) = Total(<<o>>, t)
    BY <1>3, <2>2, PlainIs
  <2>4. \A a \in Assets : p[a] = who
    BY DEF Always
  <2>5. plan.change = who
    BY DEF who
  <2> HIDE DEF p
  <2> QED BY <1>3, <1>4, <2>1, <2>2, <2>3, <2>4, <2>5, AssetsAre DEF WellPlanned
<1>6. plan.outs = <<o>>
  OBVIOUS
<1> HIDE DEF plan, p
<1>7. Good(tx, key, X) /\ Fair(tx, plan.outs, p)
  BY <1>1, <1>5, AssembleIsGood
<1> QED BY <1>6, <1>7 DEF p, o, who

LEMMA ConvertNativeIsGood ==
  ASSUME NEW X, Valued(X), Sincere(X), NEW key, NEW transfer, IsTransfer(transfer), transfer.source = Native,
         NEW utxos \in Seq(X), Distinct(utxos), NEW list, NEW back \in Keys,
         \A i \in DOMAIN utxos : utxos[i].owner = back /\ utxos[i].shape = "p2pkh",
         NEW tx, tx = ConvertNative(key, transfer, utxos, list, back), tx.kind = "built"
  PROVE  Good(tx, key, X) /\ Fair(tx, <<TransferOut(transfer)>>, Always(back))
<1> DEFINE o == TransferOut(transfer)
           p == Always(back)
           plan == [burn |-> 0, leading |-> <<>>, funding |-> utxos, outs |-> <<o>>,
                    counted |-> 2, change |-> back, bearing |-> FALSE]
<1>1. tx = assemble(key, plan)
  <2>1. list = <<>>
    BY DEF ConvertNative, Refused
  <2> QED BY <2>1 DEF ConvertNative
<1>2. o \in Placed /\ \A t \in Tokens : o.value[t] = 0
  BY TransferOutIs, AssetsAre
<1> HIDE DEF o
<1>3. <<o>> \in Seq(Placed) /\ \A t \in Tokens : Total(<<o>>, t) = 0
  <2>1. o.value \in Value
    BY <1>2 DEF Placed
  <2> QED BY <1>2, <2>1, TotalOfSingle, AssetsAre
<1>4. WellPlanned(plan, X, p)
  <2>1. <<>> \in Seq(X) /\ Distinct(<<>>) /\ Apart(<<>>, utxos)
    BY EmptyIsApart
  <2>2. \A t \in Tokens : Total(<<>>, t) = Total(<<o>>, t)
    BY <1>3, TotalOfEmpty, AssetsAre
  <2>3. Plain(utxos)
    BY PlainIs
  <2>4. p[Native] = back
    BY AssetsAre DEF Always
  <2> HIDE DEF p
  <2> QED BY <1>3, <2>1, <2>2, <2>3, <2>4 DEF WellPlanned
<1>5. plan.outs = <<o>>
  OBVIOUS
<1> HIDE DEF plan, p
<1>6. Good(tx, key, X) /\ Fair(tx, plan.outs, p)
  BY <1>1, <1>4, AssembleIsGood
<1> QED BY <1>5, <1>6 DEF p, o

LEMMA ConvertTokenIsGood ==
  ASSUME NEW X, Valued(X), Sincere(X), NEW key, NEW transfer, IsTransfer(transfer),
         transfer.source \in Tokens, ~Minting(transfer), transfer.amount > 0,
         NEW utxos \in Seq(X), Distinct(utxos), NEW list \in Seq(X), Distinct(list),
         Apart(list, utxos), NEW back \in Keys,
         \A i \in DOMAIN utxos : utxos[i].owner = back /\ utxos[i].shape = "p2pkh",
         NEW whose \in {back} \cup Identities, \A i \in DOMAIN list : list[i].owner = whose,
         NEW tx, tx = ConvertToken(key, transfer, utxos, list, back), tx.kind = "built"
  PROVE  Good(tx, key, X) /\ Fair(tx, <<TransferOut(transfer)>>, Payer(back, whose))
<1> DEFINE token == transfer.source
           amount == transfer.amount
           surplus == Total(list, token) - amount
           holder  == IF list # <<>> /\ list[1].owner \in Identities THEN list[1].owner ELSE back
           o == TransferOut(transfer)
           outs == Converted(transfer, list, back)
           p == Payer(back, whose)
           plan == [burn |-> 0, leading |-> list, funding |-> utxos, outs |-> outs,
                    counted |-> Len(outs) + 1, change |-> back, bearing |-> FALSE]
<1>1. ~(Total(list, token) < amount) /\ tx = assemble(key, plan)
      /\ \A i \in DOMAIN list : HoldsOnly(list[i], token)
  <2>1. ~(\E i \in DOMAIN list :
            \/ ~HoldsOnly(list[i], transfer.source)
            \/ list[i].owner \in Identities /\ list[i].owner # list[1].owner
            \/ list[i].owner \in Keys /\ list[1].owner \in Identities)
    BY DEF ConvertToken, Refused
  <2>2. ~(Total(list, token) < amount)
    BY <2>1 DEF ConvertToken, Refused
  <2> QED BY <2>1, <2>2 DEF ConvertToken
<1>2. \A t \in Tokens : Total(list, t) \in Nat
  BY AssetsAre, TotalsAreNat
<1>3. surplus \in Nat /\ Total(list, token) = amount + surplus
  <2> DEFINE all == Total(list, token)
  <2>1. all \in Nat /\ ~(all < amount) /\ amount \in Nat
    BY <1>1, <1>2 DEF IsTransfer
  <2> HIDE DEF all, amount
  <2>2. all - amount \in Nat /\ all = amount + (all - amount)
    BY <2>1
  <2> QED BY <2>2 DEF all
<1>4. /\ o \in Placed
      /\ \A t \in Tokens : o.value[t] = IF t = token THEN amount ELSE 0
  BY TransferOutIs
<1>5. outs = AndSurplus(o, holder, token, surplus)
  BY DEF Converted, AndSurplus
<1>7. amount \in Nat
  BY DEF IsTransfer
<1>6. holder \in Keys \cup Identities /\ holder = whose
  <2>1. list # <<>>
    <3> SUFFICES ASSUME list = <<>> PROVE FALSE
      OBVIOUS
    <3>1. Total(list, token) = 0
      BY TotalOfEmpty, AssetsAre
    <3> QED BY <1>1, <1>7, <3>1
  <2>2. list[1].owner = whose
    BY <2>1, LenProperties
  <2> QED BY <2>1, <2>2, BuildersAssumption
<1>a. p[Native] = back /\ \A t \in Tokens : p[t] = whose
  BY AssetsAre DEF Payer
<1> HIDE DEF p
<1> HIDE DEF o, surplus, outs, holder
<1>8. /\ outs \in Seq(Placed) /\ Len(outs) \in Nat
      /\ \A a \in Assets : Total(outs, a) = o.value[a] + (IF a = token THEN surplus ELSE 0)
      /\ Leaves(outs, <<o>>, p)
  BY <1>3, <1>4, <1>5, <1>6, <1>a, WithSurplus
<1>b. /\ \A i \in DOMAIN list, t \in Tokens : list[i].value[t] # 0 => list[i].owner = p[t]
      /\ \A t \in Tokens : t # token => Total(list, t) = 0
  BY <1>1, <1>a, OneTokenIs
<1>c. Plain(utxos)
  BY PlainIs
<1>9. \A t \in Tokens : Total(list, t) = Total(outs, t)
  <2> SUFFICES ASSUME NEW t \in Tokens PROVE Total(list, t) = Total(outs, t)
    OBVIOUS
  <2>1. Total(outs, t) = (IF t = token THEN amount ELSE 0) + (IF t = token THEN surplus ELSE 0)
    BY <1>4, <1>8, AssetsAre
  <2> QED BY <1>2, <1>3, <1>7, <1>b, <2>1
<1>10. WellPlanned(plan, X, p)
  BY <1>8, <1>9, <1>a, <1>b, <1>c DEF WellPlanned
<1>11. plan.outs = outs
  OBVIOUS
<1> HIDE DEF plan
<1>12. Good(tx, key, X) /\ Fair(tx, outs, p)
  BY <1>1, <1>10, <1>11, AssembleIsGood
<1>13. Leaves(tx.outs, <<o>>, p)
  <2> DEFINE one == <<o>>
             all == tx.outs
  <2>1. /\ Leaves(all, outs, p) /\ Leaves(outs, one, p)
        /\ one \in Seq(Placed) /\ outs \in Seq(Placed) /\ all \in Seq(Placed)
    BY <1>4, <1>8, <1>12 DEF Fair, Good
  <2> HIDE DEF one, all
  <2>2. Leaves(all, one, p)
    BY <2>1, PlacedIsValued, LeavesOn
  <2> QED BY <2>2 DEF one, all
<1> QED BY <1>12, <1>13 DEF Fair, o, p

LEMMA ConversionIsGood ==
  ASSUME NEW X, Valued(X), Sincere(X), NEW key, NEW transfer, IsTransfer(transfer),
         NEW utxos \in Seq(X), Distinct(utxos), NEW list \in Seq(X), Distinct(list),
         Apart(list, utxos), NEW funding \in Seq(X), Distinct(funding), NEW back \in Keys,
         \A i \in DOMAIN utxos : utxos[i].owner = back /\ utxos[i].shape = "p2pkh",
         NEW holder \in {back} \cup Identities, \A i \in DOMAIN list : list[i].owner = holder,
         Minting(transfer) => holder = Issuer[Minted(transfer)],
         ~Minting(transfer) /\ transfer.source = Native => holder = back,
         NEW tx, tx = build_conversion_transaction(key, transfer, utxos, list, funding, back),
         tx.kind = "built"
  PROVE  /\ Good(tx, key, X)
         /\ Fair(tx, <<TransferOut(transfer)>>,
                 Payer(IF Minting(transfer) THEN holder ELSE back, holder))
<1>1. WellFormed(transfer) /\ transfer.amount > 0
  BY DEF build_conversion_transaction, Refused, WellFormed
<1>a. \A who : Payer(who, who) = Always(who)
  BY DEF Payer, Always
<1>2. CASE Minting(transfer)
  <2>1. tx = Mint(key, transfer, utxos, funding)
    BY <1>1, <1>2 DEF build_conversion_transaction
  <2>2. Good(tx, key, X) /\ Fair(tx, <<TransferOut(transfer)>>, Always(holder))
    BY <1>2, <2>1, MintIsGood
  <2> QED BY <1>2, <1>a, <2>2
<1>3. CASE ~Minting(transfer) /\ transfer.source = Native
  <2>1. tx = ConvertNative(key, transfer, utxos, list, back)
    BY <1>1, <1>3 DEF build_conversion_transaction
  <2>2. Good(tx, key, X) /\ Fair(tx, <<TransferOut(transfer)>>, Always(back))
    BY <1>3, <2>1, ConvertNativeIsGood
  <2> QED BY <1>3, <1>a, <2>2
<1>4. CASE ~Minting(transfer) /\ transfer.source # Native
  <2>1. tx = ConvertToken(key, transfer, utxos, list, back) /\ transfer.source \in Tokens
    BY <1>1, <1>4 DEF build_conversion_transaction, IsTransfer, Assets
  <2>2. Good(tx, key, X) /\ Fair(tx, <<TransferOut(transfer)>>, Payer(back, holder))
    BY <1>1, <1>4, <2>1, ConvertTokenIsGood
  <2> QED BY <1>4, <2>2
<1> QED BY <1>2, <1>3, <1>4

-----------------------------------------------------------------------------
(***************************************************************************)
(* From what is paid to what is asked for                                  *)
(***************************************************************************)
\* Everybody's shares change by what is asked for and by the fee.
Exact(tx, asks, payer) ==
  \A a \in Assets : \A o :
    Share(tx.outs, o, a) - Share(tx.ins, o, a)
      = Share(Coins(asks, "to"), o, a) - Share(Coins(asks, "from"), o, a)
        - (IF payer = o /\ a = Native THEN tx.fee ELSE 0)

\* The asks are what is paid, and given by those p says.
Means(asks, paid, p) ==
  /\ asks \in Seq(AskSet)
  /\ \A a \in Assets : \A o :
       /\ Share(Coins(asks, "to"), o, a) = Share(paid, o, a)
       /\ Share(Coins(asks, "from"), o, a) = IF o = p[a] THEN Total(paid, a) ELSE 0

LEMMA FairIsExact ==
  ASSUME NEW X, Valued(X), NEW key, NEW tx, Good(tx, key, X), NEW paid \in Seq(Placed), NEW p,
         Fair(tx, paid, p), NEW asks, Means(asks, paid, p), NEW payer, payer = p[Native]
  PROVE  Exact(tx, asks, payer)
<1> SUFFICES ASSUME NEW a \in Assets, NEW o
             PROVE  Share(tx.outs, o, a) - Share(tx.ins, o, a)
                      = Share(Coins(asks, "to"), o, a) - Share(Coins(asks, "from"), o, a)
                        - (IF payer = o /\ a = Native THEN tx.fee ELSE 0)
  BY DEF Exact
<1> DEFINE ins == tx.ins
           outs == tx.outs
           fee == tx.fee
           so == Share(outs, o, a)
           si == Share(ins, o, a)
           sp == Share(paid, o, a)
           ti == Total(ins, a)
           to == Total(outs, a)
           tp == Total(paid, a)
           mine == o = p[a]
<1>1. ins \in Seq(X) /\ outs \in Seq(Placed)
  BY DEF Good
<1>2. so = sp + (IF mine THEN to - tp ELSE 0)
  BY DEF Fair, Leaves
<1>3. si = IF mine THEN ti ELSE 0
  <2>1. HeldBy(ins, p)
    BY DEF Fair
  <2> HIDE DEF ins
  <2> QED BY <1>1, <2>1, SharesOfHeld
<1>4. ti \in Nat /\ to \in Nat /\ tp \in Nat /\ sp \in Nat
  <2> HIDE DEF ins, outs
  <2> QED BY <1>1, PlacedIsValued, SharesType
<1>5. fee \in Nat /\ ti = to + (IF a = Native THEN fee ELSE 0)
  <2>1. fee \in Nat /\ (a = Native => ti = to + fee) /\ (a # Native => ti = to)
    BY DEF Good, Exactly, Assets
  <2> HIDE DEF ti, to, fee
  <2> QED BY <1>4, <2>1
<1>6. /\ Share(Coins(asks, "to"), o, a) = sp
      /\ Share(Coins(asks, "from"), o, a) = IF mine THEN tp ELSE 0
  BY DEF Means
<1>7. a = Native => (mine <=> payer = o)
  OBVIOUS
<1> HIDE DEF so, si, sp, ti, to, tp, mine, fee
<1>8. so - si = sp - (IF mine THEN tp ELSE 0) - (IF payer = o /\ a = Native THEN fee ELSE 0)
  BY <1>2, <1>3, <1>4, <1>5, <1>7
<1> QED BY <1>6, <1>8 DEF so, si, fee

\* What a builder owes its caller.
Delivers(tx, asks, payer) == asks \in Seq(AskSet) /\ Exact(tx, asks, payer)

LEMMA FairDelivers ==
  ASSUME NEW X, Valued(X), NEW key, NEW tx, Good(tx, key, X), NEW paid, paid \in Seq(Placed), NEW p,
         Fair(tx, paid, p), NEW asks, Means(asks, paid, p), NEW payer, payer = p[Native]
  PROVE  Delivers(tx, asks, payer)
BY FairIsExact DEF Delivers, Means

\* An order is what its outputs pay.
LEMMA OrderMeans ==
  ASSUME NEW order \in Recipients, NEW from \in Keys \cup Identities, NEW paid \in Seq(Placed),
         DOMAIN paid = DOMAIN order,
         \A i \in DOMAIN order : /\ paid[i].owner = order[i].to
                                 /\ paid[i].value = Of(order[i].asset, order[i].amount)
  PROVE  Means(AsksOf(from, order), paid, Always(from))
<1> DEFINE asks == AsksOf(from, order)
           n == Len(order)
<1>1. n \in Nat /\ DOMAIN order = 1..n
  BY RecipientsAre
<1>2. asks \in Seq(AskSet) /\ Len(asks) = n /\ DOMAIN asks = 1..n
      /\ \A i \in 1..n : asks[i] = Ask(from, order[i].to, order[i].asset, order[i].amount)
  <2> DEFINE at(i) == Ask(from, order[i].to, order[i].asset, order[i].amount)
  <2>1. ASSUME NEW i \in 1..n PROVE at(i) \in AskSet
    <3>1. order[i].to \in Keys \cup Identities /\ order[i].asset \in Assets /\ order[i].amount \in Nat
      BY <1>1, RecipientsAre
    <3> QED BY <3>1 DEF AskSet, Ask, Owners
  <2>2. asks = [i \in 1..n |-> at(i)]
    BY <1>1 DEF AsksOf
  <2> HIDE DEF at, n, asks, AskSet
  <2>3. [i \in 1..n |-> at(i)] \in Seq(AskSet)
    BY <1>1, <2>1, IsASeq
  <2>4. asks \in Seq(AskSet) /\ DOMAIN asks = 1..n /\ \A i \in 1..n : asks[i] = at(i)
    BY <2>2, <2>3
  <2> QED BY <1>1, <2>4, LenProperties DEF at
<1> HIDE DEF asks, n
<1>3. ASSUME NEW end \in {"from", "to"}
      PROVE  /\ Coins(asks, end) \in Seq(Coin) /\ Valued(Coin) /\ DOMAIN Coins(asks, end) = 1..n
             /\ \A i \in 1..n : /\ Coins(asks, end)[i].owner = asks[i][end]
                                /\ Coins(asks, end)[i].value = paid[i].value
  <2>1. /\ Coins(asks, end) \in Seq(Coin) /\ Valued(Coin) /\ Len(Coins(asks, end)) = n
        /\ \A i \in 1..n :
             Coins(asks, end)[i] = [owner |-> asks[i][end], value |-> Of(asks[i].asset, asks[i].amount)]
    BY <1>2, CoinsAre
  <2>2. DOMAIN Coins(asks, end) = 1..n
    BY <2>1, LenProperties
  <2>3. \A i \in 1..n : asks[i].asset = order[i].asset /\ asks[i].amount = order[i].amount
    BY <1>2 DEF Ask
  <2> QED BY <1>1, <2>1, <2>2, <2>3
<1>4. \A i \in 1..n : asks[i].to = order[i].to /\ asks[i].from = from
  BY <1>2 DEF Ask
<1>5. ASSUME NEW a \in Assets, NEW o
      PROVE  /\ Share(Coins(asks, "to"), o, a) = Share(paid, o, a)
             /\ Share(Coins(asks, "from"), o, a) = IF o = from THEN Total(paid, a) ELSE 0
  <2> DEFINE gets == Coins(asks, "to")
             gives == Coins(asks, "from")
  <2>1. /\ gets \in Seq(Coin) /\ DOMAIN gets = 1..n
        /\ \A i \in 1..n : gets[i].owner = asks[i].to /\ gets[i].value = paid[i].value
        /\ gives \in Seq(Coin) /\ DOMAIN gives = 1..n /\ Valued(Coin)
        /\ \A i \in 1..n : gives[i].owner = asks[i].from /\ gives[i].value = paid[i].value
    BY <1>3
  <2> HIDE DEF gets, gives
  <2>2. Share(gets, o, a) = Share(paid, o, a)
    <3>1. DOMAIN gets = DOMAIN paid
          /\ \A i \in DOMAIN gets : gets[i].owner = paid[i].owner /\ gets[i].value[a] = paid[i].value[a]
      BY <1>1, <1>4, <2>1
    <3> QED BY <3>1, SharesAgree
  <2>3. Total(gives, a) = Total(paid, a)
    <3>1. [i \in DOMAIN gives |-> gives[i].value[a]] = [i \in DOMAIN paid |-> paid[i].value[a]]
      BY <1>1, <2>1
    <3> QED BY <3>1 DEF Total
  <2>4. Share(gives, o, a) = IF o = from THEN Total(gives, a) ELSE 0
    <3> DEFINE p == Always(from)
    <3>1. HeldBy(gives, p) /\ gives \in Seq(Coin) /\ Valued(Coin)
      BY <1>4, <2>1 DEF HeldBy, Always
    <3>2. p[a] = from
      BY DEF Always
    <3> HIDE DEF p
    <3>3. Share(gives, o, a) = IF o = p[a] THEN Total(gives, a) ELSE 0
      BY <3>1, SharesOfHeld
    <3> QED BY <3>2, <3>3
  <2> QED BY <2>2, <2>3, <2>4 DEF gets, gives
<1> QED BY <1>2, <1>5 DEF Means, Always, asks

LEMMA PaymentsMean ==
  ASSUME NEW order \in Recipients, InNative(order), NEW from \in Keys \cup Identities
  PROVE  PaymentsOf(order) \in Seq(Placed) /\ Means(AsksOf(from, order), PaymentsOf(order), Always(from))
<1> DEFINE paid == PaymentsOf(order)
<1>1. paid \in Seq(Placed)
  BY PaymentsAre
<1>2. DOMAIN paid = DOMAIN order
  BY DEF PaymentsOf
<1>3. \A i \in DOMAIN order : /\ paid[i].owner = order[i].to
                              /\ paid[i].value = Of(order[i].asset, order[i].amount)
  BY DEF PaymentsOf, Pay, Output, InNative
<1> HIDE DEF paid
<1> QED BY <1>1, <1>2, <1>3, OrderMeans DEF paid

LEMMA ReservesMean ==
  ASSUME NEW order \in Recipients, InTokens(order), \A i \in DOMAIN order : order[i].amount # 0,
         NEW from \in Keys \cup Identities
  PROVE  ReservesOf(order) \in Seq(Placed) /\ Means(AsksOf(from, order), ReservesOf(order), Always(from))
<1> DEFINE paid == ReservesOf(order)
<1>1. paid \in Seq(Placed)
  BY ReservesAre
<1>2. DOMAIN paid = DOMAIN order
  BY DEF ReservesOf
<1>3. \A i \in DOMAIN order : /\ paid[i].owner = order[i].to
                              /\ paid[i].value = Of(order[i].asset, order[i].amount)
  BY DEF ReservesOf, Reserve, Output
<1> HIDE DEF paid
<1> QED BY <1>1, <1>2, <1>3, OrderMeans DEF paid

\* A transfer takes its amount from the holder and its fee from the payer.
LEMMA TransferMeans ==
  ASSUME NEW transfer, IsTransfer(transfer), NEW holder \in Owners, NEW payer \in Owners,
         ~Minting(transfer) /\ transfer.source = Native => holder = payer
  PROVE  /\ <<TransferOut(transfer)>> \in Seq(Placed)
         /\ Means(AsksOfTransfer(transfer, holder, payer), <<TransferOut(transfer)>>, Payer(payer, holder))
<1> DEFINE out == TransferOut(transfer)
           paid == <<out>>
           moved == Ask(holder, Protocol, transfer.source, transfer.amount)
           cost == Ask(payer, Protocol, transfer.fee_currency, transfer.fee)
           first == IF Minting(transfer) THEN <<>> ELSE <<moved>>
           last == <<cost>>
           amount == transfer.amount
           fee == transfer.fee
           minting == Minting(transfer)
           source == transfer.source
<1>1. /\ source \in Assets /\ transfer.fee_currency = Native /\ amount \in Nat /\ fee \in Nat
  BY DEF IsTransfer
<1>2. moved \in AskSet /\ cost \in AskSet
  <2>1. Protocol \in Owners /\ Native \in Assets
    BY AssetsAre DEF Owners
  <2> QED BY <1>1, <2>1 DEF AskSet, Ask
<1>3. /\ moved.from = holder /\ moved.to = Protocol /\ moved.asset = source /\ moved.amount = amount
      /\ cost.from = payer /\ cost.to = Protocol /\ cost.asset = Native /\ cost.amount = fee
  BY <1>1 DEF Ask
<1>4. /\ out \in Placed /\ out.owner = Protocol /\ out.value \in Value
      /\ out.value[Native] = (IF source = Native /\ ~minting THEN amount ELSE 0) + fee
      /\ \A t \in Tokens : out.value[t] = IF t = source /\ ~minting THEN amount ELSE 0
  BY TransferOutIs
<1>5. AsksOfTransfer(transfer, holder, payer) = first \o last
  BY DEF AsksOfTransfer
<1> HIDE DEF out, moved, cost, amount, fee, source
<1>6. paid \in Seq(Placed) /\ \A a \in Assets : /\ Total(paid, a) = out.value[a]
                                               /\ \A o : Share(paid, o, a) = IF Protocol = o THEN out.value[a] ELSE 0
  BY <1>4, TotalOfSingle, ShareOfSingle
<1>7. first \in Seq(AskSet)
      /\ \A a \in Assets : \A o :
           /\ Share(Coins(first, "to"), o, a) = IF ~minting /\ Protocol = o /\ source = a THEN amount ELSE 0
           /\ Share(Coins(first, "from"), o, a) = IF ~minting /\ holder = o /\ source = a THEN amount ELSE 0
  <2>1. CASE minting
    <3>1. first = <<>>
      BY <2>1
    <3> QED BY <2>1, <3>1, NothingAsked
  <2>2. CASE ~minting
    <3>1. first = <<moved>>
      BY <2>2
    <3>2. <<moved>> \in Seq(AskSet)
          /\ \A a \in Assets : \A o : \A end \in {"from", "to"} :
               Share(Coins(<<moved>>, end), o, a) = IF moved[end] = o /\ moved.asset = a THEN moved.amount ELSE 0
      BY <1>2, AskedOfOne, AssetsAre
    <3> QED BY <1>3, <2>2, <3>1, <3>2
  <2> QED BY <2>1, <2>2
<1>8. last \in Seq(AskSet)
      /\ \A a \in Assets : \A o :
           /\ Share(Coins(last, "to"), o, a) = IF Protocol = o /\ Native = a THEN fee ELSE 0
           /\ Share(Coins(last, "from"), o, a) = IF payer = o /\ Native = a THEN fee ELSE 0
  <2>2. <<cost>> \in Seq(AskSet)
        /\ \A a \in Assets : \A o : \A end \in {"from", "to"} :
             Share(Coins(<<cost>>, end), o, a) = IF cost[end] = o /\ cost.asset = a THEN cost.amount ELSE 0
    BY <1>2, AskedOfOne, AssetsAre
  <2> QED BY <1>3, <2>2
<1> HIDE DEF first, last, minting
<1>9. first \o last \in Seq(AskSet)
      /\ \A a \in Assets : \A o : \A end \in {"from", "to"} :
           Share(Coins(first \o last, end), o, a) = Share(Coins(first, end), o, a) + Share(Coins(last, end), o, a)
  BY <1>7, <1>8, CoinsOfConcat, AskedOfConcat
<1>10. ASSUME NEW a \in Assets, NEW o
       PROVE  /\ Share(Coins(first \o last, "to"), o, a) = Share(paid, o, a)
              /\ Share(Coins(first \o last, "from"), o, a)
                   = IF o = Payer(payer, holder)[a] THEN Total(paid, a) ELSE 0
  <2> DEFINE gets == Share(Coins(first \o last, "to"), o, a)
             gives == Share(Coins(first \o last, "from"), o, a)
             worth == out.value[a]
             who == Payer(payer, holder)[a]
  <2>1. /\ gets = (IF ~minting /\ Protocol = o /\ source = a THEN amount ELSE 0)
                  + (IF Protocol = o /\ Native = a THEN fee ELSE 0)
        /\ gives = (IF ~minting /\ holder = o /\ source = a THEN amount ELSE 0)
                   + (IF payer = o /\ Native = a THEN fee ELSE 0)
    BY <1>7, <1>8, <1>9
  <2>2. /\ Share(paid, o, a) = IF Protocol = o THEN worth ELSE 0
        /\ Total(paid, a) = worth
    BY <1>6
  <2>3. who = IF a = Native THEN payer ELSE holder
    BY DEF Payer
  <2>4. worth = (IF a = source /\ ~minting THEN amount ELSE 0) + (IF a = Native THEN fee ELSE 0)
    <3>1. CASE a = Native
      BY <1>1, <1>4, <3>1
    <3>2. CASE a \in Tokens
      <4>1. a # Native
        BY <3>2, AssetsAre
      <4> QED BY <1>1, <1>4, <3>2, <4>1
    <3> QED BY <3>1, <3>2 DEF Assets
  <2>5. ~minting /\ source = Native => holder = payer
    BY DEF minting, source
  <2> HIDE DEF gets, gives, worth, who, paid
  <2>6. gets = Share(paid, o, a)
    BY <1>1, <2>1, <2>2, <2>4
  <2>7. gives = IF o = who THEN Total(paid, a) ELSE 0
    <3>1. CASE a = Native
      BY <1>1, <2>1, <2>2, <2>3, <2>4, <2>5, <3>1
    <3>2. CASE a # Native
      BY <1>1, <2>1, <2>2, <2>3, <2>4, <3>2
    <3> QED BY <3>1, <3>2
  <2> QED BY <2>6, <2>7 DEF gets, gives, who
<1> QED BY <1>5, <1>6, <1>9, <1>10 DEF Means, out

\* Where nothing native is paid it does not matter whose that would be.
LEMMA MeansElsewhere ==
  ASSUME NEW asks, NEW paid, NEW one, NEW who, Means(asks, paid, Always(who)), Total(paid, Native) = 0
  PROVE  Means(asks, paid, Payer(one, who))
BY DEF Means, Always, Payer

LEMMA NothingMeans ==
  ASSUME NEW p
  PROVE  Means(<<>>, <<>>, p)
BY NothingAsked, ShareOfEmpty, TotalOfEmpty DEF Means

-----------------------------------------------------------------------------
(***************************************************************************)
(* Offers                                                                  *)
(***************************************************************************)
LEMMA FundOfferIsGood ==
  ASSUME NEW X, Valued(X), Sincere(X), NEW key \in Keys, NEW list \in Seq(X), Distinct(list),
         NEW amount \in Nat, \A i \in DOMAIN list : list[i].owner = key /\ list[i].shape = "p2pkh",
         NEW tx, tx = fund_offer(key, list, amount, key), tx.kind = "built"
  PROVE  Good(tx, key, X) /\ Fair(tx, <<>>, Always(key))
<1> DEFINE o == Offered(key, amount)
           p == Always(key)
           plan == [burn |-> 0, leading |-> <<>>, funding |-> list, outs |-> <<o>>,
                    counted |-> 2, change |-> key, bearing |-> FALSE]
<1>1. tx = assemble(key, plan)
  <2>1. amount # 0
    BY DEF fund_offer, Refused
  <2> QED BY <2>1 DEF fund_offer
<1>2. o.value = Of(Native, amount) /\ o.owner = key /\ o.shape = "offer" /\ o \in Placed
  <2>1. Of(Native, amount) \in Value
    BY AssetsAre, OfIsValue
  <2>2. /\ o.value = Of(Native, amount) /\ o.owner = key /\ o.shape = "offer"
        /\ o \in [shape : Shapes, owner : Owners, value : Value]
    BY <2>1 DEF Offered, Output, Shapes, Owners
  <2> HIDE DEF o
  <2> QED BY <2>2, NativeIsTruthful DEF Placed, Movable
<1> HIDE DEF o
<1>3. <<o>> \in Seq(Placed) /\ \A t \in Tokens : Total(<<o>>, t) = 0
  BY <1>2, OneOutput, AssetsAre
<1>a. \A a \in Assets : p[a] = key
  BY DEF Always
<1> HIDE DEF p
<1>4. WellPlanned(plan, X, p)
  <2>1. <<>> \in Seq(X) /\ Distinct(<<>>) /\ Apart(<<>>, list)
    BY EmptyIsApart
  <2>2. \A t \in Tokens : Total(<<>>, t) = Total(<<o>>, t)
    BY <1>3, TotalOfEmpty, AssetsAre
  <2>3. Plain(list)
    BY PlainIs
  <2> QED BY <1>3, <1>a, <2>1, <2>2, <2>3, AssetsAre DEF WellPlanned
<1> DEFINE one == <<o>>
<1>5. plan.outs = one
  OBVIOUS
<1> HIDE DEF plan
<1>6. Good(tx, key, X) /\ Fair(tx, one, p)
  BY <1>1, <1>4, <1>5, AssembleIsGood
<1>7. Leaves(one, <<>>, p)
  <2>1. HeldBy(one, p)
    BY <1>2, <1>a DEF HeldBy
  <2> HIDE DEF one
  <2> QED BY <1>3, <2>1, PlacedIsValued, HeldAlone DEF one
<1>8. Leaves(tx.outs, <<>>, p)
  <2> DEFINE all == tx.outs
             none == <<>>
  <2>1. /\ Leaves(all, one, p) /\ Leaves(one, none, p)
        /\ one \in Seq(Placed) /\ none \in Seq(Placed) /\ all \in Seq(Placed)
    BY <1>3, <1>6, <1>7, NoOutputs DEF Fair, Good
  <2> HIDE DEF one, all, none
  <2>2. Leaves(all, none, p)
    BY <2>1, PlacedIsValued, LeavesOn
  <2> QED BY <2>2 DEF all, none
<1> QED BY <1>6, <1>8 DEF Fair, p

LEMMA ReclaimIsGood ==
  ASSUME NEW X, Valued(X), Sincere(X), NEW key \in Keys, NEW coin \in X, Sat(coin) > MIN_FEE,
         coin.owner = key, coin.shape = "offer",
         NEW tx, tx = partial_transaction(key, <<coin>>, <<Pay(key, Sat(coin) - MIN_FEE)>>),
         tx.kind = "built"
  PROVE  Good(tx, key, X) /\ Fair(tx, <<>>, Always(key))
<1> DEFINE p == Always(key)
           n == Sat(coin) - MIN_FEE
           o == Pay(key, n)
           ins == <<coin>>
           outs == <<o>>
           spare == IF Total(ins, Native) \geq Total(outs, Native)
                    THEN Total(ins, Native) - Total(outs, Native) ELSE 0
<1>1. tx = Built(key, ins, outs, spare, 0)
  <2>1. ~ \E i \in DOMAIN ins : ins[i].shape = "p2pkh" /\ ins[i].owner # key
    BY DEF partial_transaction, Refused
  <2> QED BY <2>1 DEF partial_transaction
<1>2. coin.value \in Value /\ Sat(coin) = coin.value[Native] /\ Sat(coin) \in Nat
  BY AssetsAre DEF Valued, Sat, Value
<1>3. n \in Nat /\ n \leq Sat(coin)
  <2> DEFINE sat == Sat(coin)
  <2>1. sat \in Nat /\ MIN_FEE \in Nat /\ sat > MIN_FEE
    BY <1>2, BuildersAssumption
  <2> HIDE DEF sat
  <2> QED BY <2>1 DEF sat
<1>4. o \in Placed /\ o.value = Of(Native, n)
  <2> HIDE DEF n
  <2> QED BY <1>3, PayIsPlaced
<1>c. o.owner = key
  BY DEF Pay, Output
<1> HIDE DEF o
<1>5. outs \in Seq(Placed) /\ \A a \in Assets : Total(outs, a) = IF a = Native THEN n ELSE 0
  BY <1>3, <1>4, OneOutput, AssetsAre
<1>6. ins \in Seq(X) /\ Distinct(ins)
  BY DEF Distinct
<1>7. \A a \in Assets : Total(ins, a) = coin.value[a] /\ coin.value[a] \in Nat
  BY <1>2, TotalOfSingle DEF Value
<1>a. HeldBy(ins, p) /\ \A t \in Tokens : Total(ins, t) = 0
  <2>1. \A i \in DOMAIN ins : ins[i].shape \in {"p2pkh", "identity", "offer"} /\ ins[i].owner = key
    OBVIOUS
  <2> HIDE DEF ins
  <2>2. \A t \in Tokens : Total(ins, t) = 0
    BY <1>6, <2>1, PlainIs
  <2> QED BY <2>1, <2>2 DEF HeldBy, Always
<1>b. HeldBy(outs, p)
  <2>1. \A i \in DOMAIN outs : outs[i].owner = key
    BY <1>c
  <2> QED BY <2>1 DEF HeldBy, Always
<1>8. Exactly(ins, outs, spare)
  <2> HIDE DEF n, outs, ins
  <2>1. Total(ins, Native) = Sat(coin) /\ Total(outs, Native) = n
    BY <1>2, <1>5, <1>7, AssetsAre
  <2>2. spare \in Nat /\ Total(ins, Native) = Total(outs, Native) + spare
    BY <1>2, <1>3, <2>1
  <2> QED BY <1>5, <1>a, <2>2, AssetsAre DEF Exactly
<1> HIDE DEF ins, outs, spare, p
<1>9. Good(tx, key, X)
  BY <1>1, <1>5, <1>6, <1>8, BuiltIsGood
<1>10. Leaves(outs, <<>>, p)
  BY <1>5, <1>b, PlacedIsValued, HeldAlone
<1> QED BY <1>1, <1>9, <1>10, <1>a DEF Fair, Built, p

\* What a taker asks: the coin for itself, and all that is wanted for the giver.
TakeAsks(giver, taker, offered, owed) ==
  <<Ask(giver, taker, Native, offered)>>
  \o [i \in 1..Cardinality(Assets) |-> LET a == SetToSeq(Assets)[i] IN Ask(taker, giver, a, owed[a])]

\* One ask for each asset.
LEMMA ListedAsks ==
  ASSUME NEW giver \in Owners, NEW taker \in Owners, NEW owed \in Value,
         NEW asks, asks = [i \in 1..Cardinality(Assets) |->
                             LET a == SetToSeq(Assets)[i] IN Ask(taker, giver, a, owed[a])]
  PROVE  /\ asks \in Seq(AskSet)
         /\ \A a \in Assets : \A o :
              /\ Share(Coins(asks, "to"), o, a) = IF o = giver THEN owed[a] ELSE 0
              /\ Share(Coins(asks, "from"), o, a) = IF o = taker THEN owed[a] ELSE 0
<1> DEFINE size == Cardinality(Assets)
           over == SetToSeq(Assets)
<1>1. IsFiniteSet(Assets)
  BY BuildersAssumption, FS_AddElement DEF Assets
<1>2. size \in Nat /\ over \in Bijection(1..size, Assets)
  BY <1>1, SetToSeqIs
<1>3. /\ over \in [1..size -> Assets]
      /\ \A i, j \in 1..size : over[i] = over[j] => i = j
      /\ \A a \in Assets : \E i \in 1..size : over[i] = a
  <2> HIDE DEF over, size, Assets
  <2> QED BY <1>2 DEF Bijection, Injection, IsInjective, Surjection
<1>4. asks = [i \in 1..size |-> Ask(taker, giver, over[i], owed[over[i]])]
  OBVIOUS
<1> HIDE DEF over, size
<1>5. asks \in Seq(AskSet) /\ Len(asks) = size
  <2>1. \A i \in 1..size : Ask(taker, giver, over[i], owed[over[i]]) \in AskSet
    BY <1>3 DEF AskSet, Ask, Value
  <2> HIDE DEF AskSet
  <2>2. [i \in 1..size |-> Ask(taker, giver, over[i], owed[over[i]])] \in Seq(AskSet)
    BY <1>2, <2>1, IsASeq
  <2>3. asks \in Seq(AskSet) /\ DOMAIN asks = 1..size
    BY <1>4, <2>2
  <2>4. Len(asks) \in Nat /\ DOMAIN asks = 1..Len(asks)
    BY ONLY <2>3, LenProperties
  <2> QED BY ONLY <1>2, <2>3, <2>4
<1>6. \A i \in 1..size : /\ asks[i].to = giver /\ asks[i].from = taker
                         /\ asks[i].asset = over[i] /\ asks[i].amount = owed[over[i]]
  BY ONLY <1>4 DEF Ask
<1>7. ASSUME NEW end \in {"from", "to"}, NEW who, \A i \in 1..size : asks[i][end] = who,
             NEW a \in Assets, NEW o
      PROVE  Share(Coins(asks, end), o, a) = IF o = who THEN owed[a] ELSE 0
  <2> DEFINE cs == Coins(asks, end)
             amounts == Amounts(cs, a)
             Positions == 1..size
  <2>1. /\ cs \in Seq(Coin) /\ Valued(Coin) /\ Len(cs) = size
        /\ \A i \in 1..size : cs[i] = [owner |-> asks[i][end], value |-> Of(asks[i].asset, asks[i].amount)]
    BY <1>5, CoinsAre
  <2>2. \A i \in 1..size : cs[i].owner = who /\ cs[i].value[a] = IF a = over[i] THEN owed[a] ELSE 0
    <3>1. ASSUME NEW i \in 1..size
          PROVE  cs[i].owner = who /\ cs[i].value[a] = IF a = over[i] THEN owed[a] ELSE 0
      <4>1. cs[i].owner = asks[i][end] /\ cs[i].value = Of(over[i], owed[over[i]])
        BY ONLY <1>6, <2>1, <3>1
      <4>2. Of(over[i], owed[over[i]])[a] = IF a = over[i] THEN owed[a] ELSE 0
        BY ONLY <1>7, <3>1 DEF Of
      <4> QED BY ONLY <1>7, <3>1, <4>1, <4>2
    <3> QED BY ONLY <3>1
  <2> HIDE DEF cs
  <2>3. DOMAIN cs = 1..size
    BY <2>1, LenProperties
  <2>4. PICK p \in 1..size : over[p] = a
    BY <1>3
  <2>5. /\ IsFiniteSet(Positions) /\ amounts \in [Positions -> Int]
        /\ Total(cs, a) = SumOver(amounts, Positions)
    <3>1. /\ IsFiniteSet(1..Len(cs)) /\ amounts \in [1..Len(cs) -> Int]
          /\ Total(cs, a) = SumOver(amounts, 1..Len(cs))
      BY <2>1, AmountsType, TotalIs
    <3> QED BY <2>1, <3>1
  <2>6. \A i \in Positions : amounts[i] = IF a = over[i] THEN owed[a] ELSE 0
    BY <2>1, <2>2 DEF Amounts
  <2>7. (\A i \in Positions : i # p => amounts[i] = 0) /\ amounts[p] = owed[a] /\ p \in Positions
    BY <1>3, <2>4, <2>6
  <2>8. SumOver(amounts, Positions) = amounts[p]
    <3> HIDE DEF amounts, Positions
    <3> QED BY <2>5, <2>7, SumOfOne
  <2>9. Total(cs, a) = owed[a]
    BY <2>5, <2>7, <2>8
  <2>10. Share(cs, o, a) = IF o = Always(who)[a] THEN Total(cs, a) ELSE 0
    <3> DEFINE p1 == Always(who)
    <3>1. HeldBy(cs, p1) /\ cs \in Seq(Coin) /\ Valued(Coin)
      BY <2>1, <2>2, <2>3 DEF HeldBy, Always
    <3> HIDE DEF p1
    <3>2. Share(cs, o, a) = IF o = p1[a] THEN Total(cs, a) ELSE 0
      BY <3>1, SharesOfHeld
    <3> QED BY <3>2 DEF p1
  <2>11. Always(who)[a] = who
    BY DEF Always
  <2> QED BY ONLY <2>9, <2>10, <2>11 DEF cs
<1>8. \A i \in 1..size : asks[i]["to"] = giver /\ asks[i]["from"] = taker
  BY ONLY <1>6
<1>9. ASSUME NEW a \in Assets, NEW o
      PROVE  /\ Share(Coins(asks, "to"), o, a) = IF o = giver THEN owed[a] ELSE 0
             /\ Share(Coins(asks, "from"), o, a) = IF o = taker THEN owed[a] ELSE 0
  BY ONLY <1>7, <1>8, <1>9
<1> QED BY ONLY <1>5, <1>9

\* Asks that exchange what is offered for what is owed.
Exchange(asks, giver, taker, offered, owed) ==
  \A a \in Assets : \A o :
    /\ Share(Coins(asks, "to"), o, a)
         = (IF o = taker /\ a = Native THEN offered ELSE 0) + (IF o = giver THEN owed[a] ELSE 0)
    /\ Share(Coins(asks, "from"), o, a)
         = (IF o = giver /\ a = Native THEN offered ELSE 0) + (IF o = taker THEN owed[a] ELSE 0)

LEMMA TakeAsksAre ==
  ASSUME NEW giver \in Owners, NEW taker \in Owners, NEW offered \in Nat, NEW owed \in Value
  PROVE  LET asks == TakeAsks(giver, taker, offered, owed)
         IN asks \in Seq(AskSet) /\ Exchange(asks, giver, taker, offered, owed)
<1> DEFINE asks == TakeAsks(giver, taker, offered, owed)
           ask == Ask(giver, taker, Native, offered)
           first == <<ask>>
           last == [i \in 1..Cardinality(Assets) |->
                      LET a == SetToSeq(Assets)[i] IN Ask(taker, giver, a, owed[a])]
<1>1. ask \in AskSet /\ ask.from = giver /\ ask.to = taker /\ ask.asset = Native /\ ask.amount = offered
  BY AssetsAre DEF AskSet, Ask
<1>2. asks = first \o last
  BY DEF TakeAsks
<1>3. /\ last \in Seq(AskSet)
      /\ \A a \in Assets : \A o :
           /\ Share(Coins(last, "to"), o, a) = IF o = giver THEN owed[a] ELSE 0
           /\ Share(Coins(last, "from"), o, a) = IF o = taker THEN owed[a] ELSE 0
  <2> HIDE DEF last
  <2>1. last = [i \in 1..Cardinality(Assets) |->
                  LET a == SetToSeq(Assets)[i] IN Ask(taker, giver, a, owed[a])]
    BY DEF last
  <2> QED BY <2>1, ListedAsks
<1> HIDE DEF asks, ask, last
<1>4. first \in Seq(AskSet)
      /\ \A a \in Assets : \A o : \A end \in {"from", "to"} :
           Share(Coins(first, end), o, a) = IF ask[end] = o /\ ask.asset = a THEN ask.amount ELSE 0
  BY <1>1, AskedOfOne, AssetsAre
<1> HIDE DEF first
<1>5. first \o last \in Seq(AskSet)
      /\ \A a \in Assets : \A o : \A end \in {"from", "to"} :
           Share(Coins(first \o last, end), o, a) = Share(Coins(first, end), o, a) + Share(Coins(last, end), o, a)
  BY <1>3, <1>4, CoinsOfConcat, AskedOfConcat
<1> QED BY <1>1, <1>2, <1>3, <1>4, <1>5 DEF asks, Exchange

\* The maker's coin goes to the taker, what is wanted to the maker, and the rest
\* is the taker's as before.
LEMMA TakeIsExact ==
  ASSUME NEW X, Valued(X), NEW coin \in X, NEW list \in Seq(X), NEW key \in Owners, NEW giver \in Owners,
         giver # key, coin.owner = giver, \A t \in Tokens : coin.value[t] = 0,
         \A i \in DOMAIN list : list[i].owner = key,
         NEW wanted \in Placed, wanted.owner = giver,
         NEW given \in Placed, given.owner = key, given.value = Of(Native, Sat(coin)),
         NEW outs \in Seq(Placed), Leaves(outs, <<wanted, given>>, Always(key)),
         NEW fee, Exactly(<<coin>> \o list, outs, fee),
         NEW tx, tx.ins = <<coin>> \o list, tx.outs = outs, tx.fee = fee
  PROVE  /\ TakeAsks(giver, key, Sat(coin), wanted.value) \in Seq(AskSet)
         /\ Exact(tx, TakeAsks(giver, key, Sat(coin), wanted.value), key)
<1> DEFINE owed == wanted.value
           sat == Sat(coin)
           asks == TakeAsks(giver, key, sat, owed)
           paid == <<wanted, given>>
           ins == <<coin>> \o list
<1>1. owed \in Value /\ coin.value \in Value /\ sat = coin.value[Native] /\ sat \in Nat
  BY AssetsAre DEF Valued, Placed, Sat, Value
<1>2. asks \in Seq(AskSet) /\ Exchange(asks, giver, key, sat, owed)
  <2> HIDE DEF owed, sat
  <2> QED BY <1>1, TakeAsksAre
<1>3. given.value \in Value /\ \A a \in Assets : given.value[a] = IF a = Native THEN sat ELSE 0
  BY <1>1, OfIsValue, AssetsAre
<1> HIDE DEF sat, owed, asks
<1>4. \A a \in Assets : \A o :
        /\ Share(paid, o, a) = (IF o = giver THEN owed[a] ELSE 0)
                               + (IF o = key /\ a = Native THEN sat ELSE 0)
        /\ Total(paid, a) = owed[a] + (IF a = Native THEN sat ELSE 0)
  <2> DEFINE one == <<wanted>>
             two == <<given>>
  <2>1. one \in Seq(Placed) /\ two \in Seq(Placed) /\ paid = one \o two
    OBVIOUS
  <2>2. \A a \in Assets : /\ Total(one, a) = owed[a]
                          /\ \A o : Share(one, o, a) = IF giver = o THEN owed[a] ELSE 0
    BY <1>1, TotalOfSingle, ShareOfSingle DEF owed
  <2>3. \A a \in Assets : /\ Total(two, a) = given.value[a]
                          /\ \A o : Share(two, o, a) = IF key = o THEN given.value[a] ELSE 0
    BY <1>3, TotalOfSingle, ShareOfSingle
  <2> HIDE DEF one, two, paid
  <2>4. \A a \in Assets : /\ Total(one \o two, a) = Total(one, a) + Total(two, a)
                          /\ \A o : Share(one \o two, o, a) = Share(one, o, a) + Share(two, o, a)
    BY <2>1, PlacedIsValued, TotalOfConcat, ShareOfConcat
  <2> QED BY <1>1, <1>3, <2>1, <2>2, <2>3, <2>4
<1>5. \A a \in Assets :
        /\ Total(list, a) \in Nat
        /\ Total(ins, a) = coin.value[a] + Total(list, a)
        /\ \A o : Share(ins, o, a) = (IF o = giver THEN coin.value[a] ELSE 0)
                                     + (IF o = key THEN Total(list, a) ELSE 0)
  <2> DEFINE one == <<coin>>
             p == Always(key)
  <2>1. one \in Seq(X) /\ ins = one \o list
    OBVIOUS
  <2>2. \A a \in Assets : /\ Total(one, a) = coin.value[a]
                          /\ \A o : Share(one, o, a) = IF giver = o THEN coin.value[a] ELSE 0
    BY <1>1, TotalOfSingle, ShareOfSingle
  <2>3. HeldBy(list, p) /\ \A a \in Assets : p[a] = key
    BY DEF HeldBy, Always
  <2> HIDE DEF one, p
  <2>4. \A a \in Assets : \A o : Share(list, o, a) = IF o = p[a] THEN Total(list, a) ELSE 0
    BY <2>3, SharesOfHeld
  <2>5. \A a \in Assets : /\ Total(one \o list, a) = Total(one, a) + Total(list, a)
                          /\ \A o : Share(one \o list, o, a) = Share(one, o, a) + Share(list, o, a)
    BY <2>1, TotalOfConcat, ShareOfConcat
  <2>6. \A a \in Assets : Total(list, a) \in Nat
    BY TotalsAreNat
  <2> QED BY <2>1, <2>2, <2>3, <2>4, <2>5, <2>6
<1>6. fee \in Nat /\ \A a \in Assets : /\ Total(ins, a) = Total(outs, a) + (IF a = Native THEN fee ELSE 0)
                                        /\ Total(outs, a) \in Nat
  <2>1. fee \in Nat /\ Total(ins, Native) = Total(outs, Native) + fee
        /\ \A t \in Tokens : Total(ins, t) = Total(outs, t)
    BY DEF Exactly
  <2>2. \A a \in Assets : Total(outs, a) \in Nat
    BY PlacedIsValued, TotalsAreNat
  <2> HIDE DEF ins
  <2>3. \A t \in Tokens : t # Native
    BY AssetsAre
  <2> QED BY <2>1, <2>2, <2>3 DEF Assets
<1>7. \A a \in Assets : \A o :
        Share(outs, o, a) = Share(paid, o, a) + (IF o = key THEN Total(outs, a) - Total(paid, a) ELSE 0)
  BY DEF Leaves, Always
<1>8. \A a \in Assets : /\ coin.value[a] = IF a = Native THEN sat ELSE 0
                        /\ owed[a] \in Nat
  BY <1>1 DEF Value, Assets
<1>9. ASSUME NEW a \in Assets, NEW o
      PROVE  Share(outs, o, a) - Share(ins, o, a)
               = Share(Coins(asks, "to"), o, a) - Share(Coins(asks, "from"), o, a)
                 - (IF key = o /\ a = Native THEN fee ELSE 0)
  <2> DEFINE so == Share(outs, o, a)
             si == Share(ins, o, a)
             sp == Share(paid, o, a)
             ti == Total(ins, a)
             to == Total(outs, a)
             tp == Total(paid, a)
             tl == Total(list, a)
             get == Share(Coins(asks, "to"), o, a)
             give == Share(Coins(asks, "from"), o, a)
             due == owed[a]
             own == coin.value[a]
             extra == IF a = Native THEN sat ELSE 0
             cost == IF a = Native THEN fee ELSE 0
  <2>1. /\ so = sp + (IF o = key THEN to - tp ELSE 0)
        /\ si = (IF o = giver THEN own ELSE 0) + (IF o = key THEN tl ELSE 0)
        /\ ti = own + tl /\ ti = to + cost
        /\ sp = (IF o = giver THEN due ELSE 0) + (IF o = key /\ a = Native THEN sat ELSE 0)
        /\ tp = due + extra /\ own = extra
        /\ get = (IF o = key /\ a = Native THEN sat ELSE 0) + (IF o = giver THEN due ELSE 0)
        /\ give = (IF o = giver /\ a = Native THEN sat ELSE 0) + (IF o = key THEN due ELSE 0)
    BY ONLY <1>2, <1>4, <1>5, <1>6, <1>7, <1>8, <1>9 DEF Exchange
  <2>2. tl \in Nat /\ to \in Nat /\ due \in Nat /\ sat \in Nat /\ fee \in Nat
    BY <1>1, <1>5, <1>6, <1>8
  <2>3. extra = (IF a = Native THEN sat ELSE 0) /\ cost = (IF a = Native THEN fee ELSE 0)
    OBVIOUS
  <2> HIDE DEF so, si, sp, ti, to, tp, tl, get, give, due, own, extra, cost
  <2>4. so - si = get - give - (IF key = o /\ a = Native THEN fee ELSE 0)
    <3>1. CASE o = key
      <4>1. o # giver
        BY <3>1
      <4> QED BY <2>1, <2>2, <2>3, <3>1, <4>1
    <3>2. CASE o # key
      BY <2>1, <2>2, <2>3, <3>2
    <3> QED BY <3>1, <3>2
  <2> QED BY <2>4 DEF so, si, get, give
<1> QED BY <1>2, <1>9 DEF Exact, asks, sat, owed

\* A completed offer: the maker's coin and signature first, then the taker's.
Taken(tx, offer, coin, list, key, X) ==
  /\ tx.ins[1] = coin
  /\ \A i \in DOMAIN tx.ins : i # 1 => \E j \in DOMAIN list : tx.ins[i] = list[j]
  /\ tx.ins \in Seq(X) /\ Distinct(tx.ins)
  /\ tx.outs \in Seq(Placed) /\ 1 \in DOMAIN tx.outs /\ tx.outs[1] = offer.wanted
  /\ Exactly(tx.ins, tx.outs, tx.fee)
  /\ TakeAsks(coin.owner, key, Sat(coin), offer.wanted.value) \in Seq(AskSet)
  /\ Exact(tx, TakeAsks(coin.owner, key, Sat(coin), offer.wanted.value), key)
  /\ tx.sigs = [i \in DOMAIN tx.ins |-> IF i = 1 THEN offer.sig ELSE [by |-> key, hash |-> "all"]]

LEMMA OwedBalances ==
  ASSUME NEW X, Valued(X), NEW list \in Seq(X), NEW owed \in Value
  PROVE  /\ Balances(owed, list) \in [Tokens -> Int]
         /\ \A t \in Tokens : /\ Balances(owed, list)[t] = owed[t] - Total(list, t)
                              /\ owed[t] \in Nat /\ Total(list, t) \in Nat
<1>1. \A t \in Tokens : Total(list, t) \in Nat /\ owed[t] \in Nat
  BY TotalsAreNat, AssetsAre DEF Value
<1> QED BY <1>1 DEF Balances

LEMMA TakeIsGood ==
  ASSUME NEW X, Valued(X), Sincere(X), NEW key \in Keys, NEW offer, offer.wanted \in Placed,
         NEW coin \in X, coin.shape = "offer", coin.owner = offer.wanted.owner, coin.owner \in Keys \ {key},
         NEW list \in Seq(X), Distinct(list), \A i \in DOMAIN list : list[i].owner = key,
         NEW fee \in Nat,
         NEW tx, tx = take_offer(key, offer, coin, list, key, key, Sat(coin), fee), tx.kind = "built"
  PROVE  Taken(tx, offer, coin, list, key, X)
<1> DEFINE owed  == offer.wanted.value
           left  == Balances(owed, list)
           rest  == Total(list, Native) - owed[Native] - fee
           given == Pay(key, Sat(coin))
           paid  == <<offer.wanted, given>>
           outs  == AllOuts(paid, left, owed, key, rest)
           ins   == <<coin>> \o list
           plain == Built(key, ins, outs, fee, 0)
<1>1. Short(left) = {} /\ ~(rest < 0) /\ tx = [plain EXCEPT !.sigs[1] = offer.sig]
  <2>1. ~(\E i \in DOMAIN list : list[i].shape = "reserve" /\ ~KeySpendable(list[i]))
    BY DEF take_offer, Refused
  <2>2. ~(Short(left) # {} \/ rest < 0)
    BY <2>1 DEF take_offer, Refused
  <2>3. tx = [Built(key, ins, paid \o TokenChange(left, owed, key)
                                   \o ChangeOut([change |-> key], rest), fee, 0)
              EXCEPT !.sigs[1] = offer.sig]
    BY <2>1, <2>2 DEF take_offer
  <2> QED BY <2>2, <2>3 DEF AllOuts
<1>2. owed \in Value /\ coin.value \in Value /\ Sat(coin) = coin.value[Native] /\ Sat(coin) \in Nat
  BY AssetsAre DEF Valued, Placed, Sat, Value
<1>3. given \in Placed /\ given.value = Of(Native, Sat(coin))
  <2> DEFINE n == Sat(coin)
  <2>1. n \in Nat
    BY <1>2
  <2> HIDE DEF n
  <2>2. Pay(key, n) \in Placed /\ Pay(key, n).value = Of(Native, n)
    BY <2>1, PayIsPlaced
  <2> QED BY <2>2 DEF n
<1>4. /\ paid \in Seq(Placed) /\ Len(paid) = 2 /\ paid[1] = offer.wanted
      /\ Total(paid, Native) = owed[Native] + Sat(coin)
      /\ \A t \in Tokens : Total(paid, t) = owed[t]
  <2> HIDE DEF given
  <2> DEFINE one == <<offer.wanted>>
             two == <<given>>
  <2>1. one \in Seq(Placed) /\ two \in Seq(Placed) /\ paid = one \o two
    BY <1>3
  <2>2. \A a \in Assets : Total(one, a) = owed[a]
    BY <1>2, TotalOfSingle DEF Value
  <2>3. Total(two, Native) = Sat(coin) /\ \A t \in Tokens : Total(two, t) = 0
    <3> DEFINE n == Sat(coin)
    <3>1. n \in Nat /\ given.value = Of(Native, n) /\ Native \in Assets
      BY <1>2, <1>3, AssetsAre
    <3> HIDE DEF n
    <3>2. \A a \in Assets : Total(<<given>>, a) = IF a = Native THEN n ELSE 0
      BY <1>3, <3>1, OneOutput
    <3> QED BY <3>2, AssetsAre DEF n
  <2>4. \A a \in Assets : Total(one \o two, a) = Total(one, a) + Total(two, a)
    <3> HIDE DEF one, two
    <3> QED BY <2>1, PlacedIsValued, TotalOfConcat
  <2>5. paid \in Seq(Placed) /\ Len(paid) = 2 /\ paid[1] = offer.wanted
    BY <1>3
  <2>6. \A a \in Assets : owed[a] \in Nat
    BY <1>2 DEF Value
  <2> HIDE DEF one, two, paid
  <2> QED BY <2>1, <2>2, <2>3, <2>4, <2>5, <2>6, AssetsAre
<1>5. /\ left \in [Tokens -> Int]
      /\ \A t \in Tokens : /\ left[t] = owed[t] - Total(list, t)
                           /\ owed[t] \in Nat /\ Total(list, t) \in Nat
  BY <1>2, OwedBalances
<1>6. rest \in Nat /\ owed[Native] \in Nat /\ Total(list, Native) \in Nat
      /\ Total(list, Native) = owed[Native] + rest + fee
  <2>1. owed[Native] \in Nat /\ Total(list, Native) \in Nat
    BY <1>2, AssetsAre, TotalsAreNat DEF Value
  <2> QED BY <1>1, <2>1
<1> HIDE DEF left, rest, paid
<1>7. /\ outs \in Seq(Placed) /\ Total(outs, Native) = Total(paid, Native) + rest
      /\ \A t \in Tokens : Total(outs, t) = Total(paid, t) + Over(left, t)
      /\ Begins(outs, paid) /\ Leaves(outs, paid, Always(key))
  <2>1. paid \in Seq(Placed) /\ left \in [Tokens -> Int] /\ rest \in Nat /\ key \in Keys
    BY <1>4, <1>5, <1>6
  <2> HIDE DEF owed
  <2> QED BY ONLY <2>1, AllOutsAre
<1> HIDE DEF outs
<1>8. /\ ins \in Seq(X) /\ Distinct(ins)
      /\ \A a \in Assets : Total(ins, a) = coin.value[a] + Total(list, a)
  <2> DEFINE one == <<coin>>
  <2>1. one \in Seq(X) /\ Distinct(one) /\ Apart(one, list)
    <3>1. \A i \in DOMAIN list : list[i] # coin
      OBVIOUS
    <3> QED BY <3>1 DEF Distinct, Apart
  <2>2. \A a \in Assets : Total(one, a) = coin.value[a]
    BY <1>2, TotalOfSingle DEF Value
  <2> HIDE DEF one
  <2>3. one \o list \in Seq(X) /\ Distinct(one \o list)
    BY <2>1, ConcatIsDistinct
  <2>4. \A a \in Assets : Total(one \o list, a) = Total(one, a) + Total(list, a)
    BY <2>1, TotalOfConcat
  <2> QED BY <2>2, <2>3, <2>4 DEF one
<1>a. ins[1] = coin /\ \A i \in DOMAIN ins : i # 1 => \E j \in DOMAIN list : ins[i] = list[j]
  <2> DEFINE one == <<coin>>
             n == Len(list)
  <2>1. one \in Seq(X) /\ Len(one) = 1 /\ one[1] = coin /\ n \in Nat /\ DOMAIN list = 1..n
    BY LenProperties
  <2> HIDE DEF one
  <2>2. /\ ins \in Seq(X) /\ Len(ins) = 1 + n
        /\ \A i \in 1..(1 + n) : ins[i] = IF i \leq 1 THEN one[i] ELSE list[i - 1]
    <3>1. /\ one \o list \in Seq(X) /\ Len(one \o list) = Len(one) + Len(list)
          /\ \A i \in 1..(Len(one) + Len(list)) :
               (one \o list)[i] = IF i \leq Len(one) THEN one[i] ELSE list[i - Len(one)]
      BY <2>1, ConcatProperties
    <3> QED BY <2>1, <3>1 DEF one
  <2>3. DOMAIN ins = 1..(1 + n)
    BY <2>2, LenProperties
  <2> HIDE DEF ins, n
  <2>4. ASSUME NEW i \in DOMAIN ins, i # 1 PROVE \E j \in DOMAIN list : ins[i] = list[j]
    <3>1. i - 1 \in 1..n /\ ~(i \leq 1) /\ i \in 1..(1 + n)
      BY <2>1, <2>3, <2>4
    <3> QED BY <2>1, <2>2, <3>1
  <2>5. ins[1] = coin
    <3>1. 1 \in 1..(1 + n) /\ 1 \leq 1
      BY <2>1
    <3> QED BY <2>1, <2>2, <3>1
  <2> QED BY <2>4, <2>5
<1> HIDE DEF ins
<1>b. \A t \in Tokens : coin.value[t] = 0
  <2>1. Truthful(coin)
    BY DEF Sincere
  <2>2. \A t \in Tokens : coin.value[t] \in Nat
    BY <1>2, AssetsAre DEF Value
  <2> QED BY <2>1, <2>2 DEF Truthful, CarriesTokens
<1>9. Exactly(ins, outs, fee)
  <2>1. Total(ins, Native) = Total(outs, Native) + fee
    <3> DEFINE bring == Total(ins, Native)
               all == Total(outs, Native)
               pays == Total(paid, Native)
               listed == Total(list, Native)
               due == owed[Native]
               sat == Sat(coin)
    <3>1. /\ bring = sat + listed /\ all = pays + rest /\ pays = due + sat /\ listed = due + rest + fee
          /\ sat \in Nat /\ rest \in Nat /\ due \in Nat /\ fee \in Nat
      BY <1>2, <1>4, <1>6, <1>7, <1>8, AssetsAre
    <3> HIDE DEF bring, all, pays, listed, due, sat
    <3>2. bring = all + fee
      BY <3>1
    <3> QED BY <3>2 DEF bring, all
  <2>2. ASSUME NEW t \in Tokens PROVE Total(ins, t) = Total(outs, t)
    <3> DEFINE all == Total(outs, t)
               bring == Total(ins, t)
               listed == Total(list, t)
               due == owed[t]
               lack == left[t]
    <3>1. /\ listed \in Nat /\ due \in Nat /\ lack = due - listed
          /\ bring = listed /\ all = due + (IF lack < 0 THEN -lack ELSE 0)
      <4>1. Total(paid, t) = owed[t]
        BY <1>4
      <4>2. Over(left, t) = IF lack < 0 THEN -lack ELSE 0
        BY DEF Over
      <4>3. coin.value[t] = 0
        BY <1>b
      <4> QED BY <1>5, <1>7, <1>8, <4>1, <4>2, <4>3, AssetsAre
    <3>2. ~(lack > 0)
      BY <1>1 DEF Short
    <3> HIDE DEF all, bring, listed, due, lack
    <3>3. bring = all
      BY <3>1, <3>2
    <3> QED BY <3>3 DEF all, bring
  <2> QED BY <2>1, <2>2 DEF Exactly
<1>10. 1 \in DOMAIN outs /\ outs[1] = offer.wanted
  BY <1>4, <1>7 DEF Begins
<1>11. tx.ins = ins /\ tx.outs = outs /\ tx.fee = fee
       /\ tx.sigs = [i \in DOMAIN ins |-> IF i = 1 THEN offer.sig ELSE [by |-> key, hash |-> "all"]]
  <2> DEFINE sigs == [i \in DOMAIN ins |-> [by |-> key, hash |-> "all"]]
  <2>1. plain.ins = ins /\ plain.outs = outs /\ plain.fee = fee /\ plain.sigs = sigs
        /\ plain = [kind |-> "built", ins |-> ins, outs |-> outs, fee |-> fee, unpriced |-> 0,
                    sigs |-> sigs]
    BY DEF Built
  <2> HIDE DEF plain
  <2>2. tx = [plain EXCEPT !.sigs = [sigs EXCEPT ![1] = offer.sig]]
    BY <1>1, <2>1
  <2>3. tx.ins = ins /\ tx.outs = outs /\ tx.fee = fee /\ tx.sigs = [sigs EXCEPT ![1] = offer.sig]
    BY <2>1, <2>2
  <2> QED BY <2>3
<1>12. /\ tx.ins \in Seq(X) /\ Distinct(tx.ins) /\ Exactly(tx.ins, tx.outs, tx.fee)
       /\ tx.outs \in Seq(Placed) /\ 1 \in DOMAIN tx.outs /\ tx.outs[1] = offer.wanted
  BY ONLY <1>7, <1>8, <1>9, <1>10, <1>11
<1>13. tx.sigs = [i \in DOMAIN tx.ins |-> IF i = 1 THEN offer.sig ELSE [by |-> key, hash |-> "all"]]
  BY ONLY <1>11
<1>14. tx.ins[1] = coin /\ \A i \in DOMAIN tx.ins : i # 1 => \E j \in DOMAIN list : tx.ins[i] = list[j]
  BY ONLY <1>a, <1>11
<1>15. /\ TakeAsks(coin.owner, key, Sat(coin), owed) \in Seq(AskSet)
       /\ Exact(tx, TakeAsks(coin.owner, key, Sat(coin), owed), key)
  <2> DEFINE giver == coin.owner
             wanted == offer.wanted
  <2>1. /\ giver \in Owners /\ giver # key /\ key \in Owners /\ wanted.owner = giver /\ coin.owner = giver
        /\ given.owner = key /\ given.value = Of(Native, Sat(coin)) /\ given \in Placed
        /\ wanted \in Placed
    BY <1>3 DEF Owners, Pay, Output
  <2>2. /\ outs \in Seq(Placed) /\ Leaves(outs, <<wanted, given>>, Always(key))
        /\ Exactly(<<coin>> \o list, outs, fee)
    BY <1>7, <1>9 DEF paid, ins
  <2>3. tx.ins = <<coin>> \o list /\ tx.outs = outs /\ tx.fee = fee
    BY <1>11 DEF ins
  <2>4. \A i \in DOMAIN list : list[i].owner = key
    OBVIOUS
  <2> DEFINE c == coin
             l == list
             k == key
             f == fee
             t0 == tx
  <2>5. /\ Valued(X) /\ c \in X /\ l \in Seq(X) /\ k \in Owners /\ giver \in Owners
        /\ giver # k /\ c.owner = giver /\ (\A t \in Tokens : c.value[t] = 0)
        /\ (\A i \in DOMAIN l : l[i].owner = k)
        /\ wanted \in Placed /\ wanted.owner = giver
        /\ given \in Placed /\ given.owner = k /\ given.value = Of(Native, Sat(c))
        /\ outs \in Seq(Placed) /\ Leaves(outs, <<wanted, given>>, Always(k))
        /\ Exactly(<<c>> \o l, outs, f)
        /\ t0.ins = <<c>> \o l /\ t0.outs = outs /\ t0.fee = f
    BY <1>b, <2>1, <2>2, <2>3, <2>4
  <2> HIDE DEF giver, wanted, given, c, l, k, f, t0
  <2>6. /\ TakeAsks(giver, k, Sat(c), wanted.value) \in Seq(AskSet)
        /\ Exact(t0, TakeAsks(giver, k, Sat(c), wanted.value), k)
    BY ONLY <2>5, TakeIsExact
  <2> QED BY <2>6 DEF giver, wanted, c, k, t0
<1> QED BY ONLY <1>12, <1>13, <1>14, <1>15 DEF Taken

-----------------------------------------------------------------------------
(***************************************************************************)
(* What a caller hands over                                                *)
(***************************************************************************)
LEMMA ListsAre ==
  ASSUME NEW S, IsFiniteSet(S), NEW X, S \subseteq X, NEW list \in SetToAllKPermutations(S)
  PROVE  list \in Seq(X) /\ Distinct(list) /\ \A i \in DOMAIN list : list[i] \in S
<1>1. PICK s \in SUBSET S : list \in SetToSeqs(s)
  BY DEF SetToAllKPermutations
<1> DEFINE n == Cardinality(s)
<1>2. n \in Nat
  BY FS_Subset, FS_CardinalityType
<1>3. list \in [1..n -> s] /\ \A i, j \in 1..n : i # j => list[i] # list[j]
  BY <1>1 DEF SetToSeqs
<1> HIDE DEF n
<1>4. list = [i \in 1..n |-> list[i]] /\ \A i \in 1..n : list[i] \in S /\ list[i] \in X
  BY <1>3
<1>5. [i \in 1..n |-> list[i]] \in Seq(X)
  BY <1>2, <1>4, IsASeq
<1> QED BY <1>3, <1>4, <1>5 DEF Distinct

-----------------------------------------------------------------------------
(***************************************************************************)
(* The inductive invariant.  S stands for the coins, O for the offers.     *)
(***************************************************************************)
\* Coins are told apart by their ids, those of later transactions are free, and
\* somebody can spend what a transaction made, unless the protocol holds it.
Chained(S, n) ==
  /\ IsFiniteSet(S) /\ Valued(S) /\ Sincere(S) /\ n \in Nat
  /\ \A c \in S : c.id[1] \in 0..n
  /\ \A c, d \in S : c.id = d.id => c = d
  /\ \A c \in S : c.id[1] > 0 /\ c.owner # Protocol => Movable(c)

\* What was signed remains signed, pays for what it promises, and moves what
\* was asked for.
Sound(h, S) ==
  /\ h.tx.ins \in Seq(S) /\ Distinct(h.tx.ins)
  /\ h.tx.outs \in Seq(Placed)
  /\ Exactly(h.tx.ins, h.tx.outs, h.tx.fee)
  /\ Delivers(h.tx, h.asks, h.payer)
  /\ \A i \in DOMAIN h.tx.ins : SignatureHolds(h, i)

\* The maker owns the coin an offer spends, and signed for what it wants.
SignedOffer(o, S) ==
  /\ o.wanted \in Placed /\ o.wanted.owner \in Keys
  /\ o.sig = SigSingle(o.wanted.owner, o.wanted, o.expiry)
  /\ \E c \in S : c.id = o.spends /\ c.owner = o.wanted.owner /\ c.shape = "offer"

\* What a taker has read is another's offer, and the coin it spends.
ReadBy(k, r, O, S) ==
  /\ r = [offer |-> r.offer, terms |-> r.terms, tip |-> r.tip]
  /\ r.offer \in O /\ r.offer.wanted.owner # k
  /\ r.terms # None => /\ r.terms.coin \in S /\ r.terms.coin.id = r.offer.spends
                       /\ r.terms.offered = Sat(r.terms.coin)

ChainInv   == Chained(coins, accepted)
SpentInv   == \A s \in spent : \E c \in coins : c.id = s
HeldInv    == DOMAIN held = Keys /\ \A k \in Keys : held[k] # None => Sound(held[k], coins)
OffersInv  == \A o \in offers : SignedOffer(o, coins)
ReadingInv ==
  DOMAIN reading = Keys /\ \A k \in Keys : reading[k] # None => ReadBy(k, reading[k], offers, coins)

IInv == ChainInv /\ SpentInv /\ HeldInv /\ OffersInv /\ ReadingInv

-----------------------------------------------------------------------------
(***************************************************************************)
(* More coins, more offers                                                 *)
(***************************************************************************)
LEMMA SoundGrows ==
  ASSUME NEW S, NEW T, S \subseteq T, NEW h, Sound(h, S)
  PROVE  Sound(h, T)
<1>1. h.tx.ins \in Seq(T)
  BY SeqGrows DEF Sound
<1> QED BY <1>1 DEF Sound

LEMMA OfferGrows ==
  ASSUME NEW S, NEW T, S \subseteq T, NEW o, SignedOffer(o, S)
  PROVE  SignedOffer(o, T)
BY DEF SignedOffer

LEMMA ReadGrows ==
  ASSUME NEW S, NEW T, S \subseteq T, NEW O, NEW P, O \subseteq P, NEW k, NEW r, ReadBy(k, r, O, S)
  PROVE  ReadBy(k, r, P, T)
BY DEF ReadBy

\* The coins a transaction's outputs become.
Made(n, outs) ==
  {[id |-> <<n, i>>, shape |-> outs[i].shape, owner |-> outs[i].owner,
    value |-> outs[i].value] : i \in DOMAIN outs}

LEMMA ChainGrows ==
  ASSUME NEW S, NEW n, Chained(S, n), NEW outs \in Seq(Placed)
  PROVE  Chained(S \cup Made(n + 1, outs), n + 1)
<1> DEFINE New == Made(n + 1, outs)
           m == n + 1
           All == S \cup New
<1>1. n \in Nat /\ m \in Nat /\ m > n /\ IsFiniteSet(S) /\ Valued(S)
  BY DEF Chained
<1>2. \A i \in DOMAIN outs : outs[i] \in Placed
  BY LenProperties, ElementOfSeq
<1>3. IsFiniteSet(New)
  <2> DEFINE D == DOMAIN outs
             coin(i) == [id |-> <<m, i>>, shape |-> outs[i].shape, owner |-> outs[i].owner,
                         value |-> outs[i].value]
             f == [i \in D |-> coin(i)]
             size == Len(outs)
  <2>1. size \in Nat /\ D = 1..size
    BY LenProperties
  <2>2. IsFiniteSet(1..size)
    <3> HIDE DEF size
    <3> QED BY <2>1, FS_Interval
  <2>3. New = {coin(i) : i \in D}
    BY DEF Made
  <2> HIDE DEF New, coin, D
  <2>4. f \in [D -> New] /\ \A c \in New : \E i \in D : f[i] = c
    BY <2>3
  <2>5. f \in Surjection(D, New)
    BY <2>4 DEF Surjection
  <2> HIDE DEF f
  <2> QED BY <2>1, <2>2, <2>5, FS_Surjection
<1>4. ASSUME NEW c \in New
      PROVE  /\ c.value \in Value /\ c.id[1] = m /\ Truthful(c)
             /\ c.owner # Protocol => Movable(c)
             /\ \A d \in New : c.id = d.id => c = d
  <2>1. PICK i \in DOMAIN outs :
          c = [id |-> <<m, i>>, shape |-> outs[i].shape, owner |-> outs[i].owner,
               value |-> outs[i].value]
    BY DEF Made
  <2>2. c.value \in Value /\ c.id[1] = m /\ c.id[2] = i
    BY <1>2, <2>1 DEF Placed
  <2>3. (c.owner # Protocol => Movable(c)) /\ Truthful(c)
    <3> DEFINE o == outs[i]
    <3>1. (o.owner = Protocol \/ Movable(o)) /\ Truthful(o)
      BY <1>2 DEF Placed
    <3>2. c.owner = o.owner /\ c.shape = o.shape /\ c.value = o.value
      BY <2>1
    <3> HIDE DEF o
    <3>3. c.owner # Protocol => Movable(c)
      BY ONLY <3>1, <3>2 DEF Movable, KeySpendable, IsPaymentTo, HoldsOnly, Sat
    <3>4. Truthful(c)
      BY ONLY <3>1, <3>2 DEF Truthful, CarriesTokens
    <3> QED BY <3>3, <3>4
  <2>4. ASSUME NEW d \in New, c.id = d.id PROVE c = d
    <3>1. PICK j \in DOMAIN outs :
            d = [id |-> <<m, j>>, shape |-> outs[j].shape, owner |-> outs[j].owner,
                 value |-> outs[j].value]
      BY DEF Made
    <3>2. d.id[2] = j
      BY <3>1
    <3> QED BY <2>1, <2>2, <2>4, <3>1, <3>2
  <2> QED BY <2>2, <2>3, <2>4
<1> HIDE DEF New
<1>5. IsFiniteSet(All)
  BY <1>1, <1>3, FS_Union
<1>6. Valued(All) /\ Sincere(All)
  BY <1>1, <1>4 DEF Valued, Sincere, Chained
<1>7. ASSUME NEW c \in S
      PROVE  c.id[1] \in Int /\ c.id[1] \in 0..n /\ c.id[1] # m
  BY <1>1 DEF Chained
<1>8. \A c \in All : c.id[1] \in 0..m
  BY <1>1, <1>4, <1>7
<1>9. ASSUME NEW c \in All, NEW d \in All, c.id = d.id PROVE c = d
  <2>1. CASE c \in S /\ d \in S
    BY <1>9, <2>1 DEF Chained
  <2>2. CASE c \in New /\ d \in New
    BY <1>4, <1>9, <2>2
  <2>3. CASE c \in S /\ d \in New
    BY <1>4, <1>7, <1>9, <2>3
  <2>4. CASE c \in New /\ d \in S
    BY <1>4, <1>7, <1>9, <2>4
  <2> QED BY <2>1, <2>2, <2>3, <2>4
<1>10. ASSUME NEW c \in All, c.id[1] > 0, c.owner # Protocol PROVE Movable(c)
  BY <1>4, <1>10 DEF Chained
<1> QED BY <1>1, <1>5, <1>6, <1>8, <1>9, <1>10 DEF Chained, New

-----------------------------------------------------------------------------
(***************************************************************************)
(* What a key holder prepares                                              *)
(***************************************************************************)
Signable(k) == {c \in coins : MaySign(k, c)}
Owning(k)   == {k} \cup {i \in Identities : Authority[i] = k}

LEMMA SignableAre ==
  ASSUME IInv, NEW k
  PROVE  /\ Signable(k) \subseteq coins /\ Valued(Signable(k)) /\ Valued(coins)
         /\ Sincere(Signable(k)) /\ Sincere(coins)
BY DEF IInv, ChainInv, Chained, Signable, Valued, Sincere

\* The coins an owner hands over, those of an identity by the hand of its key.
LEMMA HandedOver ==
  ASSUME IInv, NEW k \in Keys, NEW owner \in Owning(k), NEW shapes, NEW list \in Lists(owner, shapes)
  PROVE  /\ list \in Seq(Signable(k)) /\ Distinct(list)
         /\ \A i \in DOMAIN list : list[i].owner = owner /\ list[i].shape \in shapes
<1> DEFINE S == {c \in Unspent : c.owner = owner /\ c.shape \in shapes}
           X == Signable(k)
<1>1. S \subseteq X /\ S \subseteq coins /\ \A c \in S : c.owner = owner /\ c.shape \in shapes
  BY DEF Unspent, Signable, MaySign, Owning
<1>2. IsFiniteSet(S)
  <2> HIDE DEF S
  <2> QED BY <1>1, FS_Subset DEF IInv, ChainInv, Chained
<1>3. list \in SetToAllKPermutations(S)
  BY DEF Lists
<1> HIDE DEF S, X
<1>4. list \in Seq(X) /\ Distinct(list) /\ \A i \in DOMAIN list : list[i] \in S
  BY <1>1, <1>2, <1>3, ListsAre
<1> QED BY <1>1, <1>4 DEF X

\* Coins of different shapes are different coins.
LEMMA ShapesApart ==
  ASSUME NEW s, NEW t, NEW A, NEW B, A \cap B = {},
         \A i \in DOMAIN s : s[i].shape \in A, \A i \in DOMAIN t : t[i].shape \in B
  PROVE  Apart(s, t)
BY DEF Apart

LEMMA WholeIsSound ==
  ASSUME IInv, NEW k, NEW tx, Good(tx, k, Signable(k)), NEW h, h.tx = tx,
         Delivers(tx, h.asks, h.payer)
  PROVE  Sound(h, coins)
<1>1. tx.ins \in Seq(coins)
  BY SignableAre, SeqGrows DEF Good
<1>2. \A i \in DOMAIN tx.ins : SignatureHolds(h, i)
  <2> SUFFICES ASSUME NEW i \in DOMAIN tx.ins PROVE SignatureHolds(h, i)
    OBVIOUS
  <2>1. tx.ins \in Seq(Signable(k)) /\ tx.sigs[i] = [by |-> k, hash |-> "all"]
    BY DEF Good
  <2>2. tx.ins[i] \in Signable(k)
    BY <2>1, LenProperties, ElementOfSeq
  <2>3. tx.sigs[i].by = k /\ tx.sigs[i].hash # "single"
    BY <2>1
  <2> QED BY <2>2, <2>3 DEF SignatureHolds, Signable
<1> QED BY <1>1, <1>2 DEF Sound, Good

\* To keep what was built in accordance with the invariant, is in accordance
\* with it.
LEMMA HoldKeeps ==
  ASSUME IInv, NEW k \in Keys, NEW tx, NEW asks, NEW payer,
         tx.kind = "built" => Good(tx, k, Signable(k)) /\ Delivers(tx, asks, payer),
         NEW expiry, Hold(k, tx, asks, payer, expiry)
  PROVE  IInv'
<1> DEFINE h == [tx |-> tx, asks |-> asks, payer |-> payer, expiry |-> expiry]
<1>1. Good(tx, k, Signable(k)) /\ Delivers(tx, asks, payer) /\ held' = [held EXCEPT ![k] = h]
      /\ coins' = coins /\ spent' = spent /\ accepted' = accepted /\ offers' = offers /\ reading' = reading
  BY DEF Hold, chain
<1>2. h.tx = tx /\ h.asks = asks /\ h.payer = payer
  OBVIOUS
<1> HIDE DEF h
<1>3. Sound(h, coins)
  BY <1>1, <1>2, WholeIsSound
<1>4. HeldInv'
  <2>1. DOMAIN held' = Keys
    BY <1>1 DEF IInv, HeldInv
  <2>2. ASSUME NEW j \in Keys, held'[j] # None PROVE Sound(held'[j], coins)
    <3>1. held'[j] = IF j = k THEN h ELSE held[j]
      BY <1>1 DEF IInv, HeldInv
    <3> QED BY <1>3, <2>2, <3>1 DEF IInv, HeldInv
  <2> QED BY <1>1, <2>1, <2>2 DEF HeldInv
<1>5. ChainInv' /\ SpentInv' /\ OffersInv' /\ ReadingInv'
  BY <1>1 DEF IInv, ChainInv, SpentInv, OffersInv, ReadingInv
<1> QED BY <1>4, <1>5 DEF IInv

LEMMA OrdersAre ==
  ASSUME NEW order \in Orders
  PROVE  order \in Recipients
BY LedgerAssumption DEF Recipients

LEMMA SendKeeps ==
  ASSUME IInv, NEW k \in Keys, Send(k)
  PROVE  IInv'
<1>1. PICK order \in Orders, list \in Lists(k, {"p2pkh"}) :
        InNative(order)
        /\ Hold(k, plan_transparent_send(k, list, order, k), AsksOf(k, order), k, Expiry)
  BY DEF Send
<1> DEFINE X == Signable(k)
           tx == plan_transparent_send(k, list, order, k)
           asks == AsksOf(k, order)
<1>2. list \in Seq(X) /\ Distinct(list) /\ \A i \in DOMAIN list : list[i].owner = k
  BY HandedOver DEF Owning
<1>3. Valued(X) /\ Sincere(X) /\ order \in Recipients
  BY SignableAre, OrdersAre
<1> HIDE DEF X
<1>4. tx.kind = "built" => Good(tx, k, X) /\ Delivers(tx, asks, k)
  <2> DEFINE paid == PaymentsOf(order)
             p == Always(k)
  <2>1. paid \in Seq(Placed) /\ Means(asks, paid, p) /\ k = p[Native]
    BY <1>1, <1>3, PaymentsMean, AssetsAre DEF Always
  <2> HIDE DEF tx, asks
  <2> SUFFICES ASSUME tx.kind = "built" PROVE Good(tx, k, X) /\ Delivers(tx, asks, k)
    OBVIOUS
  <2>2. Good(tx, k, X) /\ Fair(tx, paid, p)
    BY <1>2, <1>3, TransparentSendIsGood DEF tx
  <2> HIDE DEF paid, p
  <2> QED BY <1>3, <2>1, <2>2, FairDelivers
<1> HIDE DEF tx, asks
<1> QED BY <1>1, <1>4, HoldKeeps DEF tx, asks, X

LEMMA SendTokenKeeps ==
  ASSUME IInv, NEW k \in Keys, SendToken(k)
  PROVE  IInv'
<1>1. PICK order \in Orders, list \in Lists(k, {"p2pkh", "reserve"}) :
        InTokens(order)
        /\ Hold(k, build_token_send(k, list, order, k), AsksOf(k, order), k, Expiry)
  BY DEF SendToken
<1> DEFINE X == Signable(k)
           tx == build_token_send(k, list, order, k)
           asks == AsksOf(k, order)
<1>2. list \in Seq(X) /\ Distinct(list) /\ \A i \in DOMAIN list : list[i].owner = k
  BY HandedOver DEF Owning
<1>3. Valued(X) /\ Sincere(X) /\ order \in Recipients
  BY SignableAre, OrdersAre
<1> HIDE DEF X
<1>4. tx.kind = "built" => Good(tx, k, X) /\ Delivers(tx, asks, k)
  <2> DEFINE paid == ReservesOf(order)
             p == Always(k)
  <2>1. k = p[Native]
    BY AssetsAre DEF Always
  <2> SUFFICES ASSUME tx.kind = "built" PROVE Good(tx, k, X) /\ Delivers(tx, asks, k)
    OBVIOUS
  <2>2. \A i \in DOMAIN order : order[i].amount # 0
    BY DEF build_token_send, Refused
  <2>3. paid \in Seq(Placed) /\ Means(asks, paid, p)
    BY <1>1, <1>3, <2>2, ReservesMean
  <2> HIDE DEF tx, asks
  <2>4. Good(tx, k, X) /\ Fair(tx, paid, p)
    BY <1>1, <1>2, <1>3, TokenSendIsGood DEF tx
  <2> HIDE DEF paid, p
  <2> QED BY <1>3, <2>1, <2>3, <2>4, FairDelivers
<1> HIDE DEF tx, asks
<1> QED BY <1>1, <1>4, HoldKeeps DEF tx, asks, X

LEMMA SpendIdentityKeeps ==
  ASSUME IInv, NEW k \in Keys, NEW who \in Identities, SpendIdentity(k, who)
  PROVE  IInv'
<1>1. PICK order \in {o \in Orders : InNative(o)}, list \in Lists(who, {"identity", "reserve"}) :
        Hold(k, build_identity_spend(k, who, list, order), AsksOf(who, order), who, Expiry)
  BY DEF SpendIdentity
<1> DEFINE X == Signable(k)
           tx == build_identity_spend(k, who, list, order)
           asks == AsksOf(who, order)
<1>2. list \in Seq(X) /\ Distinct(list)
  BY HandedOver DEF Owning, SpendIdentity
<1>3. Valued(X) /\ Sincere(X) /\ order \in Recipients /\ InNative(order)
  BY SignableAre, OrdersAre
<1> HIDE DEF X
<1>4. tx.kind = "built" => Good(tx, k, X) /\ Delivers(tx, asks, who)
  <2> DEFINE paid == PaymentsOf(order)
             p == Always(who)
  <2>1. paid \in Seq(Placed) /\ Means(asks, paid, p) /\ who = p[Native]
    BY <1>3, PaymentsMean, AssetsAre DEF Always
  <2> HIDE DEF tx, asks
  <2> SUFFICES ASSUME tx.kind = "built" PROVE Good(tx, k, X) /\ Delivers(tx, asks, who)
    OBVIOUS
  <2>2. Good(tx, k, X) /\ Fair(tx, paid, p)
    BY <1>2, <1>3, IdentitySpendIsGood DEF tx
  <2> HIDE DEF paid, p
  <2> QED BY <1>3, <2>1, <2>2, FairDelivers
<1> HIDE DEF tx, asks
<1> QED BY <1>1, <1>4, HoldKeeps DEF tx, asks, X

LEMMA SpendIdentityTokenKeeps ==
  ASSUME IInv, NEW k \in Keys, NEW who \in Identities, SpendIdentityToken(k, who)
  PROVE  IInv'
<1>1. PICK order \in Orders, list \in Lists(who, {"identity", "reserve"}),
           funding \in Lists(k, {"p2pkh"}) :
        /\ InTokens(order) /\ Len(order) = 1
        /\ Hold(k, build_identity_token_spend(k, who, order[1].asset, list, funding,
                                              order[1].to, order[1].amount, k),
                AsksOf(who, order), k, Expiry)
  BY DEF SpendIdentityToken
<1> DEFINE X == Signable(k)
           token == order[1].asset
           to == order[1].to
           amount == order[1].amount
           tx == build_identity_token_spend(k, who, token, list, funding, to, amount, k)
           asks == AsksOf(who, order)
<1>2. /\ list \in Seq(X) /\ Distinct(list)
      /\ \A i \in DOMAIN list : list[i].shape \in {"identity", "reserve"}
  BY HandedOver DEF Owning, SpendIdentityToken
<1>3. /\ funding \in Seq(X) /\ Distinct(funding)
      /\ \A i \in DOMAIN funding : funding[i].owner = k /\ funding[i].shape \in {"p2pkh"}
  BY HandedOver DEF Owning
<1>4. Apart(list, funding)
  <2>1. {"identity", "reserve"} \cap {"p2pkh"} = {}
    OBVIOUS
  <2> QED BY ONLY <1>2, <1>3, <2>1, ShapesApart
<1>5. /\ Valued(X) /\ Sincere(X) /\ token \in Tokens /\ to \in Keys \cup Identities /\ amount \in Nat
      /\ order \in Recipients
  <2>1. order \in Recipients /\ Valued(X) /\ Sincere(X)
    BY SignableAre, OrdersAre
  <2>2. 1 \in DOMAIN order
    BY <1>1, <2>1, RecipientsAre
  <2> QED BY <1>1, <2>1, <2>2, RecipientsAre DEF InTokens
<1> DEFINE paid == <<Reserve(to, token, amount)>>
           p == Payer(k, who)
<1>a. amount # 0 => paid \in Seq(Placed) /\ Means(asks, paid, p)
  <2> SUFFICES ASSUME amount # 0 PROVE paid \in Seq(Placed) /\ Means(asks, paid, p)
    OBVIOUS
  <2>1. DOMAIN order = {1}
    BY <1>1, <1>5, RecipientsAre
  <2>2. paid = ReservesOf(order)
    <3>1. DOMAIN paid = {1} /\ paid[1] = Reserve(to, token, amount) /\ paid = [i \in {1} |-> paid[i]]
      OBVIOUS
    <3>2. ReservesOf(order) = [i \in {1} |-> Reserve(order[i].to, order[i].asset, order[i].amount)]
      BY <2>1 DEF ReservesOf
    <3> QED BY <3>1, <3>2
  <2>3. \A i \in DOMAIN order : order[i].amount # 0
    BY <2>1
  <2>4. paid \in Seq(Placed) /\ Means(asks, paid, Always(who))
    <3> HIDE DEF paid
    <3>1. ReservesOf(order) \in Seq(Placed) /\ Means(AsksOf(who, order), ReservesOf(order), Always(who))
      BY <1>1, <1>5, <2>3, ReservesMean
    <3> QED BY <2>2, <3>1
  <2>5. Total(paid, Native) = 0
    <3> DEFINE o == Reserve(to, token, amount)
    <3>1. o.value = Of(token, amount) /\ token \in Assets /\ o \in Placed /\ amount \in Nat
          /\ Native \in Assets /\ token # Native
      BY <1>5, ReserveIsPlaced, AssetsAre DEF Reserve, Output
    <3> HIDE DEF o, token, to, amount
    <3>2. \A a \in Assets : Total(<<o>>, a) = IF a = token THEN amount ELSE 0
      BY <3>1, OneOutput
    <3> QED BY <3>1, <3>2 DEF o
  <2> HIDE DEF paid, asks
  <2> QED BY <2>4, <2>5, MeansElsewhere
<1>b. k = p[Native]
  BY AssetsAre DEF Payer
<1> HIDE DEF X, token, to, amount
<1>6. tx.kind = "built" => Good(tx, k, X) /\ Delivers(tx, asks, k)
  <2> SUFFICES ASSUME tx.kind = "built" PROVE Good(tx, k, X) /\ Delivers(tx, asks, k)
    OBVIOUS
  <2>a. amount # 0
    BY DEF build_identity_token_spend, Refused
  <2> HIDE DEF tx, asks, p
  <2>1. list \in Seq(X) /\ Distinct(list) /\ funding \in Seq(X) /\ Distinct(funding)
    BY ONLY <1>2, <1>3
  <2>2. tx = build_identity_token_spend(k, who, token, list, funding, to, amount, k)
    BY DEF tx
  <2>3. \A i \in DOMAIN funding : funding[i].owner = k /\ funding[i].shape = "p2pkh"
    BY <1>3
  <2>4. Good(tx, k, X) /\ Fair(tx, paid, p)
    BY ONLY <1>4, <1>5, <2>1, <2>2, <2>3, tx.kind = "built", k \in Keys, who \in Identities,
            IdentityTokenSpendIsGood DEF paid, p
  <2> HIDE DEF paid
  <2> QED BY <1>5, <1>a, <1>b, <2>a, <2>4, FairDelivers
<1>7. Hold(k, tx, asks, k, Expiry)
  BY <1>1 DEF token, to, amount
<1> HIDE DEF tx, asks
<1> QED BY <1>6, <1>7, HoldKeeps DEF X

LEMMA TransfersAre ==
  ASSUME FeesAreNative, NEW transfer \in Transfers
  PROVE  IsTransfer(transfer)
<1>1. /\ transfer.source \in Assets /\ transfer.amount \in Nat /\ transfer.fee \in Nat
      /\ Minting(transfer) => Minted(transfer) \in Tokens
  BY LedgerAssumption
<1>2. transfer.fee_currency = Native
  BY DEF FeesAreNative
<1> QED BY <1>1, <1>2 DEF IsTransfer

LEMMA ConvertKeeps ==
  ASSUME IInv, FeesAreNative, NEW k \in Keys, Convert(k)
  PROVE  IInv'
<1>1. PICK transfer \in Transfers : \E holder \in Holders(k, transfer) :
        \E list \in Lists(holder, {"identity", "reserve"}), utxos \in Lists(k, {"p2pkh"}) :
          Hold(k, build_conversion_transaction(
                    k, transfer, utxos,
                    IF Minting(transfer) THEN <<>> ELSE list,
                    IF Minting(transfer) THEN list ELSE <<>>, k),
               AsksOfTransfer(transfer, holder, IF Minting(transfer) THEN holder ELSE k),
               IF Minting(transfer) THEN holder ELSE k, Expiry)
  BY DEF Convert
<1>a. PICK holder \in Holders(k, transfer) :
        \E list \in Lists(holder, {"identity", "reserve"}), utxos \in Lists(k, {"p2pkh"}) :
          Hold(k, build_conversion_transaction(
                    k, transfer, utxos,
                    IF Minting(transfer) THEN <<>> ELSE list,
                    IF Minting(transfer) THEN list ELSE <<>>, k),
               AsksOfTransfer(transfer, holder, IF Minting(transfer) THEN holder ELSE k),
               IF Minting(transfer) THEN holder ELSE k, Expiry)
  BY <1>1
<1>b. PICK list \in Lists(holder, {"identity", "reserve"}), utxos \in Lists(k, {"p2pkh"}) :
        Hold(k, build_conversion_transaction(
                  k, transfer, utxos,
                  IF Minting(transfer) THEN <<>> ELSE list,
                  IF Minting(transfer) THEN list ELSE <<>>, k),
             AsksOfTransfer(transfer, holder, IF Minting(transfer) THEN holder ELSE k),
             IF Minting(transfer) THEN holder ELSE k, Expiry)
  BY <1>a
<1> DEFINE X == Signable(k)
           tokens == IF Minting(transfer) THEN <<>> ELSE list
           funding == IF Minting(transfer) THEN list ELSE <<>>
           tx == build_conversion_transaction(k, transfer, utxos, tokens, funding, k)
           payer == IF Minting(transfer) THEN holder ELSE k
           asks == AsksOfTransfer(transfer, holder, payer)
           paid == <<TransferOut(transfer)>>
           p == Payer(payer, holder)
<1>2. /\ list \in Seq(X) /\ Distinct(list)
      /\ \A i \in DOMAIN list : list[i].owner = holder /\ list[i].shape \in {"identity", "reserve"}
  <2>1. holder \in Owning(k)
    BY DEF Holders, Owning
  <2> QED BY <2>1, HandedOver
<1>3. /\ utxos \in Seq(X) /\ Distinct(utxos)
      /\ \A i \in DOMAIN utxos : utxos[i].owner = k /\ utxos[i].shape \in {"p2pkh"}
  BY HandedOver DEF Owning
<1>4. Apart(list, utxos)
  <2>1. {"identity", "reserve"} \cap {"p2pkh"} = {}
    OBVIOUS
  <2> QED BY ONLY <1>2, <1>3, <2>1, ShapesApart
<1>5. Valued(X) /\ Sincere(X) /\ IsTransfer(transfer)
  BY SignableAre, TransfersAre
<1>c. /\ holder \in {k} \cup Identities
      /\ Minting(transfer) => holder = Issuer[Minted(transfer)]
      /\ ~Minting(transfer) /\ transfer.source = Native => holder = k
  BY DEF Holders
<1>d. paid \in Seq(Placed) /\ Means(asks, paid, p) /\ payer = p[Native]
  <2>1. holder \in Owners /\ payer \in Owners
    BY <1>c DEF Owners
  <2>2. ~Minting(transfer) /\ transfer.source = Native => holder = payer
    BY <1>c
  <2>3. payer = p[Native]
    BY AssetsAre DEF Payer
  <2> HIDE DEF payer
  <2>4. paid \in Seq(Placed) /\ Means(AsksOfTransfer(transfer, holder, payer), paid, p)
    BY ONLY <1>5, <2>1, <2>2, TransferMeans
  <2> QED BY <2>3, <2>4
<1> HIDE DEF X
<1>6. /\ tokens \in Seq(X) /\ Distinct(tokens) /\ Apart(tokens, utxos)
      /\ funding \in Seq(X) /\ Distinct(funding) /\ utxos \in Seq(X) /\ Distinct(utxos)
  <2>1. <<>> \in Seq(X) /\ Distinct(<<>>) /\ Apart(<<>>, utxos)
    BY ONLY <1>3, EmptyIsApart
  <2>2. CASE Minting(transfer)
    BY ONLY <1>2, <1>3, <2>1, <2>2
  <2>3. CASE ~Minting(transfer)
    BY ONLY <1>2, <1>3, <1>4, <2>1, <2>3
  <2> QED BY <2>2, <2>3
<1> HIDE DEF tokens, funding
<1>7. tx.kind = "built" => Good(tx, k, X) /\ Delivers(tx, asks, payer)
  <2> HIDE DEF tx, asks
  <2> SUFFICES ASSUME tx.kind = "built" PROVE Good(tx, k, X) /\ Delivers(tx, asks, payer)
    OBVIOUS
  <2>1. tx = build_conversion_transaction(k, transfer, utxos, tokens, funding, k)
    BY DEF tx
  <2>2. /\ \A i \in DOMAIN utxos : utxos[i].owner = k /\ utxos[i].shape = "p2pkh"
        /\ \A i \in DOMAIN tokens : tokens[i].owner = holder
    BY <1>2, <1>3 DEF tokens
  <2>3. Good(tx, k, X) /\ Fair(tx, paid, p)
    BY ONLY <1>5, <1>6, <1>c, <2>1, <2>2, tx.kind = "built", k \in Keys, ConversionIsGood
       DEF paid, p, payer
  <2> HIDE DEF paid, p, payer
  <2> QED BY <1>5, <1>d, <2>3, FairDelivers
<1>8. Hold(k, tx, asks, payer, Expiry)
  BY <1>b DEF tokens, funding
<1> HIDE DEF tx, asks, payer
<1> QED BY <1>7, <1>8, HoldKeeps DEF X

LEMMA FundOfferKeeps ==
  ASSUME IInv, NEW k \in Keys, FundOffer(k)
  PROVE  IInv'
<1>1. PICK amount \in OfferAmounts, list \in Lists(k, {"p2pkh"}) :
        Hold(k, fund_offer(k, list, amount, k), <<>>, k, Expiry)
  BY DEF FundOffer
<1> DEFINE X == Signable(k)
           tx == fund_offer(k, list, amount, k)
<1>2. /\ list \in Seq(X) /\ Distinct(list)
      /\ \A i \in DOMAIN list : list[i].owner = k /\ list[i].shape = "p2pkh"
  BY HandedOver DEF Owning
<1>3. Valued(X) /\ Sincere(X) /\ amount \in Nat
  BY SignableAre, LedgerAssumption
<1> HIDE DEF X
<1>4. tx.kind = "built" => Good(tx, k, X) /\ Delivers(tx, <<>>, k)
  <2> DEFINE p == Always(k)
  <2>1. <<>> \in Seq(Placed) /\ Means(<<>>, <<>>, p) /\ k = p[Native]
    BY NothingMeans, NoOutputs, AssetsAre DEF Always
  <2> HIDE DEF tx
  <2> SUFFICES ASSUME tx.kind = "built" PROVE Good(tx, k, X) /\ Delivers(tx, <<>>, k)
    OBVIOUS
  <2>2. Good(tx, k, X) /\ Fair(tx, <<>>, p)
    BY <1>2, <1>3, FundOfferIsGood DEF tx
  <2> HIDE DEF p
  <2> QED BY <1>3, <2>1, <2>2, FairDelivers
<1> HIDE DEF tx
<1> QED BY <1>1, <1>4, HoldKeeps DEF tx, X

LEMMA ReclaimKeeps ==
  ASSUME IInv, NEW k \in Keys, Reclaim(k)
  PROVE  IInv'
<1>1. PICK coin \in {c \in Unspent : c.owner = k /\ c.shape = "offer"} :
        /\ Sat(coin) > MIN_FEE
        /\ Hold(k, partial_transaction(k, <<coin>>, <<Pay(k, Sat(coin) - MIN_FEE)>>),
                <<>>, k, Expiry)
  BY DEF Reclaim
<1> DEFINE X == Signable(k)
           tx == partial_transaction(k, <<coin>>, <<Pay(k, Sat(coin) - MIN_FEE)>>)
<1>2. Valued(X) /\ Sincere(X) /\ coin \in X
  BY SignableAre DEF Unspent, Signable, MaySign
<1> HIDE DEF X
<1>3. tx.kind = "built" => Good(tx, k, X) /\ Delivers(tx, <<>>, k)
  <2> DEFINE p == Always(k)
  <2>1. <<>> \in Seq(Placed) /\ Means(<<>>, <<>>, p) /\ k = p[Native]
    BY NothingMeans, NoOutputs, AssetsAre DEF Always
  <2> HIDE DEF tx
  <2> SUFFICES ASSUME tx.kind = "built" PROVE Good(tx, k, X) /\ Delivers(tx, <<>>, k)
    OBVIOUS
  <2>2. Good(tx, k, X) /\ Fair(tx, <<>>, p)
    BY <1>1, <1>2, ReclaimIsGood DEF tx
  <2> HIDE DEF p
  <2> QED BY <1>2, <2>1, <2>2, FairDelivers
<1> HIDE DEF tx
<1> QED BY <1>1, <1>3, HoldKeeps DEF tx, X

\* The maker's own output is among the placed ones.
LEMMA MakeOfferKeeps ==
  ASSUME IInv, NEW k \in Keys, MakeOffer(k)
  PROVE  IInv'
<1> DEFINE Out(w) == IF w.asset = Native THEN Pay(k, w.amount) ELSE Reserve(k, w.asset, w.amount)
<1>1. PICK coin \in Unspent, w \in Wanted, expiry \in {0, Expiry} :
        /\ coin.owner = k
        /\ make_offer(k, coin, Out(w), expiry).kind = "offer"
        /\ offers' = offers \cup {make_offer(k, coin, Out(w), expiry)}
  BY DEF MakeOffer
<1> DEFINE out == Out(w)
           o == make_offer(k, coin, out, expiry)
<1>2. out \in Placed /\ out.owner = k
  <2> DEFINE n == w.amount
             a == w.asset
  <2>1. n \in Nat /\ a \in Assets
    BY LedgerAssumption
  <2> HIDE DEF n, a
  <2>2. CASE a = Native
    <3>1. Pay(k, n) \in Placed
      BY <2>1, PayIsPlaced
    <3>2. Pay(k, n).owner = k
      BY DEF Pay, Output
    <3> QED BY <2>2, <3>1, <3>2 DEF n, a
  <2>3. CASE a # Native
    <3>1. a \in Tokens
      BY <2>1, <2>3 DEF Assets
    <3>2. Reserve(k, a, n) \in Placed
      BY <2>1, <3>1, ReserveIsPlaced
    <3>3. Reserve(k, a, n).owner = k
      BY DEF Reserve, Output
    <3> QED BY <2>3, <3>2, <3>3 DEF n, a
  <2> QED BY <2>2, <2>3
<1> HIDE DEF out, Out
<1>3. o.kind = "offer" /\ offers' = offers \cup {o}
  BY <1>1 DEF out
<1>4. o = [kind |-> "offer", spends |-> coin.id, wanted |-> out, expiry |-> expiry,
           sig |-> SigSingle(k, out, expiry)]
  BY <1>3 DEF make_offer, Refused
<1>a. coin.shape = "offer"
  BY <1>3 DEF make_offer, Refused
<1>5. /\ o.wanted = out /\ o.sig = SigSingle(k, out, expiry) /\ o.expiry = expiry
      /\ o.spends = coin.id
  BY <1>4
<1> HIDE DEF o
<1>6. SignedOffer(o, coins)
  <2>1. coin \in coins /\ coin.owner = k
    BY <1>1 DEF Unspent
  <2> QED BY <1>2, <1>5, <1>a, <2>1 DEF SignedOffer
<1>7. coins' = coins /\ spent' = spent /\ accepted' = accepted /\ reading' = reading /\ held' = held
  BY DEF MakeOffer, chain
<1>8. OffersInv'
  BY <1>3, <1>6, <1>7 DEF IInv, OffersInv
<1>9. ReadingInv'
  <2>1. offers \subseteq offers'
    BY <1>3
  <2>2. ASSUME NEW j \in Keys, reading[j] # None PROVE ReadBy(j, reading[j], offers', coins)
    <3>1. ReadBy(j, reading[j], offers, coins)
      BY <2>2 DEF IInv, ReadingInv
    <3> QED BY <2>1, <3>1 DEF ReadBy
  <2> QED BY <1>7, <2>2 DEF IInv, ReadingInv
<1>10. ChainInv' /\ SpentInv' /\ HeldInv'
  BY <1>7 DEF IInv, ChainInv, SpentInv, HeldInv
<1> QED BY <1>8, <1>9, <1>10 DEF IInv

\* A reading that is begun, goes on or ends.
LEMMA ReadingKeeps ==
  ASSUME IInv, NEW k \in Keys, NEW r, r # None => ReadBy(k, r, offers, coins),
         reading' = [reading EXCEPT ![k] = r], UNCHANGED <<chain, offers, held>>
  PROVE  IInv'
<1>1. coins' = coins /\ spent' = spent /\ accepted' = accepted /\ offers' = offers /\ held' = held
  BY DEF chain
<1>2. ReadingInv'
  <2>1. DOMAIN reading' = Keys
    BY DEF IInv, ReadingInv
  <2>2. ASSUME NEW j \in Keys, reading'[j] # None PROVE ReadBy(j, reading'[j], offers, coins)
    <3>1. reading'[j] = IF j = k THEN r ELSE reading[j]
      BY DEF IInv, ReadingInv
    <3> QED BY <2>2, <3>1 DEF IInv, ReadingInv
  <2> QED BY <1>1, <2>1, <2>2 DEF ReadingInv
<1>3. ChainInv' /\ SpentInv' /\ OffersInv' /\ HeldInv'
  BY <1>1 DEF IInv, ChainInv, SpentInv, OffersInv, HeldInv
<1> QED BY <1>2, <1>3 DEF IInv

LEMMA ConsiderKeeps ==
  ASSUME IInv, NEW k \in Keys, Consider(k)
  PROVE  IInv'
<1>1. PICK offer \in offers :
        /\ offer.wanted.owner # k
        /\ reading' = [reading EXCEPT ![k] = [offer |-> offer, terms |-> None, tip |-> None]]
  BY DEF Consider
<1> DEFINE r == [offer |-> offer, terms |-> None, tip |-> None]
<1>2. ReadBy(k, r, offers, coins)
  BY <1>1 DEF ReadBy
<1>3. reading' = [reading EXCEPT ![k] = r] /\ UNCHANGED <<chain, offers, held>>
  BY <1>1 DEF Consider
<1> HIDE DEF r
<1> QED BY <1>2, <1>3, ReadingKeeps

LEMMA ReadTermsKeeps ==
  ASSUME IInv, NEW k \in Keys, ReadTerms(k)
  PROVE  IInv'
<1>1. PICK coin \in coins :
        /\ coin.id = reading[k].offer.spends
        /\ reading' = [reading EXCEPT ![k].terms = [coin |-> coin, offered |-> Sat(coin)]]
  BY DEF ReadTerms
<1> DEFINE old == reading[k]
           terms == [coin |-> coin, offered |-> Sat(coin)]
           r == [offer |-> old.offer, terms |-> terms, tip |-> old.tip]
<1>2. ReadBy(k, old, offers, coins)
  BY DEF ReadTerms, IInv, ReadingInv
<1>3. old = [offer |-> old.offer, terms |-> old.terms, tip |-> old.tip]
      /\ reading' = [reading EXCEPT ![k] = [old EXCEPT !.terms = terms]]
  BY <1>1, <1>2 DEF ReadBy
<1>4. ReadBy(k, r, offers, coins)
  BY <1>1, <1>2 DEF ReadBy
<1>5. [old EXCEPT !.terms = terms] = r
  <2> DEFINE a == old.offer
             b == old.terms
             c == old.tip
  <2>1. old = [offer |-> a, terms |-> b, tip |-> c] /\ r = [offer |-> a, terms |-> terms, tip |-> c]
    BY <1>3
  <2> HIDE DEF old, terms, r, a, b, c
  <2> QED BY <2>1
<1>6. reading' = [reading EXCEPT ![k] = r] /\ UNCHANGED <<chain, offers, held>>
  BY <1>3, <1>5 DEF ReadTerms
<1> HIDE DEF r
<1> QED BY <1>4, <1>6, ReadingKeeps

LEMMA ReadTipKeeps ==
  ASSUME IInv, NEW k \in Keys, ReadTip(k)
  PROVE  IInv'
<1> DEFINE old == reading[k]
           r == [offer |-> old.offer, terms |-> old.terms, tip |-> height]
<1>1. ReadBy(k, old, offers, coins)
  BY DEF ReadTip, IInv, ReadingInv
<1>2. old = [offer |-> old.offer, terms |-> old.terms, tip |-> old.tip]
      /\ reading' = [reading EXCEPT ![k] = [old EXCEPT !.tip = height]]
  BY <1>1 DEF ReadBy, ReadTip
<1>3. ReadBy(k, r, offers, coins)
  BY <1>1 DEF ReadBy
<1>4. [old EXCEPT !.tip = height] = r
  <2> DEFINE a == old.offer
             b == old.terms
             c == old.tip
  <2>1. old = [offer |-> a, terms |-> b, tip |-> c] /\ r = [offer |-> a, terms |-> b, tip |-> height]
    BY <1>2
  <2> HIDE DEF old, r, a, b, c
  <2> QED BY <2>1
<1>5. reading' = [reading EXCEPT ![k] = r] /\ UNCHANGED <<chain, offers, held>>
  BY <1>2, <1>4 DEF ReadTip
<1> HIDE DEF r
<1> QED BY <1>3, <1>5, ReadingKeeps

LEMMA NotTakenKeeps ==
  ASSUME IInv, NEW k \in Keys, NotTaken(k)
  PROVE  IInv'
BY ReadingKeeps DEF NotTaken

\* The maker's signature holds in what the taker builds around it.
LEMMA TakenIsSound ==
  ASSUME IInv, NEW k \in Keys, NEW o, SignedOffer(o, coins), o.wanted.owner # k,
         NEW coin \in coins, coin.id = o.spends,
         NEW list \in Seq(coins), \A i \in DOMAIN list : list[i].owner = k,
         NEW tx, Taken(tx, o, coin, list, k, coins),
         NEW h, h.tx = tx, h.expiry = o.expiry, h.payer = k,
         h.asks = TakeAsks(coin.owner, k, Sat(coin), o.wanted.value)
  PROVE  Sound(h, coins)
<1>1. coin.owner = o.wanted.owner
  BY DEF SignedOffer, IInv, ChainInv, Chained
<1> DEFINE sig == o.sig
<1>2. /\ sig.by = coin.owner /\ sig.hash = "single" /\ sig.out = o.wanted
      /\ sig.expiry = o.expiry
  BY <1>1 DEF SignedOffer, SigSingle
<1>3. /\ tx.ins[1] = coin /\ 1 \in DOMAIN tx.outs /\ tx.outs[1] = o.wanted
      /\ \A i \in DOMAIN tx.ins : i # 1 => \E j \in DOMAIN list : tx.ins[i] = list[j]
      /\ \A i \in DOMAIN tx.ins : tx.sigs[i] = IF i = 1 THEN sig ELSE [by |-> k, hash |-> "all"]
  BY DEF Taken
<1>4. ASSUME NEW i \in DOMAIN tx.ins PROVE SignatureHolds(h, i)
  <2>1. CASE i = 1
    <3>1. tx.sigs[i] = sig /\ tx.ins[i] = coin
      BY <1>3, <2>1
    <3> HIDE DEF sig
    <3> QED BY <1>2, <1>3, <2>1, <3>1 DEF SignatureHolds, MaySign
  <2>2. CASE i # 1
    <3>1. tx.sigs[i].by = k /\ tx.sigs[i].hash # "single" /\ tx.ins[i].owner = k
      BY <1>3, <2>2
    <3> QED BY <3>1 DEF SignatureHolds, MaySign
  <2> QED BY <2>1, <2>2
<1>5. \A i \in DOMAIN tx.ins : SignatureHolds(h, i)
  BY <1>4
<1>6. /\ tx.ins \in Seq(coins) /\ Distinct(tx.ins) /\ tx.outs \in Seq(Placed)
      /\ Exactly(tx.ins, tx.outs, tx.fee) /\ Delivers(tx, h.asks, h.payer)
  BY DEF Taken, Delivers
<1> QED BY <1>5, <1>6 DEF Sound

LEMMA PrepareTakeKeeps ==
  ASSUME IInv, NEW k \in Keys, PrepareTake(k)
  PROVE  IInv'
<1> DEFINE o == reading[k].offer
           terms == reading[k].terms
           coin == terms.coin
           made(list) == take_offer(k, o, coin, list, k, k, terms.offered, TakeFee)
           asks == TakeAsks(o.wanted.owner, k, terms.offered, o.wanted.value)
<1>1. PICK list \in Lists(k, {"p2pkh", "reserve"}) :
        /\ made(list).kind = "built"
        /\ held' = [held EXCEPT ![k] = [tx |-> made(list), payer |-> k,
                                        expiry |-> o.expiry, asks |-> asks]]
  BY Zenon DEF PrepareTake, TakeAsks
<1> DEFINE tx == made(list)
<1>2. held' = [held EXCEPT ![k] = [tx |-> tx, payer |-> k, expiry |-> o.expiry, asks |-> asks]]
  BY <1>1
<1> DEFINE h == [tx |-> tx, payer |-> k, expiry |-> o.expiry, asks |-> asks]
<1>3. /\ coins' = coins /\ spent' = spent /\ accepted' = accepted /\ offers' = offers
      /\ reading' = [reading EXCEPT ![k] = None] /\ reading[k] # None /\ terms # None
  BY DEF PrepareTake, chain, Informed
<1>4. /\ o \in offers /\ o.wanted.owner # k
      /\ coin \in coins /\ coin.id = o.spends /\ terms.offered = Sat(coin)
  BY <1>3 DEF IInv, ReadingInv, ReadBy
<1>5. SignedOffer(o, coins)
  BY <1>4 DEF IInv, OffersInv
<1>6. /\ list \in Seq(coins) /\ Distinct(list)
      /\ \A i \in DOMAIN list : list[i].owner = k
  <2>1. list \in Seq(Signable(k)) /\ Distinct(list) /\ \A i \in DOMAIN list : list[i].owner = k
    BY HandedOver DEF Owning
  <2> QED BY <2>1, SignableAre, SeqGrows
<1>7. tx.kind = "built" /\ tx = take_offer(k, o, coin, list, k, k, Sat(coin), TakeFee)
  BY <1>1, <1>4
<1>8. h.tx = tx /\ h.expiry = o.expiry /\ h.payer = k /\ h.asks = asks
      /\ held' = [held EXCEPT ![k] = h]
  BY <1>2
<1>a. asks = TakeAsks(o.wanted.owner, k, Sat(coin), o.wanted.value)
  BY <1>4
<1> HIDE DEF tx, h, o, terms, coin, asks
<1>9. coin.owner = o.wanted.owner /\ coin.shape = "offer" /\ coin.owner \in Keys \ {k}
  BY <1>4, <1>5 DEF SignedOffer, IInv, ChainInv, Chained
<1>10. Taken(tx, o, coin, list, k, coins)
  <2>1. o.wanted \in Placed /\ TakeFee \in Nat /\ Valued(coins) /\ Sincere(coins)
    BY <1>5, LedgerAssumption, SignableAre DEF SignedOffer
  <2> QED BY <1>4, <1>6, <1>7, <1>9, <2>1, TakeIsGood
<1>11. Sound(h, coins)
  <2>1. h.asks = TakeAsks(coin.owner, k, Sat(coin), o.wanted.value)
    BY <1>8, <1>9, <1>a
  <2> QED BY <1>4, <1>5, <1>6, <1>8, <1>10, <2>1, TakenIsSound
<1>12. HeldInv'
  <2>1. DOMAIN held' = Keys
    BY <1>8 DEF IInv, HeldInv
  <2>2. ASSUME NEW j \in Keys, held'[j] # None PROVE Sound(held'[j], coins)
    <3>1. held'[j] = IF j = k THEN h ELSE held[j]
      BY <1>8 DEF IInv, HeldInv
    <3> QED BY <1>11, <2>2, <3>1 DEF IInv, HeldInv
  <2> QED BY <1>3, <2>1, <2>2 DEF HeldInv
<1>13. ReadingInv'
  <2>1. DOMAIN reading' = Keys
    BY <1>3 DEF IInv, ReadingInv
  <2>2. ASSUME NEW j \in Keys, reading'[j] # None PROVE ReadBy(j, reading'[j], offers, coins)
    <3>1. reading'[j] = IF j = k THEN None ELSE reading[j]
      BY <1>3 DEF IInv, ReadingInv
    <3> QED BY <2>2, <3>1 DEF IInv, ReadingInv
  <2> QED BY <1>3, <2>1, <2>2 DEF ReadingInv
<1>14. ChainInv' /\ SpentInv' /\ OffersInv'
  BY <1>3 DEF IInv, ChainInv, SpentInv, OffersInv
<1> QED BY <1>12, <1>13, <1>14 DEF IInv

LEMMA BroadcastKeeps ==
  ASSUME IInv, NEW k \in Keys, Broadcast(k)
  PROVE  IInv'
<1>1. /\ held[k] # None /\ held' = [held EXCEPT ![k] = None]
      /\ offers' = offers /\ reading' = reading
  BY DEF Broadcast
<1> DEFINE outs == held[k].tx.outs
<1>2. /\ coins \subseteq coins'
      /\ Chained(coins', accepted')
  <2>1. CASE Acceptable(held[k])
    <3>1. accepted' = accepted + 1 /\ coins' = coins \cup Made(accepted', outs)
      BY <2>1 DEF Broadcast, Made
    <3>2. outs \in Seq(Placed) /\ Chained(coins, accepted)
      BY <1>1 DEF IInv, HeldInv, Sound, ChainInv
    <3> HIDE DEF outs
    <3>3. Chained(coins \cup Made(accepted + 1, outs), accepted + 1)
      BY <3>2, ChainGrows
    <3> QED BY <3>1, <3>3
  <2>2. CASE ~Acceptable(held[k])
    BY <2>2 DEF Broadcast, IInv, ChainInv
  <2> QED BY <2>1, <2>2
<1>a. SpentInv'
  <2>1. CASE Acceptable(held[k])
    <3> DEFINE ins == held[k].tx.ins
    <3>1. spent' = spent \cup {ins[i].id : i \in DOMAIN ins}
      BY <2>1 DEF Broadcast
    <3>2. \A i \in DOMAIN ins : ins[i] \in coins
      BY <2>1 DEF Acceptable, Unspent
    <3>3. \A s \in spent : \E c \in coins : c.id = s
      BY DEF IInv, SpentInv
    <3> HIDE DEF ins
    <3>4. ASSUME NEW s \in spent' PROVE \E c \in coins : c.id = s
      BY <3>1, <3>2, <3>3
    <3> QED BY <1>2, <3>4 DEF SpentInv
  <2>2. CASE ~Acceptable(held[k])
    BY <2>2 DEF Broadcast, IInv, SpentInv
  <2> QED BY <2>1, <2>2
<1>3. HeldInv'
  <2>1. DOMAIN held' = Keys
    BY <1>1 DEF IInv, HeldInv
  <2>2. ASSUME NEW j \in Keys, held'[j] # None PROVE Sound(held'[j], coins')
    <3>1. held'[j] = IF j = k THEN None ELSE held[j]
      BY <1>1 DEF IInv, HeldInv
    <3>2. held'[j] = held[j] /\ Sound(held[j], coins)
      BY <2>2, <3>1 DEF IInv, HeldInv
    <3> QED BY <1>2, <3>2, SoundGrows
  <2> QED BY <2>1, <2>2 DEF HeldInv
<1>4. OffersInv'
  <2> SUFFICES ASSUME NEW o \in offers PROVE SignedOffer(o, coins')
    BY <1>1 DEF OffersInv
  <2>1. SignedOffer(o, coins)
    BY DEF IInv, OffersInv
  <2> QED BY <1>2, <2>1, OfferGrows
<1>5. ReadingInv'
  <2>1. ASSUME NEW j \in Keys, reading[j] # None PROVE ReadBy(j, reading[j], offers, coins')
    <3>1. ReadBy(j, reading[j], offers, coins)
      BY <2>1 DEF IInv, ReadingInv
    <3> QED BY <1>2, <3>1, ReadGrows
  <2> QED BY <1>1, <2>1 DEF ReadingInv, IInv
<1> QED BY <1>2, <1>3, <1>4, <1>5, <1>a DEF IInv, ChainInv

LEMMA InitHolds == Init => IInv
<1> SUFFICES ASSUME Init PROVE IInv
  OBVIOUS
<1>1. coins \in InitialCoins /\ spent = {} /\ accepted = 0 /\ offers = {}
      /\ reading = [k \in Keys |-> None] /\ held = [k \in Keys |-> None]
  BY DEF Init
<1>2. /\ IsFiniteSet(coins)
      /\ \A c \in coins : c.value \in Value /\ c.id[1] = 0 /\ Truthful(c)
      /\ \A c, d \in coins : c.id = d.id => c = d
  BY <1>1, LedgerAssumption
<1>3. ChainInv
  BY <1>1, <1>2 DEF ChainInv, Chained, Valued, Sincere
<1>4. SpentInv /\ HeldInv /\ OffersInv /\ ReadingInv
  BY <1>1 DEF SpentInv, HeldInv, OffersInv, ReadingInv
<1> QED BY <1>3, <1>4 DEF IInv

LEMMA NextKeeps ==
  ASSUME FeesAreNative, IInv, [Next]_vars
  PROVE  IInv'
<1>1. CASE Mine
  BY <1>1 DEF Mine, IInv, ChainInv, SpentInv, HeldInv, OffersInv, ReadingInv
<1>2. CASE \E k \in Keys : Broadcast(k)
  BY <1>2, BroadcastKeeps
<1>3. CASE \E k \in Keys : Send(k) \/ SendToken(k) \/ Convert(k)
  BY <1>3, SendKeeps, SendTokenKeeps, ConvertKeeps
<1>4. CASE \E k \in Keys, i \in Identities : SpendIdentity(k, i) \/ SpendIdentityToken(k, i)
  BY <1>4, SpendIdentityKeeps, SpendIdentityTokenKeeps
<1>5. CASE \E k \in Keys : FundOffer(k) \/ MakeOffer(k) \/ Reclaim(k)
  BY <1>5, FundOfferKeeps, MakeOfferKeeps, ReclaimKeeps
<1>6. CASE \E k \in Keys : Consider(k) \/ ReadTerms(k) \/ ReadTip(k) \/ PrepareTake(k) \/ NotTaken(k)
  BY <1>6, ConsiderKeeps, ReadTermsKeeps, ReadTipKeeps, PrepareTakeKeeps, NotTakenKeeps
<1>7. CASE UNCHANGED vars
  BY <1>7 DEF vars, chain, IInv, ChainInv, SpentInv, HeldInv, OffersInv, ReadingInv
<1> QED BY <1>1, <1>2, <1>3, <1>4, <1>5, <1>6, <1>7 DEF Next

-----------------------------------------------------------------------------
(***************************************************************************)
(* What a set of coins is worth to one owner                               *)
(***************************************************************************)
Having(D, o, a) == [c \in D |-> IF c.owner = o THEN c.value[a] ELSE 0]

LEMMA HoldingsAre ==
  ASSUME NEW D, IsFiniteSet(D), Valued(D), NEW o, NEW a \in Assets
  PROVE  /\ Having(D, o, a) \in [D -> Int]
         /\ Holdings(D, o, a) = SumOver(Having(D, o, a), D) /\ Holdings(D, o, a) \in Int
<1>1. Having(D, o, a) \in [D -> Int]
  <2>1. \A c \in D : c.value[a] \in Nat
    BY DEF Valued, Value
  <2> QED BY <2>1 DEF Having
<1>2. Holdings(D, o, a) = SumFunction(Having(D, o, a))
  BY DEF Holdings, Having
<1> QED BY <1>1, <1>2, SumFunctionIsTotal

LEMMA HoldingsOfParts ==
  ASSUME NEW D, IsFiniteSet(D), Valued(D), NEW A \in SUBSET D, NEW o, NEW a \in Assets
  PROVE  Holdings(D, o, a) = Holdings(A, o, a) + Holdings(D \ A, o, a)
<1> DEFINE B == D \ A
           v == Having(D, o, a)
<1>1. v \in [D -> Int] /\ Holdings(D, o, a) = SumOver(v, D)
  BY HoldingsAre
<1>2. /\ [c \in A |-> v[c]] = Having(A, o, a)
      /\ [c \in B |-> v[c]] = Having(B, o, a)
  BY DEF Having
<1>3. IsFiniteSet(A) /\ IsFiniteSet(B) /\ Valued(A) /\ Valued(B)
  BY FS_Subset DEF Valued
<1>4. Holdings(A, o, a) = SumOver(Having(A, o, a), A)
  BY <1>3, HoldingsAre
<1>5. Holdings(B, o, a) = SumOver(Having(B, o, a), B)
  <2> HIDE DEF B
  <2> QED BY <1>3, HoldingsAre
<1> HIDE DEF v
<1>6. SumOver(v, D) = SumOver([c \in A |-> v[c]], A) + SumOver([c \in D \ A |-> v[c]], D \ A)
  BY <1>1, TotalOfParts
<1> QED BY <1>1, <1>2, <1>4, <1>5, <1>6

\* A list and the set of what its members become.
LEMMA HoldingsOfList ==
  ASSUME NEW X, Valued(X), NEW s \in Seq(X), NEW E, Valued(E),
         NEW f \in [1..Len(s) -> E],
         \A i, j \in 1..Len(s) : f[i] = f[j] => i = j,
         \A c \in E : \E i \in 1..Len(s) : f[i] = c,
         \A i \in 1..Len(s) : f[i].owner = s[i].owner /\ f[i].value = s[i].value,
         NEW o, NEW a \in Assets
  PROVE  IsFiniteSet(E) /\ Holdings(E, o, a) = Share(s, o, a)
<1> DEFINE D == 1..Len(s)
           v == [i \in D |-> IF s[i].owner = o THEN s[i].value[a] ELSE 0]
           w == Having(E, o, a)
<1>1. IsFiniteSet(D) /\ D = DOMAIN s /\ v \in [D -> Int]
  BY AmountsType
<1>2. f \in Bijection(D, E)
  BY DEF Bijection, Injection, IsInjective, Surjection
<1>3. IsFiniteSet(E)
  <2>1. f \in Surjection(D, E)
    BY <1>2 DEF Bijection
  <2> HIDE DEF D
  <2> QED BY <1>1, <2>1, FS_Surjection
<1>4. w \in [E -> Int] /\ Holdings(E, o, a) = SumOver(w, E)
  BY <1>3, HoldingsAre
<1>5. \A i \in D : v[i] = w[f[i]]
  BY DEF Having
<1>6. Share(s, o, a) = SumFunction(v)
  BY <1>1 DEF Share
<1> HIDE DEF v, w, D
<1>7. SumFunction(v) = SumOver(v, D)
  BY <1>1, SumFunctionIsTotal
<1>8. SumOver(v, D) = SumOver(w, E)
  <2>1. /\ f \in Bijection(D, E) /\ \A i \in D : v[i] = w[f[i]]
        /\ v \in [D -> Int] /\ w \in [E -> Int] /\ IsFiniteSet(D) /\ IsFiniteSet(E)
    BY <1>1, <1>2, <1>3, <1>4, <1>5
  <2> DEFINE map == f
  <2>2. /\ map \in Bijection(D, E) /\ \A i \in D : v[i] = w[map[i]]
        /\ v \in [D -> Int] /\ w \in [E -> Int] /\ IsFiniteSet(D) /\ IsFiniteSet(E)
    BY <2>1
  <2> HIDE DEF map
  <2> QED BY ONLY <2>2, TotalOfImage, SMTT(60)
<1> QED BY <1>3, <1>4, <1>6, <1>7, <1>8

LEMMA HoldingsOfInputs ==
  ASSUME NEW X, Valued(X), NEW s \in Seq(X), Distinct(s), NEW o, NEW a \in Assets
  PROVE  LET E == {s[i] : i \in DOMAIN s}
         IN IsFiniteSet(E) /\ Holdings(E, o, a) = Share(s, o, a)
<1> DEFINE E == {s[i] : i \in DOMAIN s}
           n == Len(s)
           f == [i \in 1..n |-> s[i]]
<1>1. n \in Nat /\ DOMAIN s = 1..n /\ \A i \in 1..n : s[i] \in X
  BY LenProperties, ElementOfSeq
<1>2. Valued(E)
  BY <1>1 DEF Valued
<1>3. f \in [1..n -> E] /\ (\A i, j \in 1..n : f[i] = f[j] => i = j)
      /\ (\A c \in E : \E i \in 1..n : f[i] = c)
      /\ \A i \in 1..n : f[i].owner = s[i].owner /\ f[i].value = s[i].value
  BY <1>1 DEF Distinct
<1> HIDE DEF f, E
<1>4. IsFiniteSet(E) /\ Holdings(E, o, a) = Share(s, o, a)
  BY <1>2, <1>3, HoldingsOfList
<1> QED BY <1>4 DEF E

LEMMA HoldingsOfOutputs ==
  ASSUME NEW outs \in Seq(Placed), NEW n, NEW o, NEW a \in Assets
  PROVE  LET E == Made(n, outs)
         IN IsFiniteSet(E) /\ Valued(E) /\ Holdings(E, o, a) = Share(outs, o, a)
<1> DEFINE coin(i) == [id |-> <<n, i>>, shape |-> outs[i].shape, owner |-> outs[i].owner,
                       value |-> outs[i].value]
           E == Made(n, outs)
           m == Len(outs)
           f == [i \in 1..m |-> coin(i)]
<1>1. m \in Nat /\ DOMAIN outs = 1..m /\ \A i \in 1..m : outs[i] \in Placed
  BY LenProperties, ElementOfSeq
<1>2. \A i \in 1..m : coin(i).value \in Value
  BY <1>1 DEF Placed
<1>3. E = {coin(i) : i \in 1..m}
  BY <1>1 DEF Made
<1>4. \A i \in 1..m : coin(i).id[2] = i /\ coin(i).owner = outs[i].owner /\ coin(i).value = outs[i].value
  OBVIOUS
<1> HIDE DEF coin, E
<1>5. Valued(E)
  BY <1>2, <1>3 DEF Valued
<1>6. /\ f \in [1..m -> E] /\ (\A i, j \in 1..m : f[i] = f[j] => i = j)
      /\ (\A c \in E : \E i \in 1..m : f[i] = c)
      /\ \A i \in 1..m : f[i].owner = outs[i].owner /\ f[i].value = outs[i].value
  <2>1. \A i \in 1..m : f[i] = coin(i)
    OBVIOUS
  <2> HIDE DEF f
  <2>2. \A i, j \in 1..m : f[i] = f[j] => i = j
    BY <1>4, <2>1
  <2>3. f \in [1..m -> E]
    BY <1>3 DEF f
  <2> QED BY <1>3, <1>4, <2>1, <2>2, <2>3
<1> HIDE DEF f
<1>7. IsFiniteSet(E) /\ Holdings(E, o, a) = Share(outs, o, a)
  BY <1>5, <1>6, PlacedIsValued, HoldingsOfList
<1> QED BY <1>5, <1>7 DEF E

\* What is unspent when a transaction has taken effect.
LEMMA HoldingsMove ==
  ASSUME NEW S, IsFiniteSet(S), Valued(S), NEW ins \in Seq(S), Distinct(ins),
         NEW outs \in Seq(Placed), NEW n, {c \in S : c.id[1] = n} = {},
         NEW after, after = (S \ {ins[i] : i \in DOMAIN ins}) \cup Made(n, outs),
         NEW o, NEW a \in Assets
  PROVE  Holdings(after, o, a) - Holdings(S, o, a) = Share(outs, o, a) - Share(ins, o, a)
<1> DEFINE E == {ins[i] : i \in DOMAIN ins}
           M == Made(n, outs)
           R == S \ E
<1>1. IsFiniteSet(E) /\ Holdings(E, o, a) = Share(ins, o, a)
  BY HoldingsOfInputs
<1>2. E \in SUBSET S
  BY LenProperties, ElementOfSeq
<1>3. IsFiniteSet(M) /\ Valued(M) /\ Holdings(M, o, a) = Share(outs, o, a)
  BY HoldingsOfOutputs
<1>4. R \cap M = {}
  <2>1. \A c \in M : c.id[1] = n
    BY DEF Made
  <2> HIDE DEF M
  <2> QED BY <2>1
<1>5. IsFiniteSet(R) /\ Valued(R)
  BY FS_Subset DEF Valued
<1> HIDE DEF E, M
<1>6. Holdings(S, o, a) = Holdings(E, o, a) + Holdings(R, o, a)
  BY <1>2, HoldingsOfParts
<1> HIDE DEF R
<1>7. after = R \cup M
  BY DEF R, E, M
<1>8. IsFiniteSet(after) /\ Valued(after)
  <2>1. IsFiniteSet(R \cup M)
    BY <1>3, <1>5, FS_Union
  <2> QED BY <1>3, <1>5, <1>7, <2>1 DEF Valued
<1>9. Holdings(after, o, a) = Holdings(M, o, a) + Holdings(R, o, a)
  <2>1. M \in SUBSET after /\ after \ M = R
    BY <1>4, <1>7
  <2>2. Holdings(after, o, a) = Holdings(M, o, a) + Holdings(after \ M, o, a)
    BY <1>8, <2>1, HoldingsOfParts
  <2> QED BY <2>1, <2>2
<1>10. Holdings(R, o, a) \in Int /\ Holdings(E, o, a) \in Int /\ Holdings(M, o, a) \in Int
  <2>1. Valued(E)
    BY <1>2 DEF Valued
  <2> QED BY <1>1, <1>3, <1>5, <2>1, HoldingsAre
<1> QED BY <1>1, <1>3, <1>6, <1>9, <1>10

-----------------------------------------------------------------------------
(***************************************************************************)
(* The theorems                                                            *)
(***************************************************************************)
LEMMA SoundIsAcceptable ==
  ASSUME NEW n, Chained(coins, n), NEW h, Sound(h, coins),
         {h.tx.ins[i].id : i \in DOMAIN h.tx.ins} \cap spent = {}, Live(h.expiry, height)
  PROVE  Acceptable(h)
<1> DEFINE ins == h.tx.ins
<1>1. /\ \A i \in DOMAIN ins : ins[i] \in coins /\ SignatureHolds(h, i)
      /\ Distinct(ins) /\ DOMAIN ins = 1..Len(ins)
  BY LenProperties, ElementOfSeq DEF Sound
<1>4. \A a \in Assets : Total(ins, a) \geq Total(h.tx.outs, a)
  <2> DEFINE outs == h.tx.outs
             fee == h.tx.fee
  <2>1. /\ fee \in Nat /\ Total(ins, Native) = Total(outs, Native) + fee
        /\ \A t \in Tokens : Total(ins, t) = Total(outs, t)
        /\ outs \in Seq(Placed)
    BY DEF Sound, Exactly
  <2> HIDE DEF ins, outs, fee
  <2>2. \A a \in Assets : Total(outs, a) \in Nat
    BY <2>1, PlacedIsValued, TotalsAreNat
  <2> QED BY <2>1, <2>2 DEF Assets, outs
<1>2. \A i \in DOMAIN ins : ins[i] \in Unspent
  BY <1>1 DEF Unspent
<1>3. ~Repeats(ins)
  <2> SUFFICES ASSUME NEW i \in DOMAIN ins, NEW j \in DOMAIN ins, i < j, ins[i].id = ins[j].id
               PROVE  FALSE
    BY DEF Repeats
  <2>1. ins[i] \in coins /\ ins[j] \in coins /\ i # j
    BY <1>1
  <2>2. ins[i] = ins[j]
    BY <2>1 DEF Chained
  <2> QED BY <1>1, <2>1, <2>2 DEF Distinct
<1> QED BY <1>1, <1>2, <1>3, <1>4 DEF Acceptable

\* At every state the coins are told apart, what is held is soundly signed and
\* balanced, and every offer published and read is its maker's.
THEOREM LedgerInvariant ==
  ASSUME FeesAreNative
  PROVE  Spec => []IInv
<1>1. IInv /\ [Next]_vars => IInv'
  BY NextKeeps
<1> QED BY <1>1, InitHolds, PTL DEF Spec

\* What a builder returned (src/crates/verus-tx-transparent and the crates that
\* build on it) the chain accepts for as long as its coins are unspent and it has
\* not expired: signed by who may, over what it says, and paying what it promises.
\* A fee in a token is the exception that LedgerTokenFee shows.
THEOREM WhatIsPreparedIsAccepted ==
  ASSUME FeesAreNative
  PROVE  Spec => []PreparedIsAcceptable
<1>1. IInv => PreparedIsAcceptable
  <2> SUFFICES ASSUME IInv, NEW k \in Keys, held[k] # None,
                      {held[k].tx.ins[i].id : i \in DOMAIN held[k].tx.ins} \cap spent = {},
                      Live(held[k].expiry, height)
               PROVE  Acceptable(held[k])
    BY DEF PreparedIsAcceptable
  <2>1. Sound(held[k], coins) /\ Chained(coins, accepted)
    BY DEF IInv, HeldInv, ChainInv
  <2> QED BY <2>1, SoundIsAcceptable
<1> QED BY <1>1, LedgerInvariant, PTL

\* Whatever a builder pays out, change and surplus included, some builder takes
\* as an input again, unless it is the protocol's.
THEOREM NothingStaysBehind ==
  ASSUME FeesAreNative
  PROVE  Spec => []NothingIsStranded
<1>1. IInv => NothingIsStranded
  BY DEF IInv, ChainInv, Chained, NothingIsStranded
<1> QED BY <1>1, LedgerInvariant, PTL

-----------------------------------------------------------------------------
(***************************************************************************)
(* What a broadcast moves                                                  *)
(***************************************************************************)
\* When a transaction is accepted its inputs are no longer unspent, and its
\* outputs are.
LEMMA TakesEffect ==
  ASSUME IInv, NEW k \in Keys, Broadcast(k), accepted' # accepted
  PROVE  LET ins  == held[k].tx.ins
             outs == held[k].tx.outs
             n    == accepted + 1
         IN /\ Sound(held[k], coins) /\ IsFiniteSet(Unspent) /\ Valued(Unspent)
            /\ ins \in Seq(Unspent) /\ {c \in Unspent : c.id[1] = n} = {}
            /\ Unspent' = (Unspent \ {ins[i] : i \in DOMAIN ins}) \cup Made(n, outs)
<1> DEFINE ins  == held[k].tx.ins
           outs == held[k].tx.outs
           n    == accepted + 1
           E    == {ins[i] : i \in DOMAIN ins}
           ids  == {ins[i].id : i \in DOMAIN ins}
           M    == Made(n, outs)
<1>1. Acceptable(held[k]) /\ held[k] # None
  BY DEF Broadcast
<1>2. spent' = spent \cup ids /\ coins' = coins \cup M
  BY <1>1 DEF Broadcast, Made
<1>3. \A i \in DOMAIN ins : ins[i] \in Unspent
  BY <1>1 DEF Acceptable
<1>4. Sound(held[k], coins)
  BY <1>1 DEF IInv, HeldInv
<1>5. /\ IsFiniteSet(coins) /\ Valued(coins) /\ accepted \in Nat
      /\ \A c \in coins : c.id[1] \in 0..accepted
      /\ \A c, d \in coins : c.id = d.id => c = d
      /\ \A s \in spent : \E c \in coins : c.id = s
  BY DEF IInv, ChainInv, Chained, SpentInv
<1>6. Unspent \subseteq coins /\ IsFiniteSet(Unspent) /\ Valued(Unspent)
  <2>1. Unspent \subseteq coins
    BY DEF Unspent
  <2> QED BY <1>5, <2>1, FS_Subset DEF Valued
<1>7. ins \in Seq(Unspent)
  <2>1. ins \in Seq(coins)
    BY <1>4 DEF Sound
  <2> HIDE DEF ins
  <2>2. Len(ins) \in Nat /\ DOMAIN ins = 1..Len(ins) /\ ins = [i \in 1..Len(ins) |-> ins[i]]
    BY <2>1, LenProperties
  <2>3. [i \in 1..Len(ins) |-> ins[i]] \in Seq(Unspent)
    BY <1>3, <2>2, IsASeq
  <2> QED BY <2>2, <2>3
<1>8. \A c \in coins : c.id[1] # n
  <2> SUFFICES ASSUME NEW c \in coins PROVE c.id[1] # n
    OBVIOUS
  <2>1. c.id[1] \in 0..accepted
    BY <1>5
  <2> QED BY <1>5, <2>1
<1>9. \A c \in M : c.id[1] = n
  BY DEF Made
<1> HIDE DEF M, n
<1>10. ids \subseteq {c.id : c \in coins}
  BY <1>3, <1>6
<1>11. \A c \in coins : c.id \in ids <=> c \in E
  BY <1>3, <1>5, <1>6
<1> HIDE DEF ids, E
<1>12. M \cap {c \in coins \cup M : c.id \in spent \cup ids} = {}
  BY <1>5, <1>8, <1>9, <1>10
<1>13. Unspent' = {c \in coins \cup M : c.id \notin spent \cup ids}
  BY <1>2 DEF Unspent
<1>14. Unspent' = (Unspent \ E) \cup M
  <2>1. Unspent = {c \in coins : c.id \notin spent}
    BY DEF Unspent
  <2>2. {c \in coins \cup M : c.id \notin spent \cup ids} = ({c \in coins : c.id \notin spent} \ E) \cup M
    BY <1>11, <1>12
  <2> QED BY <1>13, <2>1, <2>2
<1>15. {c \in Unspent : c.id[1] = n} = {}
  BY <1>6, <1>8
<1> QED BY <1>4, <1>6, <1>7, <1>14, <1>15 DEF E, M, n

LEMMA MovesWhatIsDue ==
  ASSUME IInv, NEW k \in Keys, Broadcast(k), accepted' # accepted, NEW o, NEW a \in Assets
  PROVE  Holdings(Unspent', o, a) - Holdings(Unspent, o, a) = Due(held[k], o, a)
<1> DEFINE h     == held[k]
           ins   == h.tx.ins
           outs  == h.tx.outs
           n     == accepted + 1
           now   == Unspent
           after == Unspent'
<1>1. /\ Sound(h, coins) /\ IsFiniteSet(now) /\ Valued(now)
      /\ ins \in Seq(now) /\ {c \in now : c.id[1] = n} = {}
      /\ after = (now \ {ins[i] : i \in DOMAIN ins}) \cup Made(n, outs)
  BY TakesEffect
<1>2. Distinct(ins) /\ outs \in Seq(Placed) /\ Delivers(h.tx, h.asks, h.payer)
  BY <1>1 DEF Sound
<1>3. Holdings(after, o, a) - Holdings(now, o, a) = Share(outs, o, a) - Share(ins, o, a)
  <2> DEFINE own == o
             of == a
  <2>1. of \in Assets
    OBVIOUS
  <2> HIDE DEF ins, outs, n, now, after, own, of
  <2>2. Holdings(after, own, of) - Holdings(now, own, of) = Share(outs, own, of) - Share(ins, own, of)
    BY ONLY <1>1, <1>2, <2>1, HoldingsMove
  <2> QED BY <2>2 DEF own, of
<1>4. Share(outs, o, a) - Share(ins, o, a)
        = Share(Coins(h.asks, "to"), o, a) - Share(Coins(h.asks, "from"), o, a)
          - (IF h.payer = o /\ a = Native THEN h.tx.fee ELSE 0)
  BY <1>2 DEF Delivers, Exact
<1>5. /\ Asked(h, "to", o, a) = Share(Coins(h.asks, "to"), o, a)
      /\ Asked(h, "from", o, a) = Share(Coins(h.asks, "from"), o, a)
  <2>1. h.asks \in Seq(AskSet)
    BY <1>2 DEF Delivers
  <2> HIDE DEF h
  <2> QED BY <2>1, CoinsAre
<1> QED BY <1>3, <1>4, <1>5 DEF Due

\* Only a broadcast has the chain take a transaction.
LEMMA OnlyBroadcastsCount ==
  ASSUME [Next]_vars, accepted' # accepted, NEW k \in Keys, held[k] # None, held'[k] = None,
         DOMAIN held = Keys
  PROVE  Broadcast(k)
<1>1. \/ Mine
      \/ \E j \in Keys : Broadcast(j)
      \/ \E j \in Keys : Send(j) \/ SendToken(j) \/ Convert(j) \/ FundOffer(j) \/ MakeOffer(j) \/ Reclaim(j)
      \/ \E j \in Keys, i \in Identities : SpendIdentity(j, i) \/ SpendIdentityToken(j, i)
      \/ \E j \in Keys : Consider(j) \/ ReadTerms(j) \/ ReadTip(j) \/ PrepareTake(j) \/ NotTaken(j)
      \/ UNCHANGED vars
  BY DEF Next
<1>2. CASE \E j \in Keys : Broadcast(j)
  <2>1. PICK j \in Keys : Broadcast(j)
    BY <1>2
  <2>2. held' = [held EXCEPT ![j] = None]
    BY <2>1 DEF Broadcast
  <2>3. j = k
    BY <2>2
  <2> QED BY <2>1, <2>3
<1>3. CASE Mine
  BY <1>3 DEF Mine
<1>4. CASE \E j \in Keys : Send(j) \/ SendToken(j) \/ Convert(j) \/ FundOffer(j) \/ MakeOffer(j) \/ Reclaim(j)
  <2>1. PICK j \in Keys :
          Send(j) \/ SendToken(j) \/ Convert(j) \/ FundOffer(j) \/ MakeOffer(j) \/ Reclaim(j)
    BY <1>4
  <2>2. Send(j) \/ SendToken(j) => accepted' = accepted
    BY DEF Send, SendToken, Hold, chain
  <2>3. Convert(j) => accepted' = accepted
    BY DEF Convert, Hold, chain
  <2>4. MakeOffer(j) => accepted' = accepted
    <3>1. MakeOffer(j) => UNCHANGED chain
      BY DEF MakeOffer
    <3> QED BY <3>1 DEF chain
  <2>5. FundOffer(j) \/ Reclaim(j) => accepted' = accepted
    BY DEF FundOffer, Reclaim, Hold, chain
  <2> QED BY <2>1, <2>2, <2>3, <2>4, <2>5
<1>5. CASE \E j \in Keys, i \in Identities : SpendIdentity(j, i) \/ SpendIdentityToken(j, i)
  BY <1>5 DEF SpendIdentity, SpendIdentityToken, Hold, chain
<1>6. CASE \E j \in Keys : Consider(j) \/ ReadTerms(j) \/ ReadTip(j) \/ PrepareTake(j) \/ NotTaken(j)
  BY <1>6 DEF Consider, ReadTerms, ReadTip, PrepareTake, NotTaken, chain
<1>7. CASE UNCHANGED vars
  BY <1>7 DEF vars, chain
<1> QED BY <1>1, <1>2, <1>3, <1>4, <1>5, <1>6, <1>7

\* Every transaction a builder made (plan_transparent_send, build_token_send,
\* build_identity_spend, build_identity_token_spend, build_conversion_transaction,
\* fund_offer, take_offer and the reclaim) gives each owner, of each asset, what was
\* asked for and takes from each what was asked for, to the satoshi, whatever else
\* was built, broadcast or completed in between: the change and the surplus of
\* every token return to whoever brought them.
THEOREM EveryoneGetsTheirDue ==
  ASSUME FeesAreNative
  PROVE  Spec => OnlyWhatWasAsked
<1>1. IInv /\ [Next]_vars =>
        [\A k \in Keys : held[k] # None /\ held'[k] = None /\ accepted' # accepted =>
           \A o \in Owners, a \in Assets :
             Holdings(Unspent', o, a) - Holdings(Unspent, o, a) = Due(held[k], o, a)]_vars
  <2> SUFFICES ASSUME IInv, [Next]_vars, NEW k \in Keys,
                      held[k] # None, held'[k] = None, accepted' # accepted,
                      NEW o \in Owners, NEW a \in Assets
               PROVE  Holdings(Unspent', o, a) - Holdings(Unspent, o, a) = Due(held[k], o, a)
    OBVIOUS
  <2>1. DOMAIN held = Keys
    BY DEF IInv, HeldInv
  <2>2. Broadcast(k)
    BY <2>1, OnlyBroadcastsCount
  <2> QED BY <2>2, MovesWhatIsDue
<1> QED BY <1>1, LedgerInvariant, PTL DEF Spec, OnlyWhatWasAsked

-----------------------------------------------------------------------------
(***************************************************************************)
(* Registrations                                                           *)
(***************************************************************************)
LEMMA ScriptedIs ==
  ASSUME NEW shape, NEW owner, NEW amount \in Nat, NEW data
  PROVE  LET o == Scripted(shape, owner, amount, data)
         IN /\ o.shape = shape /\ o.owner = owner /\ o.data = data
            /\ o.value \in Value /\ o.value[Native] = amount
            /\ \A a \in Tokens : o.value[a] = 0
<1>1. Of(Native, amount) \in Value /\ \A a \in Assets : Of(Native, amount)[a] = IF a = Native THEN amount ELSE 0
  BY OfIsValue, AssetsAre
<1>2. Native \in Assets /\ Tokens \subseteq Assets /\ Native \notin Tokens
  BY BuildersAssumption DEF Assets
<1> QED BY <1>1, <1>2 DEF Scripted

LEMMA CarryingIs ==
  ASSUME NEW shape, NEW owner, NEW data
  PROVE  LET o == Carrying(shape, owner, data)
         IN /\ o.shape = shape /\ o.owner = owner /\ o.data = data
            /\ o.value \in Value /\ \A a \in Assets : o.value[a] = 0
<1> DEFINE o == Scripted(shape, owner, 0, data)
<1>1. /\ o.shape = shape /\ o.owner = owner /\ o.data = data
      /\ o.value \in Value /\ o.value[Native] = 0 /\ \A a \in Tokens : o.value[a] = 0
  BY ScriptedIs
<1> HIDE DEF o
<1>2. \A a \in Assets : o.value[a] = 0
  BY <1>1 DEF Assets
<1> QED BY <1>1, <1>2 DEF Carrying, o

LEMMA PriceGrows ==
  ASSUME NEW i \in Nat, NEW j \in Nat, i \leq j, NEW m \in Nat, NEW n \in Nat, m \leq n, NEW smart
  PROVE  Price(i, m, smart) \leq Price(j, n, smart)
<1> DEFINE out == IF smart THEN SMART_OUTPUT_SIZE ELSE P2PKH_OUTPUT_SIZE
           ins(k) == k * INPUT_SIZE
           outs(k) == k * out
<1>1. INPUT_SIZE \in Nat /\ out \in Nat /\ TX_OVERHEAD \in Nat /\ MIN_FEE \in Nat
  BY BuildersAssumption
<1>2. /\ ins(i) \in Nat /\ ins(j) \in Nat /\ ins(i) \leq ins(j)
      /\ outs(m) \in Nat /\ outs(n) \in Nat /\ outs(m) \leq outs(n)
  <2> HIDE DEF out
  <2> QED BY <1>1, ProductGrows
<1>3. \A k, l : Price(k, l, smart) = IF TX_OVERHEAD + ins(k) + outs(l) > MIN_FEE
                                     THEN TX_OVERHEAD + ins(k) + outs(l) ELSE MIN_FEE
  BY DEF Price
<1> HIDE DEF ins, outs
<1> QED BY <1>1, <1>2, <1>3

\* What a selection keeps is bounded by the price of what it took, and the dust.
LEMMA SelectionCosts ==
  ASSUME NEW X, Valued(X), NEW list \in Seq(X), Distinct(list),
         NEW required \in Nat, NEW outputs \in Nat, NEW smart,
         NEW s, s = select_utxos(list, required, outputs, smart), s.kind # "refused"
  PROVE  s.fee \leq Price(Len(s.taken) + 1, outputs + 1, smart) + DUST_THRESHOLD
<1> DEFINE sorted == InOrder(list, DOMAIN list, LargerFirst(list))
           fee(n) == Price(IF n = 0 THEN 1 ELSE n, outputs + 1, smart)
           needed == [n \in 0..Len(list) |-> required + fee(n)]
           exits  == Exits(sorted, needed)
           n      == Min(exits)
           taken  == SubSeq(sorted, 1, n)
           left   == Total(taken, Native) - needed[n]
           r      == Settle(left, fee(n))
<1>1. Drawn(sorted, list, DOMAIN list, X)
  <2>1. DOMAIN list \in Subsets(list)
    BY DEF Subsets
  <2> QED BY <2>1, LargerFirstIsOrder, InOrderDraws
<1>2. exits # {} /\ s = [kind |-> "selected", taken |-> taken, change |-> r.change, fee |-> r.fee]
  <2>1. ~Repeats(list)
    BY DEF select_utxos, Refused
  <2>2. exits # {}
    BY <2>1 DEF select_utxos, Refused
  <2> QED BY <2>1, <2>2 DEF select_utxos
<1>3. n \in 0..Len(sorted) /\ sorted \in Seq(X)
  <2>1. sorted \in Seq(X)
    BY <1>1 DEF Drawn
  <2> HIDE DEF sorted, needed
  <2> QED BY <1>2, <2>1, ExitsAre
<1>4. n \in Nat /\ Len(taken) = n
  <2>1. Len(sorted) \in Nat
    BY <1>3, LenProperties
  <2> HIDE DEF sorted, n
  <2> QED BY <1>3, <2>1, SubSeqProperties
<1>5. fee(n) \leq Price(n + 1, outputs + 1, smart) /\ fee(n) \in Nat /\ Price(n + 1, outputs + 1, smart) \in Nat
  <2> DEFINE inputs == IF n = 0 THEN 1 ELSE n
  <2>1. inputs \in Nat /\ inputs \leq n + 1 /\ n + 1 \in Nat /\ outputs + 1 \in Nat
    <3> HIDE DEF n
    <3> QED BY <1>4
  <2> HIDE DEF inputs
  <2>2. Price(inputs, outputs + 1, smart) \leq Price(n + 1, outputs + 1, smart)
    BY <2>1, PriceGrows
  <2> QED BY <2>1, <2>2, PriceType DEF inputs
<1>6. required \in Nat /\ Total(taken, Native) \in Nat /\ needed[n] = required + fee(n)
      /\ Total(taken, Native) \geq needed[n]
  <2>1. Total(taken, Native) \geq needed[n]
    <3> HIDE DEF sorted, needed
    <3> QED BY <1>2, <1>3, ExitsAre
  <2>2. taken \in Seq(X)
    <3> HIDE DEF n, sorted
    <3> QED BY <1>1, <1>3, PrefixDraws DEF Drawn
  <2>3. Len(sorted) = Len(list)
    <3>1. Len(list) \in Nat /\ DOMAIN list = 1..Len(list)
      BY LenProperties
    <3>2. Cardinality(DOMAIN list) = Len(list)
      <4> DEFINE m == Len(list)
      <4> HIDE DEF m
      <4>1. m \in Nat => Cardinality(1..m) = m
        BY FS_Interval
      <4> QED BY <3>1, <4>1 DEF m
    <3>3. DOMAIN sorted = 1..Len(list)
      BY <3>2 DEF InOrder
    <3> HIDE DEF sorted
    <3> QED BY <1>3, <3>1, <3>3, LenProperties
  <2>4. needed[n] = required + fee(n)
    <3> HIDE DEF n
    <3> QED BY <1>3, <2>3
  <2> QED BY <2>1, <2>2, <2>4, TotalIs, AssetsAre
<1> DEFINE price == Price(n + 1, outputs + 1, smart)
           cost == fee(n)
           paid == Total(taken, Native)
<1>7. s.fee = r.fee /\ Len(s.taken) = n
  BY <1>2, <1>4
<1>8. left \in Nat /\ cost \in Nat
  <2> DEFINE need == needed[n]
  <2>1. paid \in Nat /\ need = required + cost /\ paid \geq need /\ cost \in Nat
    BY <1>5, <1>6
  <2> HIDE DEF paid, need, cost
  <2>2. paid - need \in Nat
    BY <2>1
  <2> QED BY <2>1, <2>2 DEF paid, need
<1> HIDE DEF left, cost
<1>9. r = Settle(left, cost)
  BY DEF cost
<1>10. r.fee \leq cost + DUST_THRESHOLD /\ r.fee \in Nat
  <2>1. DUST_THRESHOLD \in Nat
    BY BuildersAssumption
  <2>2. r.fee = IF left > DUST_THRESHOLD THEN cost ELSE cost + left
    <3> HIDE DEF r
    <3> QED BY <1>9 DEF Settle
  <2> HIDE DEF r
  <2> QED BY <1>8, <2>1, <2>2
<1>11. cost \leq price /\ price \in Nat /\ DUST_THRESHOLD \in Nat
  BY <1>5, BuildersAssumption DEF cost
<1> HIDE DEF r, price
<1>12. r.fee \leq price + DUST_THRESHOLD
  BY <1>8, <1>10, <1>11
<1> QED BY <1>7, <1>12 DEF price

LEMMA UnrepeatedAreDistinct ==
  ASSUME NEW X, NEW list \in Seq(X), ~Repeats(list)
  PROVE  Distinct(list)
<1>1. DOMAIN list = 1..Len(list) /\ Len(list) \in Nat
  BY LenProperties
<1>2. SUFFICES ASSUME NEW i \in DOMAIN list, NEW j \in DOMAIN list, i # j PROVE list[i] # list[j]
  BY DEF Distinct
<1>3. i < j \/ j < i
  BY <1>1, <1>2
<1>4. list[i].id # list[j].id
  BY <1>3 DEF Repeats
<1> QED BY <1>4

\* What is assembled of funding without tokens: the funding that was taken, and
\* its change, besides what was planned.
Funded(tx, plan, X, taken, change) ==
  /\ taken \in Seq(X) /\ change \in Nat
  /\ tx.ins = plan.leading \o taken /\ tx.outs = plan.outs \o ChangeOut(plan, change)
  /\ Total(tx.ins, Native) = Total(tx.outs, Native) + tx.fee
  /\ tx.fee \in Nat /\ tx.fee - plan.burn \in Nat
  /\ tx.fee - plan.burn \leq Price(Len(taken) + 1, plan.counted + 1, TRUE) + DUST_THRESHOLD
  /\ \A t \in Tokens : Total(tx.ins, t) = Total(plan.leading, t) /\ Total(tx.outs, t) = Total(plan.outs, t)

LEMMA FundedIs ==
  ASSUME NEW X, Valued(X), NEW key, NEW plan, plan.bearing = FALSE,
         plan.leading \in Seq(X), plan.funding \in Seq(X), Plain(plan.funding),
         plan.outs \in Seq(X), plan.counted \in Nat, plan.burn \in Nat, plan.change \in Keys \cup Identities,
         Placed \subseteq X,
         NEW tx, tx = assemble(key, plan), tx.kind = "built"
  PROVE  \E taken, change : Funded(tx, plan, X, taken, change)
<1> DEFINE required == Total(plan.outs, Native) + plan.burn
           s == select_utxos(plan.funding, required, plan.counted, TRUE)
           outs == plan.outs \o ChangeOut(plan, s.change)
           ins  == plan.leading \o s.taken
<1>1. /\ s.kind # "refused"
      /\ tx = Built(key, ins, outs, s.fee + plan.burn, Len(plan.leading))
      /\ ~ \E i \in DOMAIN plan.leading : Sat(plan.leading[i]) > 0
  <2>0. tx = PaidByFunding(key, plan)
    BY DEF assemble
  <2>1. ~ \E i \in DOMAIN plan.leading : Sat(plan.leading[i]) > 0
    <3> SUFFICES ASSUME \E i \in DOMAIN plan.leading : Sat(plan.leading[i]) > 0 PROVE FALSE
      OBVIOUS
    <3> DEFINE r == Refused("leading input carries value")
    <3>1. r.kind = "refused"
      BY DEF Refused
    <3>2. tx = r
      BY <2>0 DEF PaidByFunding
    <3> HIDE DEF r
    <3> QED BY <3>1, <3>2
  <2>2. s.kind # "refused"
    <3> SUFFICES ASSUME s.kind = "refused" PROVE FALSE
      OBVIOUS
    <3>1. tx = s
      BY <2>0, <2>1 DEF PaidByFunding
    <3> HIDE DEF s
    <3> QED BY <3>1
  <2> QED BY <2>0, <2>1, <2>2 DEF PaidByFunding
<1>2. Total(plan.outs, Native) \in Nat /\ plan.burn \in Nat /\ required \in Nat
  BY AssetsAre, TotalsAreNat
<1>3. ~Repeats(plan.funding)
  BY <1>1 DEF select_utxos, Refused
<1>4. Distinct(plan.funding)
  BY <1>3, UnrepeatedAreDistinct
<1>5. /\ Drawn(s.taken, plan.funding, DOMAIN plan.funding, X)
      /\ s.change \in Nat /\ s.fee \in Nat
      /\ Total(s.taken, Native) = required + s.change + s.fee
      /\ s.fee \leq Price(Len(s.taken) + 1, plan.counted + 1, TRUE) + DUST_THRESHOLD
  <2> DEFINE picked == s
             list == plan.funding
             need == required
             counted == plan.counted
             smart == TRUE
  <2>1. picked = select_utxos(list, need, counted, smart) /\ picked.kind # "refused"
    BY <1>1
  <2>2. list \in Seq(X) /\ Distinct(list) /\ need \in Nat /\ counted \in Nat
    BY <1>2, <1>4
  <2>3. /\ Drawn(picked.taken, list, DOMAIN list, X) /\ picked.change \in Nat /\ picked.fee \in Nat
        /\ Total(picked.taken, Native) = need + picked.change + picked.fee
        /\ picked.fee \leq Price(Len(picked.taken) + 1, counted + 1, smart) + DUST_THRESHOLD
    <3> HIDE DEF picked, list, need, counted, smart
    <3> QED BY <2>1, <2>2, SelectionIs, SelectionCosts
  <2> QED BY <2>3
<1> HIDE DEF s
<1>6. s.taken \in Seq(X) /\ \A t \in Tokens : Total(s.taken, t) = 0
  <2>1. s.taken \in Seq(X) /\ \A i \in DOMAIN s.taken : \E j \in DOMAIN plan.funding : s.taken[i] = plan.funding[j]
    BY <1>5 DEF Drawn
  <2>2. DOMAIN s.taken = 1..Len(s.taken)
    BY <2>1, LenProperties
  <2>3. \A i \in 1..Len(s.taken), t \in Tokens : s.taken[i].value[t] = 0
    BY <2>1, <2>2 DEF Plain
  <2> QED BY <2>1, <2>3, AssetsAre, TotalWhereNone
<1> DEFINE back == ChangeOut(plan, s.change)
<1>7. back \in Seq(X) /\ Total(back, Native) = s.change /\ \A t \in Tokens : Total(back, t) = 0
  <2>1. /\ back \in Seq(Placed) /\ Total(back, Native) = s.change
        /\ \A t \in Tokens : Total(back, t) = 0
    BY <1>5, ChangeOutIs
  <2> HIDE DEF back
  <2>2. back \in Seq(X)
    BY <2>1, SeqGrows
  <2> QED BY <2>1, <2>2
<1>8. \A a \in Assets : /\ Total(ins, a) = Total(plan.leading, a) + Total(s.taken, a)
                        /\ Total(outs, a) = Total(plan.outs, a) + Total(back, a)
                        /\ Total(plan.leading, a) \in Nat /\ Total(plan.outs, a) \in Nat
  <2> HIDE DEF back
  <2>1. \A a \in Assets : Total(plan.outs \o back, a) = Total(plan.outs, a) + Total(back, a)
    BY <1>7, TotalOfConcat
  <2>2. \A a \in Assets : Total(ins, a) = Total(plan.leading, a) + Total(s.taken, a)
    BY <1>6, TotalOfConcat
  <2>3. outs = plan.outs \o back
    BY DEF back
  <2> HIDE DEF outs, ins
  <2> QED BY <2>1, <2>2, <2>3, TotalsAreNat
<1>9. Total(plan.leading, Native) = 0
  <2>1. DOMAIN plan.leading = 1..Len(plan.leading) /\ \A i \in DOMAIN plan.leading : plan.leading[i] \in X
    BY LenProperties, ElementOfSeq
  <2>2. \A i \in DOMAIN plan.leading : plan.leading[i].value[Native] = 0
    <3> SUFFICES ASSUME NEW i \in DOMAIN plan.leading PROVE plan.leading[i].value[Native] = 0
      OBVIOUS
    <3>1. plan.leading[i].value[Native] \in Nat
      BY <2>1, AssetsAre DEF Valued, Value
    <3> QED BY <1>1, <3>1 DEF Sat
  <2> QED BY <2>1, <2>2, AssetsAre, TotalWhereNone
<1> HIDE DEF back, ins, outs
<1>10. tx.ins = ins /\ tx.outs = outs /\ tx.fee = s.fee + plan.burn
  BY <1>1 DEF Built
<1>11. Total(ins, Native) = Total(outs, Native) + (s.fee + plan.burn) /\ (s.fee + plan.burn) - plan.burn = s.fee
  <2> DEFINE brought == Total(ins, Native)
             led == Total(plan.leading, Native)
             taken == Total(s.taken, Native)
             paid == Total(plan.outs, Native)
             burn == plan.burn
             all == Total(outs, Native)
             change == s.change
             given == s.fee
  <2>1. /\ brought = led + taken /\ taken = paid + burn + change + given /\ all = paid + change
        /\ led = 0 /\ paid \in Nat /\ burn \in Nat /\ change \in Nat /\ given \in Nat
    BY <1>2, <1>5, <1>7, <1>8, <1>9, AssetsAre
  <2> HIDE DEF brought, led, taken, paid, burn, all, change, given
  <2>2. brought = all + (given + burn) /\ (given + burn) - burn = given
    BY <2>1
  <2> QED BY <2>2 DEF brought, all, given, burn
<1>12. ASSUME NEW t \in Tokens
       PROVE  Total(ins, t) = Total(plan.leading, t) /\ Total(outs, t) = Total(plan.outs, t)
  <2> DEFINE led == Total(plan.leading, t)
             paid == Total(plan.outs, t)
  <2>1. Total(ins, t) = led + 0 /\ Total(outs, t) = paid + 0 /\ led \in Nat /\ paid \in Nat
    BY <1>6, <1>7, <1>8, AssetsAre
  <2> HIDE DEF led, paid
  <2> QED BY <2>1 DEF led, paid
<1>13. s.fee + plan.burn \in Nat
  BY <1>2, <1>5
<1>14. Funded(tx, plan, X, s.taken, s.change)
  BY <1>5, <1>6, <1>10, <1>11, <1>12, <1>13 DEF Funded, ins, outs
<1> QED BY <1>14

\* What a caller may hand over: coins in X, of which plain ones and commitments
\* have no place for tokens; identities as referrers; a currency as the parent.
Registrable(p, X) ==
  /\ p.commitment \in X /\ p.utxos \in Seq(X)
  /\ \A c \in X : c.shape \in {"p2pkh", "commitment"} => \A t \in Tokens : c.value[t] = 0
  /\ p.back \in Keys \cup Identities
  /\ p.registration_fee \in Nat /\ p.levels \in Nat
  /\ p.chain \in Seq(Identities) /\ p.reservation.referral \in Identities \cup {None}
  /\ p.parent_currency # None =>
       /\ p.parent_currency.fee \in Nat /\ p.parent_currency.native_import_fee \in Nat
       /\ p.parent_currency.transfer_fee \in Nat /\ p.parent_currency.token_funding \in Seq(X)
       /\ \E t \in Tokens : Issuer[t] = p.reservation.parent

\* Outputs of a registration.
Own(p) == CurrencyOf(p.reservation.parent)
Revealed(p) == reservation_script(Registered(p).id, p.reservation)
Written(p) ==
  Placed \cup {Primary(Registered(p)), Revealed(p)}
  \cup {o \in {Reserve(p.reservation.parent, Own(p), p.parent_currency.fee)} : p.parent_currency # None}

LEMMA OwnIsToken ==
  ASSUME NEW X, NEW p, Registrable(p, X), p.parent_currency # None
  PROVE  Own(p) \in Tokens
BY DEF Own, CurrencyOf, Registrable

LEMMA WrittenAre ==
  ASSUME NEW X, NEW p, Registrable(p, X)
  PROVE  /\ Valued(Written(p)) /\ Placed \subseteq Written(p)
         /\ Primary(Registered(p)) \in Written(p) /\ Revealed(p) \in Written(p)
         /\ \A o \in Written(p) : o.shape = "reservation" => o = Revealed(p)
<1>1. /\ Primary(Registered(p)).value \in Value /\ Primary(Registered(p)).shape = "identity primary"
      /\ Revealed(p).value \in Value /\ Revealed(p).shape = "reservation"
  <2>1. \A shape, owner, data : /\ Carrying(shape, owner, data).value \in Value
                                /\ Carrying(shape, owner, data).shape = shape
    BY CarryingIs
  <2> QED BY <2>1 DEF Primary, Revealed, reservation_script
<1>2. p.parent_currency # None =>
        LET o == Reserve(p.reservation.parent, Own(p), p.parent_currency.fee)
        IN o.value \in Value /\ o.shape = "reserve"
  <2> SUFFICES ASSUME p.parent_currency # None
               PROVE  LET o == Reserve(p.reservation.parent, Own(p), p.parent_currency.fee)
                      IN o.value \in Value /\ o.shape = "reserve"
    OBVIOUS
  <2>1. Own(p) \in Assets /\ p.parent_currency.fee \in Nat
    BY OwnIsToken, AssetsAre DEF Registrable
  <2>2. Of(Own(p), p.parent_currency.fee) \in Value
    BY <2>1, OfIsValue
  <2> QED BY <2>2 DEF Reserve, Output
<1>3. \A o \in Placed : o.value \in Value /\ o.shape # "reservation"
  BY DEF Placed, Shapes
<1> QED BY <1>1, <1>2, <1>3 DEF Written, Valued

LEMMA SubFeeIs ==
  ASSUME NEW X, NEW key, NEW p, Registrable(p, X)
  PROVE  /\ SubFee(key, p) \in Seq(Written(p))
         /\ \A t \in Tokens : Total(SubFee(key, p), t)
                                = IF p.parent_currency # None /\ t = Own(p) THEN p.parent_currency.fee ELSE 0
<1>1. CASE p.parent_currency = None
  <2>1. SubFee(key, p) = <<>>
    BY <1>1 DEF SubFee
  <2> QED BY <1>1, <2>1, TotalOfEmpty, AssetsAre, EmptySeq
<1>2. CASE p.parent_currency # None
  <2> DEFINE sub == p.parent_currency
             own == Own(p)
             kept == Reserve(p.reservation.parent, own, sub.fee)
             burn == [kind |-> "burn", source |-> own, path |-> <<>>, amount |-> sub.fee,
                      fee_currency |-> Native, fee |-> sub.transfer_fee]
  <2>1. own \in Tokens /\ sub.fee \in Nat /\ sub.transfer_fee \in Nat
    BY <1>2, OwnIsToken DEF Registrable
  <2>2. kept \in Written(p)
    BY <1>2 DEF Written
  <2>3. /\ kept.value \in Value
        /\ \A t \in Tokens : kept.value[t] = IF t = own THEN sub.fee ELSE 0
    <3>1. kept.value = Of(own, sub.fee)
      BY DEF Reserve, Output
    <3> HIDE DEF kept, own
    <3> QED BY <2>1, <3>1, OfIsValue, AssetsAre
  <2>4. /\ TransferOut(burn) \in Placed /\ TransferOut(burn).value \in Value
        /\ \A t \in Tokens : TransferOut(burn).value[t] = IF t = own THEN sub.fee ELSE 0
    <3>1. IsTransfer(burn) /\ burn.source = own /\ ~Minting(burn) /\ burn.amount = sub.fee
      BY <2>1, AssetsAre DEF IsTransfer, Minting
    <3> HIDE DEF burn, own
    <3> QED BY <3>1, TransferOutIs
  <2>5. SubFee(key, p) \in {<<kept>>, <<TransferOut(burn)>>}
    BY <1>2 DEF SubFee, Own
  <2> HIDE DEF kept, burn, own
  <2>6. PICK o \in Written(p) : /\ SubFee(key, p) = <<o>> /\ o.value \in Value
                                /\ \A t \in Tokens : o.value[t] = IF t = own THEN sub.fee ELSE 0
    BY <2>2, <2>3, <2>4, <2>5, WrittenAre
  <2>7. \A t \in Tokens : Total(<<o>>, t) = o.value[t]
    BY <2>6, TotalOfSingle, AssetsAre
  <2>8. <<o>> \in Seq(Written(p))
    OBVIOUS
  <2> QED BY <1>2, <2>6, <2>7, <2>8 DEF own
<1> QED BY <1>1, <1>2

LEMMA ReferrersAre ==
  ASSUME NEW X, NEW p, Registrable(p, X)
  PROVE  /\ Referrers(p) \in Seq(Identities) /\ Len(Referrers(p)) \in Nat
         /\ DOMAIN Referrers(p) = 1..Len(Referrers(p))
         /\ \A i \in 1..Len(Referrers(p)) : Referrers(p)[i] \in Identities
<1>1. Referrers(p) \in Seq(Identities)
  <2>1. p.reservation.referral # None => <<p.reservation.referral>> \in Seq(Identities)
    BY DEF Registrable
  <2>2. <<>> \in Seq(Identities) /\ p.chain \in Seq(Identities)
    BY EmptySeq DEF Registrable
  <2>3. CASE p.parent_currency # None
    BY <2>2, <2>3 DEF Referrers
  <2>4. CASE p.parent_currency = None /\ (p.reservation.referral = None \/ p.chain # <<>>)
    <3>1. Referrers(p) = p.chain
      BY <2>4 DEF Referrers
    <3> QED BY <2>2, <3>1
  <2>5. CASE p.parent_currency = None /\ p.reservation.referral # None /\ p.chain = <<>>
    <3>1. Referrers(p) = <<p.reservation.referral>>
      BY <2>5 DEF Referrers
    <3> QED BY <2>1, <2>5, <3>1
  <2> QED BY <2>3, <2>4, <2>5
<1> QED BY <1>1, LenProperties, ElementOfSeq

LEMMA ReferralsArePaid ==
  ASSUME NEW X, NEW p, Registrable(p, X), NEW n \in Nat
  PROVE  LET refs == [i \in DOMAIN Referrers(p) |-> Pay(Referrers(p)[i], n)]
         IN /\ refs \in Seq(Placed) /\ Len(refs) = Len(Referrers(p))
            /\ \A t \in Tokens : Total(refs, t) = 0
<1> DEFINE k == Len(Referrers(p))
           refs == [i \in DOMAIN Referrers(p) |-> Pay(Referrers(p)[i], n)]
<1>1. /\ k \in Nat /\ refs = [i \in 1..k |-> Pay(Referrers(p)[i], n)]
      /\ \A i \in 1..k : Pay(Referrers(p)[i], n) \in Placed /\ Pay(Referrers(p)[i], n).value = Of(Native, n)
  BY ReferrersAre, PayIsPlaced
<1> HIDE DEF k
<1>2. refs \in Seq(Placed) /\ Len(refs) = k
  BY <1>1, IsASeq, LenProperties
<1>3. \A i \in 1..k, t \in Tokens : refs[i].value[t] = 0
  BY <1>1, AssetsAre DEF Of
<1> HIDE DEF refs
<1>4. \A t \in Tokens : Total(refs, t) = 0
  BY <1>2, <1>3, PlacedIsValued, TotalWhereNone, AssetsAre
<1> QED BY <1>2, <1>4 DEF refs, k

\* Tokens that are left over come back.
LEMMA ChangeOfTokensIs ==
  ASSUME NEW X, Valued(X), NEW p, Registrable(p, X), TokensOver(p) \geq 0
  PROVE  LET over == IF TokensOver(p) > 0 THEN <<Reserve(p.back, Own(p), TokensOver(p))>> ELSE <<>>
         IN /\ over \in Seq(Placed)
            /\ \A t \in Tokens : Total(over, t)
                 = IF p.parent_currency # None /\ t = Own(p)
                   THEN Total(p.parent_currency.token_funding, t) - p.parent_currency.fee ELSE 0
<1> DEFINE n == TokensOver(p)
           over == IF n > 0 THEN <<Reserve(p.back, Own(p), n)>> ELSE <<>>
<1>1. p.parent_currency # None =>
        /\ Own(p) \in Tokens /\ n = Total(p.parent_currency.token_funding, Own(p)) - p.parent_currency.fee
        /\ Total(p.parent_currency.token_funding, Own(p)) \in Nat /\ p.parent_currency.fee \in Nat
  BY OwnIsToken, TotalsAreNat, AssetsAre DEF TokensOver, Own, Registrable
<1>2. CASE n > 0
  <2>1. p.parent_currency # None
    BY <1>2 DEF TokensOver
  <2>2. n \in Nat /\ Own(p) \in Tokens /\ p.back \in Keys \cup Identities
    <3> DEFINE all == Total(p.parent_currency.token_funding, Own(p))
               fee == p.parent_currency.fee
    <3>1. n = all - fee /\ all \in Nat /\ fee \in Nat
      BY <1>1, <2>1
    <3> HIDE DEF n, all, fee
    <3> QED BY <1>1, <1>2, <2>1, <3>1 DEF Registrable
  <2> DEFINE o == Reserve(p.back, Own(p), n)
  <2>3. o \in Placed /\ o.value = Of(Own(p), n) /\ over = <<o>>
    <3>1. over = <<o>>
      BY <1>2
    <3> HIDE DEF n
    <3> QED BY <1>2, <2>2, <3>1, ReserveIsPlaced
  <2> HIDE DEF o, over, n
  <2>4. <<o>> \in Seq(Placed) /\ \A b \in Assets : Total(<<o>>, b) = IF b = Own(p) THEN n ELSE 0
    BY <2>2, <2>3, AssetsAre, OneOutput
  <2> QED BY <1>1, <2>1, <2>3, <2>4, AssetsAre DEF over, n
<1>3. CASE ~(n > 0)
  <2>1. over = <<>>
    BY <1>3
  <2>2. n = 0
    <3>1. n \in Int
      BY <1>1 DEF TokensOver
    <3> HIDE DEF n
    <3>2. n \geq 0
      BY DEF n
    <3> QED BY <1>3, <3>1, <3>2
  <2>3. \A t \in Tokens : p.parent_currency # None /\ t = Own(p)
           => Total(p.parent_currency.token_funding, t) - p.parent_currency.fee = 0
    BY <1>1, <2>2
  <2>4. over \in Seq(Placed) /\ \A t \in Tokens : Total(over, t) = 0
    BY <2>1, NoOutputs, AssetsAre
  <2> QED BY <2>3, <2>4
<1> QED BY <1>2, <1>3

LEMMA Behind ==
  ASSUME NEW W, Valued(W), NEW s \in Seq(W), NEW t \in Seq(W)
  PROVE  /\ s \o t \in Seq(W) /\ Len(s) \in Nat /\ Len(t) \in Nat /\ Len(s \o t) = Len(s) + Len(t)
         /\ \A i \in 1..Len(s) : (s \o t)[i] = s[i]
         /\ \A i \in 1..Len(t) : (s \o t)[Len(s) + i] = t[i]
         /\ \A a \in Assets : Total(s \o t, a) = Total(s, a) + Total(t, a)
<1> DEFINE m == Len(s)
           n == Len(t)
           both == s \o t
<1>1. /\ m \in Nat /\ n \in Nat /\ both \in Seq(W) /\ Len(both) = m + n
      /\ \A i \in 1..(m + n) : both[i] = IF i \leq m THEN s[i] ELSE t[i - m]
  BY ConcatProperties, LenProperties
<1>2. \A a \in Assets : Total(both, a) = Total(s, a) + Total(t, a)
  BY TotalOfConcat
<1> HIDE DEF m, n, both
<1>3. \A i \in 1..m : both[i] = s[i]
  BY <1>1
<1>4. ASSUME NEW i \in 1..n PROVE both[m + i] = t[i]
  <2>1. m + i \in 1..(m + n) /\ ~(m + i \leq m) /\ (m + i) - m = i
    BY <1>1
  <2> QED BY <1>1, <2>1
<1> QED BY <1>1, <1>2, <1>3, <1>4 DEF m, n, both

LEMMA OutputsAre ==
  ASSUME NEW X, Valued(X), NEW key, NEW p, Registrable(p, X), TokensOver(p) \geq 0,
         NEW fees, fees.referral \in Nat
  PROVE  LET outs == RegistrationOutputs(key, p, fees)
         IN /\ outs \in Seq(Written(p)) /\ Len(outs) \geq 1 /\ outs[1] = Primary(Registered(p))
            /\ \E i \in 1..Len(outs) : outs[i] = Revealed(p)
            /\ \A t \in Tokens : Total(outs, t)
                 = IF p.parent_currency # None /\ t = Own(p)
                   THEN Total(p.parent_currency.token_funding, t) ELSE 0
<1> DEFINE W == Written(p)
           first == <<Primary(Registered(p))>>
           sub   == SubFee(key, p)
           refs  == [i \in DOMAIN Referrers(p) |-> Pay(Referrers(p)[i], fees.referral)]
           rev   == <<Revealed(p)>>
           over  == IF TokensOver(p) > 0 THEN <<Reserve(p.back, Own(p), TokensOver(p))>> ELSE <<>>
           outs  == RegistrationOutputs(key, p, fees)
<1>1. outs = (((first \o sub) \o refs) \o rev) \o over
  BY DEF RegistrationOutputs, Revealed, Own
<1>2. /\ Valued(W) /\ Placed \subseteq W
      /\ first \in Seq(W) /\ Len(first) = 1 /\ first[1] = Primary(Registered(p))
      /\ rev \in Seq(W) /\ Len(rev) = 1 /\ rev[1] = Revealed(p)
  BY WrittenAre
<1>3. \A t \in Tokens : Total(first, t) = 0 /\ Total(rev, t) = 0
  <2>1. \A shape, owner, data : /\ Carrying(shape, owner, data).value \in Value
                                /\ \A a \in Assets : Carrying(shape, owner, data).value[a] = 0
    BY CarryingIs
  <2>2. \A o \in {Primary(Registered(p)), Revealed(p)} : o.value \in Value /\ \A a \in Assets : o.value[a] = 0
    BY <2>1 DEF Primary, Revealed, reservation_script
  <2> QED BY <2>2, TotalOfSingle, AssetsAre
<1>4. /\ sub \in Seq(W)
      /\ \A t \in Tokens : Total(sub, t) = IF p.parent_currency # None /\ t = Own(p) THEN p.parent_currency.fee ELSE 0
  BY SubFeeIs
<1>5. refs \in Seq(W) /\ \A t \in Tokens : Total(refs, t) = 0
  <2>1. refs \in Seq(Placed) /\ \A t \in Tokens : Total(refs, t) = 0
    BY ReferralsArePaid
  <2> HIDE DEF refs, W
  <2> QED BY <1>2, <2>1, SeqGrows
<1>6. /\ over \in Seq(W)
      /\ \A t \in Tokens : Total(over, t) = IF p.parent_currency # None /\ t = Own(p)
           THEN Total(p.parent_currency.token_funding, t) - p.parent_currency.fee ELSE 0
  <2>1. /\ over \in Seq(Placed)
        /\ \A t \in Tokens : Total(over, t) = IF p.parent_currency # None /\ t = Own(p)
             THEN Total(p.parent_currency.token_funding, t) - p.parent_currency.fee ELSE 0
    BY ChangeOfTokensIs
  <2> HIDE DEF over, W
  <2> QED BY <1>2, <2>1, SeqGrows
<1> HIDE DEF W, first, sub, refs, rev, over, outs
<1> DEFINE a == first \o sub
           b == a \o refs
           c == b \o rev
<1>7. /\ a \in Seq(W) /\ Len(a) = 1 + Len(sub) /\ a[1] = first[1] /\ Len(sub) \in Nat
      /\ \A t \in Assets : Total(a, t) = Total(first, t) + Total(sub, t)
  <2>1. 1 \in 1..Len(first)
    BY <1>2
  <2> QED BY <1>2, <1>4, <2>1, Behind
<1> HIDE DEF a
<1>8. /\ b \in Seq(W) /\ Len(b) = Len(a) + Len(refs) /\ b[1] = a[1] /\ Len(refs) \in Nat
      /\ \A t \in Assets : Total(b, t) = Total(a, t) + Total(refs, t)
  <2>1. 1 \in 1..Len(a)
    BY <1>7
  <2>2. /\ b \in Seq(W) /\ Len(refs) \in Nat /\ Len(b) = Len(a) + Len(refs)
        /\ \A i \in 1..Len(a) : b[i] = a[i]
        /\ \A t \in Assets : Total(b, t) = Total(a, t) + Total(refs, t)
    <3>1. Valued(W) /\ a \in Seq(W) /\ refs \in Seq(W)
      BY <1>2, <1>5, <1>7
    <3> QED BY ONLY <3>1, Behind
  <2> QED BY <2>1, <2>2
<1> HIDE DEF b
<1>9. /\ c \in Seq(W) /\ Len(c) = Len(b) + 1 /\ Len(b) \in Nat /\ c[1] = b[1] /\ c[Len(b) + 1] = rev[1]
      /\ \A t \in Assets : Total(c, t) = Total(b, t) + Total(rev, t)
  <2>1. 1 \in 1..Len(b) /\ 1 \in 1..Len(rev)
    BY <1>2, <1>7, <1>8
  <2>2. /\ c \in Seq(W) /\ Len(b) \in Nat /\ Len(c) = Len(b) + Len(rev)
        /\ \A i \in 1..Len(b) : c[i] = b[i]
        /\ \A i \in 1..Len(rev) : c[Len(b) + i] = rev[i]
        /\ \A t \in Assets : Total(c, t) = Total(b, t) + Total(rev, t)
    <3>1. Valued(W) /\ b \in Seq(W) /\ rev \in Seq(W)
      BY <1>2, <1>8
    <3> QED BY ONLY <3>1, Behind
  <2> QED BY <1>2, <2>1, <2>2
<1> HIDE DEF c
<1>10. outs = c \o over
  BY <1>1 DEF a, b, c
<1>11. /\ outs \in Seq(W) /\ Len(outs) = Len(c) + Len(over) /\ Len(over) \in Nat
       /\ outs[1] = c[1] /\ outs[Len(b) + 1] = c[Len(b) + 1]
       /\ \A t \in Assets : Total(outs, t) = Total(c, t) + Total(over, t)
  <2>1. 1 \in 1..Len(c) /\ Len(b) + 1 \in 1..Len(c)
    BY <1>7, <1>8, <1>9
  <2>2. /\ outs \in Seq(W) /\ Len(over) \in Nat /\ Len(outs) = Len(c) + Len(over)
        /\ \A i \in 1..Len(c) : outs[i] = c[i]
        /\ \A t \in Assets : Total(outs, t) = Total(c, t) + Total(over, t)
    <3>1. Valued(W) /\ c \in Seq(W) /\ over \in Seq(W)
      BY <1>2, <1>6, <1>9
    <3> QED BY ONLY <1>10, <3>1, Behind
  <2> QED BY <2>1, <2>2
<1>12. Len(outs) \geq 1 /\ Len(b) + 1 \in 1..Len(outs)
  BY <1>9, <1>11
<1>13. ASSUME NEW t \in Tokens
       PROVE  Total(outs, t) = IF p.parent_currency # None /\ t = Own(p)
                               THEN Total(p.parent_currency.token_funding, t) ELSE 0
  <2>1. Total(outs, t) = (((Total(first, t) + Total(sub, t)) + Total(refs, t)) + Total(rev, t)) + Total(over, t)
    BY <1>7, <1>8, <1>9, <1>11, AssetsAre
  <2>2. CASE p.parent_currency # None /\ t = Own(p)
    <3> DEFINE fee == p.parent_currency.fee
               all == Total(p.parent_currency.token_funding, t)
    <3>1. fee \in Nat /\ all \in Nat
      BY <2>2, TotalsAreNat, AssetsAre DEF Registrable
    <3>2. Total(outs, t) = (((0 + fee) + 0) + 0) + (all - fee)
      BY <1>3, <1>4, <1>5, <1>6, <2>1, <2>2
    <3> HIDE DEF fee, all
    <3>3. Total(outs, t) = all
      BY <3>1, <3>2
    <3> QED BY <2>2, <3>3 DEF all
  <2>3. CASE ~(p.parent_currency # None /\ t = Own(p))
    BY <1>3, <1>4, <1>5, <1>6, <2>1, <2>3
  <2> QED BY <2>2, <2>3
<1>14. outs[1] = Primary(Registered(p)) /\ outs[Len(b) + 1] = Revealed(p)
  BY <1>2, <1>7, <1>8, <1>9, <1>11
<1> QED BY <1>11, <1>12, <1>13, <1>14 DEF W, outs

-----------------------------------------------------------------------------
\* One share of n, and what n - 1 of them leave at least when some are paid.
LEMMA SharesAre ==
  ASSUME NEW fee \in Nat, NEW n \in Nat, n \geq 2
  PROVE  LET q == fee \div n
             outlay == (fee * (n - 1)) \div n
         IN /\ q \in Nat /\ outlay \in Nat /\ q \leq fee /\ outlay \leq fee
            /\ \A k \in Nat : k + 2 \leq n => k * q \in Nat /\ k * q + q \leq outlay
<1> DEFINE q == fee \div n
           r == fee % n
           m == fee * (n - 1)
           out == m \div n
           s == m % n
<1>1. q \in Nat /\ r \in 0..(n - 1) /\ fee = n * q + r
  OBVIOUS
<1>2. n - 1 \in Nat /\ m \in Nat
  OBVIOUS
<1> HIDE DEF q, r, m
<1>3. out \in Nat /\ s \in 0..(n - 1) /\ m = n * out + s
  BY <1>2
<1> HIDE DEF out, s
<1> DEFINE most == (n - 1) * q
           rest == r * (n - 1)
<1>4. most \in Nat /\ rest \in Nat /\ m = n * most + rest
  <2>1. m = (n * q + r) * (n - 1)
    BY <1>1 DEF m
  <2> QED BY <1>1, <1>2, <2>1
<1> HIDE DEF most, rest
<1>5. most \leq out
  <2> SUFFICES ASSUME out + 1 \leq most PROVE FALSE
    BY <1>3, <1>4
  <2>1. (out + 1) * n \leq most * n
    BY <1>3, <1>4, ProductGrows
  <2> DEFINE x == n * out
             y == n * most
  <2>2. x \in Nat /\ y \in Nat /\ x + n = (out + 1) * n /\ y = most * n
    BY <1>3, <1>4
  <2>3. x + s = y + rest /\ x + n \leq y
    BY <1>3, <1>4, <2>1, <2>2
  <2> HIDE DEF x, y
  <2> QED BY <1>3, <1>4, <2>2, <2>3
<1>6. out \leq fee
  <2> SUFFICES ASSUME fee + 1 \leq out PROVE FALSE
    BY <1>3
  <2>1. (fee + 1) * n \leq out * n
    BY <1>3, ProductGrows
  <2> DEFINE x == n * out
             y == n * fee
  <2>2. x \in Nat /\ y \in Nat /\ x = out * n /\ y + n = (fee + 1) * n /\ m = y - fee
    BY <1>3 DEF m
  <2>3. x + s = y - fee /\ y + n \leq x
    BY <1>3, <2>1, <2>2
  <2> HIDE DEF x, y
  <2> QED BY <1>3, <2>2, <2>3
<1>7. q \leq fee
  <2>1. 1 * q \leq n * q
    BY <1>1, ProductGrows
  <2> DEFINE x == n * q
  <2>2. x \in Nat /\ q \leq x /\ fee = x + r
    BY <1>1, <2>1
  <2> HIDE DEF x
  <2> QED BY <1>1, <2>2
<1>8. ASSUME NEW k \in Nat, k + 2 \leq n PROVE k * q \in Nat /\ k * q + q \leq out
  <2>1. (k + 1) * q \leq most
    <3>1. k + 1 \in Nat /\ n - 1 \in Nat /\ k + 1 \leq n - 1
      BY <1>8
    <3> QED BY <1>1, <3>1, ProductGrows DEF most
  <2>2. k * q \in Nat /\ (k + 1) * q = k * q + q
    BY <1>1
  <2> DEFINE x == k * q
  <2>3. x \in Nat /\ x + q \leq most
    BY <2>1, <2>2
  <2> HIDE DEF x
  <2>4. x + q \leq out
    BY <1>1, <1>3, <1>4, <1>5, <2>3
  <2> QED BY <2>3, <2>4 DEF x
<1> QED BY <1>1, <1>3, <1>6, <1>7, <1>8 DEF q, out, m

LEMMA FeesAre ==
  ASSUME NEW fee \in Nat, NEW levels \in Nat, NEW referred \in BOOLEAN,
         NEW fees, fees = checked_registration_fees(fee, levels, referred), "kind" \notin DOMAIN fees
  PROVE  /\ ~referred => fees.referral = 0 /\ fees.outlay = fee
         /\ referred => /\ fees.referral = fee \div (levels + 2)
                        /\ fees.outlay = (fee * (levels + 1)) \div (levels + 2)
<1>1. \A why : "kind" \in DOMAIN Refused(why)
  BY DEF Refused
<1>2. CASE ~referred
  <2>1. fees = [referral |-> 0, outlay |-> fee]
    BY <1>2 DEF checked_registration_fees
  <2> QED BY <1>2, <2>1
<1>3. CASE referred
  <2> DEFINE share == fee \div (levels + 2)
             outlay == (fee * (levels + 1)) \div (levels + 2)
             all == fee * (levels + 1)
  <2>1. fees = IF levels > MAX_REFERRAL_LEVELS THEN Refused("implausible levels")
               ELSE IF all > U64Max THEN Refused("overflow")
               ELSE [referral |-> share, outlay |-> outlay]
    BY <1>3 DEF checked_registration_fees
  <2> HIDE DEF all, share, outlay
  <2>2. ~(levels > MAX_REFERRAL_LEVELS) /\ ~(all > U64Max)
    BY <1>1, <2>1
  <2>3. fees = [referral |-> share, outlay |-> outlay]
    BY <2>1, <2>2
  <2>4. fees.referral = share /\ fees.outlay = outlay
    BY <2>3
  <2> QED BY <1>3, <2>4 DEF share, outlay
<1> QED BY <1>2, <1>3

\* What build_identity_registration hands to assemble.
Planned(key, p, fees) ==
  [burn |-> Burned(p, fees),
   leading |-> <<p.commitment>>
     \o (IF p.parent_currency = None THEN <<>> ELSE p.parent_currency.token_funding),
   funding |-> p.utxos, outs |-> RegistrationOutputs(key, p, fees),
   counted |-> 3 + Len(Referrers(p)), change |-> p.back, bearing |-> FALSE]

LEMMA RegistrationIs ==
  ASSUME NEW key, NEW p, NEW t, t = build_identity_registration(key, p), t.kind = "built",
         NEW fees, fees = checked_registration_fees(p.registration_fee, p.levels, Referred(p))
  PROVE  /\ \A i \in DOMAIN p.utxos : p.utxos[i].shape = "p2pkh"
         /\ ~Mismatched(key, p) /\ "kind" \notin DOMAIN fees
         /\ p.parent_currency = None /\ p.reservation.referral = None => p.chain = <<>>
         /\ ~TooLong(p) /\ Payable(p) /\ ~(TokensOver(p) < 0)
         /\ t = assemble(key, Planned(key, p, fees))
<1>1. \A why : Refused(why).kind # "built"
  BY DEF Refused
<1>2. "kind" \in DOMAIN fees => fees.kind # "built"
  <2>1. fees.kind = fees.kind
    OBVIOUS
  <2> SUFFICES ASSUME "kind" \in DOMAIN fees PROVE \E why : fees = Refused(why)
    BY <1>1
  <2> DEFINE plain == [referral |-> 0, outlay |-> p.registration_fee]
             share == p.registration_fee \div (p.levels + 2)
             outlay == (p.registration_fee * (p.levels + 1)) \div (p.levels + 2)
             all == p.registration_fee * (p.levels + 1)
             split == [referral |-> share, outlay |-> outlay]
  <2>2. fees = IF ~Referred(p) THEN plain
               ELSE IF p.levels > MAX_REFERRAL_LEVELS THEN Refused("implausible levels")
               ELSE IF all > U64Max THEN Refused("overflow") ELSE split
    BY DEF checked_registration_fees
  <2> HIDE DEF share, outlay, all
  <2>3. "kind" \notin DOMAIN plain /\ "kind" \notin DOMAIN split
    OBVIOUS
  <2> HIDE DEF plain, split
  <2> QED BY <2>2, <2>3
<1> DEFINE plan == Planned(key, p, fees)
           tx == assemble(key, plan)
           funding == \E i \in DOMAIN p.utxos : p.utxos[i].shape # "p2pkh"
           signers == p.min_sigs = 0 \/ p.min_sigs > Len(p.primaries)
           strange == \E i \in DOMAIN p.primaries : p.primaries[i] \notin Keys
           unknown == "kind" \in DOMAIN fees
           silent  == p.parent_currency = None /\ p.reservation.referral = None /\ p.chain # <<>>
           short   == TokensOver(p) < 0
<1>3. t = CASE funding -> Refused("unsupported funding")
            [] p.primaries = <<>> -> Refused("no outputs")
            [] signers -> Refused("invalid min sigs")
            [] Mismatched(key, p) -> Refused("commitment mismatch")
            [] strange -> Refused("unsupported recipient")
            [] unknown -> fees
            [] silent -> Refused("referral not committed")
            [] TooLong(p) -> Refused("referral chain too long")
            [] ~Payable(p) -> Refused("unsupported funding")
            [] short -> Refused("tokens")
            [] OTHER -> tx
  BY DEF build_identity_registration, Planned
<1> HIDE DEF tx, plan, funding, signers, strange, unknown, silent, short
<1>4. unknown => fees.kind # "built"
  BY <1>2 DEF unknown
<1>5. /\ ~funding /\ ~Mismatched(key, p) /\ ~unknown /\ ~silent /\ ~TooLong(p) /\ Payable(p) /\ ~short
      /\ t = tx
  BY <1>1, <1>3, <1>4
<1> QED BY <1>5 DEF tx, plan, funding, unknown, silent, short

LEMMA BurnedIs ==
  ASSUME NEW X, NEW p, Registrable(p, X), ~TooLong(p),
         p.parent_currency = None /\ p.reservation.referral = None => p.chain = <<>>,
         NEW fees, fees = checked_registration_fees(p.registration_fee, p.levels, Referred(p)),
         "kind" \notin DOMAIN fees
  PROVE  LET k == Len(Referrers(p))
             share == p.registration_fee \div (p.levels + 2)
         IN /\ Burned(p, fees) \in Nat /\ fees.referral \in Nat /\ share \in Nat
            /\ p.parent_currency = None =>
                 /\ k * share + Burned(p, fees) \leq p.registration_fee /\ share \leq Burned(p, fees)
                 /\ k # 0 => fees.referral = share
                 /\ Referred(p) <=> k # 0
<1> DEFINE k == Len(Referrers(p))
           fee == p.registration_fee
           n == p.levels + 2
           share == fee \div n
           outlay == (fee * (n - 1)) \div n
<1>1. k \in Nat /\ fee \in Nat /\ p.levels \in Nat /\ n \in Nat /\ n \geq 2 /\ n - 1 = p.levels + 1
  BY ReferrersAre DEF Registrable
<1>2. k \leq p.levels /\ k + 2 \leq n
  BY <1>1 DEF TooLong
<1>3. Referred(p) \in BOOLEAN
  BY DEF Referred
<1>4. /\ ~Referred(p) => fees.referral = 0 /\ fees.outlay = fee
      /\ Referred(p) => fees.referral = share /\ fees.outlay = outlay
  <2>1. /\ ~Referred(p) => fees.referral = 0 /\ fees.outlay = fee
        /\ Referred(p) => /\ fees.referral = fee \div (p.levels + 2)
                          /\ fees.outlay = (fee * (p.levels + 1)) \div (p.levels + 2)
    <3> DEFINE referred == Referred(p)
               levels == p.levels
    <3>1. referred \in BOOLEAN /\ levels \in Nat /\ fee \in Nat
          /\ fees = checked_registration_fees(fee, levels, referred) /\ "kind" \notin DOMAIN fees
      BY <1>1, <1>3
    <3> HIDE DEF referred, levels, fee
    <3>2. /\ ~referred => fees.referral = 0 /\ fees.outlay = fee
          /\ referred => /\ fees.referral = fee \div (levels + 2)
                         /\ fees.outlay = (fee * (levels + 1)) \div (levels + 2)
      BY <3>1, FeesAre
    <3> QED BY <3>2 DEF referred, levels
  <2> QED BY <1>1, <2>1
<1>5. p.parent_currency = None => (Referred(p) <=> k # 0)
  <2> SUFFICES ASSUME p.parent_currency = None PROVE Referred(p) <=> k # 0
    OBVIOUS
  <2>1. CASE p.reservation.referral = None
    <3>1. Referrers(p) = <<>>
      BY <2>1 DEF Referrers
    <3> QED BY <2>1, <3>1 DEF Referred
  <2>2. CASE p.reservation.referral # None
    <3>3. Len(Referrers(p)) # 0
      <4>1. CASE p.chain = <<>>
        <5>1. Referrers(p) = <<p.reservation.referral>>
          BY <2>2, <4>1 DEF Referrers
        <5>2. Len(Referrers(p)) = 1
          BY <5>1
        <5> QED BY <5>2
      <4>2. CASE p.chain # <<>>
        <5>1. p.chain \in Seq(Identities)
          BY DEF Registrable
        <5>2. Len(p.chain) # 0
          BY <4>2, <5>1, EmptySeq
        <5>3. Referrers(p) = p.chain
          BY <4>2 DEF Referrers
        <5> QED BY <5>2, <5>3
      <4> QED BY <4>1, <4>2
    <3>4. Referred(p)
      BY <2>2 DEF Referred
    <3> QED BY <3>3, <3>4
  <2> QED BY <2>1, <2>2
<1>6. /\ share \in Nat /\ outlay \in Nat /\ share \leq fee /\ outlay \leq fee
      /\ k * share \in Nat /\ k * share + share \leq outlay
  <2> HIDE DEF k, n, fee
  <2> QED BY <1>1, <1>2, SharesAre
<1>7. CASE p.parent_currency # None
  <2>1. Burned(p, fees) = p.parent_currency.native_import_fee /\ ~Referred(p)
    BY <1>7 DEF Burned, Referred
  <2>2. Burned(p, fees) \in Nat
    BY <1>7, <2>1 DEF Registrable
  <2>3. fees.referral \in Nat
    BY <1>4, <2>1
  <2>4. share \in Nat
    BY <1>6
  <2> QED BY <1>7, <2>2, <2>3, <2>4
<1>8. CASE p.parent_currency = None
  <2>1. Burned(p, fees) = fees.outlay - k * fees.referral
    BY <1>8 DEF Burned
  <2> HIDE DEF outlay, k, fee
  <2>2. CASE Referred(p)
    <3> DEFINE paid == k * share
    <3>1. Burned(p, fees) = outlay - paid
      BY <1>4, <2>1, <2>2
    <3>2. paid \in Nat /\ paid + share \leq outlay /\ share \in Nat /\ outlay \in Nat /\ outlay \leq fee /\ fee \in Nat
      BY <1>1, <1>6
    <3> HIDE DEF paid, share
    <3>3. outlay - paid \in Nat /\ paid + (outlay - paid) \leq fee /\ share \leq outlay - paid
      BY <3>2
    <3>4. /\ Burned(p, fees) \in Nat /\ fees.referral = share /\ paid + Burned(p, fees) \leq fee
          /\ share \leq Burned(p, fees)
      BY <1>4, <2>2, <3>1, <3>3
    <3>5. /\ Burned(p, fees) \in Nat /\ fees.referral \in Nat /\ share \in Nat
          /\ paid + Burned(p, fees) \leq fee /\ share \leq Burned(p, fees)
          /\ k # 0 => fees.referral = share
      BY <3>2, <3>4
    <3> QED BY <1>5, <1>8, <3>5 DEF k, share, paid, fee
  <2>3. CASE ~Referred(p)
    <3>1. k = 0
      BY <1>5, <1>8, <2>3
    <3>2. Burned(p, fees) = fee
      BY <1>1, <1>4, <2>1, <2>3, <3>1
    <3>3. k * share = 0
      BY <1>6, <3>1
    <3> DEFINE paid == k * share
    <3>5. paid = 0 /\ fee \in Nat /\ share \in Nat /\ share \leq fee /\ fees.referral = 0
      BY <1>1, <1>4, <1>6, <2>3, <3>3
    <3> HIDE DEF paid, share
    <3>4. /\ Burned(p, fees) \in Nat /\ fees.referral \in Nat /\ share \in Nat
          /\ paid + Burned(p, fees) \leq fee /\ share \leq Burned(p, fees)
          /\ k # 0 => fees.referral = share
      BY <3>1, <3>2, <3>5
    <3> QED BY <1>5, <1>8, <3>4 DEF k, share, paid, fee
  <2> QED BY <2>2, <2>3
<1> QED BY <1>7, <1>8

\* What comes out of a registration: what was planned, paid for by the funding.
Registers(t, plan, key, p, fees, X) ==
  /\ Valued(X \cup Written(p)) /\ plan.leading \in Seq(X) /\ plan.leading[1] = p.commitment
  /\ p.commitment.shape = "commitment"
  /\ plan.change = p.back /\ plan.outs = RegistrationOutputs(key, p, fees) /\ plan.burn = Burned(p, fees)
  /\ plan.counted = 3 + Len(Referrers(p))
  /\ Len(plan.leading) \in Nat /\ Len(plan.leading) \geq 1
  /\ p.parent_currency = None => Len(plan.leading) = 1
  /\ \A a \in Tokens : Total(plan.leading, a) = IF p.parent_currency # None /\ a = Own(p)
                         THEN Total(p.parent_currency.token_funding, a) ELSE 0
  /\ \E taken, change : Funded(t, plan, X \cup Written(p), taken, change)

LEMMA RegisteredIs ==
  ASSUME NEW X, Valued(X), NEW key, NEW p, Registrable(p, X),
         NEW t, t = build_identity_registration(key, p), t.kind = "built",
         NEW fees, fees = checked_registration_fees(p.registration_fee, p.levels, Referred(p)),
         NEW plan, plan = Planned(key, p, fees)
  PROVE  Registers(t, plan, key, p, fees, X)
<1> DEFINE Z == X \cup Written(p)
           first == <<p.commitment>>
           own == IF p.parent_currency = None THEN <<>> ELSE p.parent_currency.token_funding
<1>1. /\ \A i \in DOMAIN p.utxos : p.utxos[i].shape = "p2pkh"
      /\ ~Mismatched(key, p) /\ "kind" \notin DOMAIN fees
      /\ p.parent_currency = None /\ p.reservation.referral = None => p.chain = <<>>
      /\ ~TooLong(p) /\ Payable(p) /\ ~(TokensOver(p) < 0)
      /\ t = assemble(key, plan)
  BY RegistrationIs
<1>2. Burned(p, fees) \in Nat /\ fees.referral \in Nat
  BY <1>1, BurnedIs
<1>3. TokensOver(p) \geq 0
  <2>1. TokensOver(p) \in Int
    <3>1. p.parent_currency # None =>
            Total(p.parent_currency.token_funding, Own(p)) \in Nat /\ p.parent_currency.fee \in Nat
      BY OwnIsToken, TotalsAreNat, AssetsAre DEF Registrable
    <3> QED BY <3>1 DEF TokensOver, Own
  <2> QED BY <1>1, <2>1
<1>4. /\ Valued(Written(p)) /\ Placed \subseteq Written(p)
  BY WrittenAre
<1>5. Valued(Z) /\ X \subseteq Z /\ Written(p) \subseteq Z /\ Placed \subseteq Z
  BY <1>4 DEF Valued
<1>6. /\ plan.leading = first \o own /\ plan.funding = p.utxos /\ plan.outs = RegistrationOutputs(key, p, fees)
      /\ plan.counted = 3 + Len(Referrers(p)) /\ plan.burn = Burned(p, fees)
      /\ plan.change = p.back /\ plan.bearing = FALSE
  BY DEF Planned
<1>7. /\ p.commitment.shape = "commitment" /\ p.commitment \in X
      /\ p.commitment.value \in Value /\ \A a \in Tokens : p.commitment.value[a] = 0
  BY <1>1 DEF Mismatched, Registrable, Valued
<1>8. /\ first \in Seq(X) /\ Len(first) = 1 /\ first[1] = p.commitment
      /\ \A a \in Tokens : Total(first, a) = 0
  BY <1>7, TotalOfSingle, AssetsAre
<1>9. /\ own \in Seq(X) /\ (p.parent_currency = None => Len(own) = 0)
      /\ \A a \in Tokens : Total(own, a) = IF p.parent_currency # None /\ a = Own(p)
                             THEN Total(p.parent_currency.token_funding, a) ELSE 0
  <2>1. CASE p.parent_currency = None
    <3>1. own = <<>>
      BY <2>1
    <3> QED BY <2>1, <3>1, EmptySeq, TotalOfEmpty, AssetsAre
  <2>2. CASE p.parent_currency # None
    <3> DEFINE list == p.parent_currency.token_funding
    <3>1. own = list /\ list \in Seq(X)
      BY <2>2 DEF Registrable
    <3>2. \A i \in DOMAIN list : HoldsOnly(list[i], Own(p))
      BY <1>1, <2>2 DEF Payable, Own
    <3>3. DOMAIN list = 1..Len(list) /\ \A i \in 1..Len(list) : list[i] \in X
      BY <3>1, LenProperties, ElementOfSeq
    <3> HIDE DEF list, own
    <3>4. ASSUME NEW a \in Tokens, a # Own(p) PROVE Total(list, a) = 0
      <4>1. \A i \in 1..Len(list) : list[i].value[a] = 0
        <5> SUFFICES ASSUME NEW i \in 1..Len(list) PROVE list[i].value[a] = 0
          OBVIOUS
        <5>1. list[i].value[a] \in Nat
          BY <3>3, AssetsAre DEF Valued, Value
        <5>2. ~(list[i].value[a] > 0)
          BY <3>2, <3>3, <3>4 DEF HoldsOnly
        <5> QED BY <5>1, <5>2
      <4> QED BY <3>1, <4>1, AssetsAre, TotalWhereNone
    <3>5. \A a \in Tokens : Total(own, a) = IF a = Own(p) THEN Total(list, a) ELSE 0
      BY <3>1, <3>4
    <3> QED BY <2>2, <3>1, <3>5 DEF list
  <2> QED BY <2>1, <2>2
<1> HIDE DEF first, own, Z
<1>10. /\ plan.leading \in Seq(X) /\ Len(own) \in Nat /\ Len(plan.leading) = 1 + Len(own)
       /\ plan.leading[1] = p.commitment
       /\ \A a \in Assets : Total(plan.leading, a) = Total(first, a) + Total(own, a)
  <2>1. 1 \in 1..Len(first)
    BY <1>8
  <2>2. /\ first \o own \in Seq(X) /\ Len(own) \in Nat /\ Len(first \o own) = Len(first) + Len(own)
        /\ \A i \in 1..Len(first) : (first \o own)[i] = first[i]
        /\ \A a \in Assets : Total(first \o own, a) = Total(first, a) + Total(own, a)
    <3>1. Valued(X) /\ first \in Seq(X) /\ own \in Seq(X)
      BY <1>8, <1>9
    <3> QED BY ONLY <3>1, Behind
  <2> QED BY <1>6, <1>8, <2>1, <2>2
<1>11. \A a \in Tokens : Total(plan.leading, a) = IF p.parent_currency # None /\ a = Own(p)
                           THEN Total(p.parent_currency.token_funding, a) ELSE 0
  <2> TAKE a \in Tokens
  <2>1. Total(plan.leading, a) = Total(own, a)
    <3>1. Total(own, a) \in Nat
      BY <1>9, TotalsAreNat, AssetsAre
    <3> QED BY <1>8, <1>10, <3>1, AssetsAre
  <2> QED BY <1>9, <2>1
<1>12. plan.outs \in Seq(Written(p))
  BY <1>2, <1>3, <1>6, OutputsAre
<1>13. \E taken, change : Funded(t, plan, Z, taken, change)
  <2>1. plan.leading \in Seq(Z) /\ plan.outs \in Seq(Z)
    BY <1>5, <1>10, <1>12, SeqGrows
  <2>2. plan.funding \in Seq(Z)
    <3>1. p.utxos \in Seq(X)
      BY DEF Registrable
    <3> QED BY <1>5, <1>6, <3>1, SeqGrows
  <2>3. Plain(plan.funding)
    <3>1. \A i \in DOMAIN p.utxos : p.utxos[i] \in X
      BY LenProperties, ElementOfSeq DEF Registrable
    <3>2. \A i \in DOMAIN p.utxos, a \in Tokens : p.utxos[i].value[a] = 0
      BY <1>1, <3>1 DEF Registrable
    <3> QED BY <1>6, <3>2 DEF Plain
  <2>4. plan.counted \in Nat /\ plan.burn \in Nat /\ plan.change \in Keys \cup Identities
    BY <1>2, <1>6, ReferrersAre DEF Registrable
  <2>5. Valued(Z) /\ Placed \subseteq Z /\ plan.bearing = FALSE /\ t = assemble(key, plan) /\ t.kind = "built"
    BY <1>1, <1>5, <1>6
  <2> QED BY ONLY <2>1, <2>2, <2>3, <2>4, <2>5, FundedIs
<1>14. Len(plan.leading) \in Nat /\ Len(plan.leading) \geq 1 /\ (p.parent_currency = None => Len(plan.leading) = 1)
  BY <1>9, <1>10
<1> QED BY <1>5, <1>6, <1>7, <1>10, <1>11, <1>13, <1>14 DEF Registers, Z

\* What a builder reports of what was funded.
LEMMA FundedTokens ==
  ASSUME NEW Z, Valued(Z), NEW t, NEW plan, NEW taken, NEW change, Funded(t, plan, Z, taken, change),
         plan.leading \in Seq(Z), plan.outs \in Seq(Z), plan.change \in Keys \cup Identities, Placed \subseteq Z
  PROVE  /\ t.ins \in Seq(Z) /\ t.outs \in Seq(Z)
         /\ Len(t.ins) = Len(plan.leading) + Len(taken) /\ Len(taken) \in Nat
         /\ Len(plan.outs) \in Nat
         /\ Len(t.outs) \in {Len(plan.outs), Len(plan.outs) + 1}
         /\ \A i \in 1..Len(plan.leading) : t.ins[i] = plan.leading[i]
         /\ \A i \in 1..Len(plan.outs) : t.outs[i] = plan.outs[i]
         /\ \A i \in 1..Len(t.outs) : i \leq Len(plan.outs) \/ t.outs[i] = Pay(plan.change, change)
         /\ Left(t) = t.fee
<1> DEFINE back == ChangeOut(plan, change)
<1>1. /\ taken \in Seq(Z) /\ change \in Nat /\ t.ins = plan.leading \o taken /\ t.outs = plan.outs \o back
      /\ Total(t.ins, Native) = Total(t.outs, Native) + t.fee
      /\ t.fee \in Nat
  BY DEF Funded
<1>2. back \in Seq(Z)
  <2>1. back \in Seq(Placed)
    BY <1>1, ChangeOutIs
  <2> HIDE DEF back
  <2> QED BY <2>1, SeqGrows
<1>3. Len(back) \in {0, 1} /\ (Len(back) = 1 => back[1] = Pay(plan.change, change))
  <2> DEFINE o == Pay(plan.change, change)
  <2>1. back = <<o>> \/ back = <<>>
    BY DEF ChangeOut
  <2> HIDE DEF back, o
  <2> QED BY <2>1 DEF o
<1> HIDE DEF back
<1>4. /\ t.ins \in Seq(Z) /\ Len(taken) \in Nat /\ Len(t.ins) = Len(plan.leading) + Len(taken)
      /\ \A i \in 1..Len(plan.leading) : t.ins[i] = plan.leading[i]
  BY <1>1, Behind
<1>5. /\ t.outs \in Seq(Z) /\ Len(plan.outs) \in Nat /\ Len(t.outs) = Len(plan.outs) + Len(back)
      /\ \A i \in 1..Len(plan.outs) : t.outs[i] = plan.outs[i]
      /\ \A i \in 1..Len(back) : t.outs[Len(plan.outs) + i] = back[i]
  BY <1>1, <1>2, Behind
<1>6. ASSUME NEW i \in 1..Len(t.outs), ~(i \leq Len(plan.outs))
      PROVE  t.outs[i] = Pay(plan.change, change)
  <2>0. Len(back) \in {0, 1} /\ i > Len(plan.outs) /\ i \leq Len(plan.outs) + Len(back) /\ Len(plan.outs) \in Nat
    BY <1>3, <1>5, <1>6
  <2>2. Len(back) = 1 /\ i = Len(plan.outs) + 1
    <3> DEFINE m == Len(plan.outs)
               n == Len(back)
    <3>1. i \in Int /\ n \in {0, 1} /\ m \in Nat /\ i > m /\ i \leq m + n
      BY <2>0
    <3> HIDE DEF m, n
    <3>2. n = 1 /\ i = m + 1
      BY <3>1
    <3> QED BY <3>2 DEF m, n
  <2>1. 1 \in 1..Len(back)
    BY <2>2
  <2> QED BY <1>3, <1>5, <2>1, <2>2
<1>7. Left(t) = t.fee
  <2> DEFINE all == Total(t.outs, Native)
             brought == Total(t.ins, Native)
  <2>1. all \in Nat /\ brought \in Nat /\ brought = all + t.fee
    BY <1>1, <1>4, <1>5, AssetsAre, TotalsAreNat
  <2> HIDE DEF all, brought
  <2>2. t.fee \in Nat
    BY <1>1
  <2>3. brought - all = t.fee
    BY <2>1, <2>2
  <2> QED BY <2>3 DEF Left, all, brought
<1>8. Len(t.outs) \in {Len(plan.outs), Len(plan.outs) + 1}
  <2> DEFINE m == Len(plan.outs)
             n == Len(back)
  <2>1. n \in {0, 1} /\ m \in Nat /\ Len(t.outs) = m + n
    BY <1>3, <1>5
  <2> HIDE DEF m, n
  <2>2. Len(t.outs) \in {m, m + 1}
    BY ONLY <2>1
  <2> QED BY <2>2 DEF m
<1> QED BY <1>4, <1>5, <1>6, <1>7, <1>8

\* What a registration takes in comes out of it again, the rest is the fee it
\* reports, and it reveals what the commitment it spends hides, of its own key,
\* for every reservation, policy, referral chain and funding
\* (build_identity_registration).
THEOREM RegistrationLosesNothingAlways ==
  ASSUME NEW X, Valued(X), NEW key \in Keys, NEW p, Registrable(p, X)
  PROVE  RegistrationLosesNothing(key, p)
<1> DEFINE t == build_identity_registration(key, p)
           Z == X \cup Written(p)
<1>1. SUFFICES ASSUME t.kind = "built"
               PROVE  /\ \A a \in Assets \ {Native} : Total(t.ins, a) = Total(t.outs, a)
                      /\ Left(t) = t.fee
                      /\ {i \in DOMAIN t.outs : t.outs[i].shape = "reservation"} # {}
                      /\ \A i \in {i \in DOMAIN t.outs : t.outs[i].shape = "reservation"} :
                           /\ t.ins[1].data = [commits |-> t.outs[i].data, control |-> key]
                           /\ t.outs[1].owner = t.outs[i].owner
  BY DEF RegistrationLosesNothing, LosesNothing
<1>a. t = build_identity_registration(key, p) /\ Valued(X) /\ Registrable(p, X)
  OBVIOUS
<1> HIDE DEF t
<1>2. PICK fees : fees = checked_registration_fees(p.registration_fee, p.levels, Referred(p))
  OBVIOUS
<1>3. PICK plan : plan = Planned(key, p, fees)
  OBVIOUS
<1>4. /\ Valued(Z) /\ plan.leading \in Seq(X) /\ plan.leading[1] = p.commitment
      /\ plan.change = p.back /\ plan.outs = RegistrationOutputs(key, p, fees)
      /\ Len(plan.leading) \in Nat /\ Len(plan.leading) \geq 1
      /\ \A a \in Tokens : Total(plan.leading, a) = IF p.parent_currency # None /\ a = Own(p)
                             THEN Total(p.parent_currency.token_funding, a) ELSE 0
      /\ \E taken, change : Funded(t, plan, Z, taken, change)
  <2>1. Z = X \cup Written(p)
    OBVIOUS
  <2> HIDE DEF Z
  <2>2. t.kind = "built"
    BY <1>1
  <2>3. /\ Valued(X \cup Written(p)) /\ plan.leading \in Seq(X) /\ plan.leading[1] = p.commitment
        /\ plan.change = p.back /\ plan.outs = RegistrationOutputs(key, p, fees)
        /\ Len(plan.leading) \in Nat /\ Len(plan.leading) \geq 1
        /\ \A a \in Tokens : Total(plan.leading, a) = IF p.parent_currency # None /\ a = Own(p)
                               THEN Total(p.parent_currency.token_funding, a) ELSE 0
        /\ \E taken, change : Funded(t, plan, X \cup Written(p), taken, change)
    <3>1. Registers(t, plan, key, p, fees, X)
      BY ONLY <1>a, <1>2, <1>3, <2>2, RegisteredIs
    <3> QED BY ONLY <3>1 DEF Registers
  <2> QED BY ONLY <2>1, <2>3
<1>5. /\ ~Mismatched(key, p) /\ "kind" \notin DOMAIN fees /\ ~TooLong(p) /\ ~(TokensOver(p) < 0)
      /\ p.parent_currency = None /\ p.reservation.referral = None => p.chain = <<>>
  BY ONLY <1>a, <1>1, <1>2, RegistrationIs
<1>6. fees.referral \in Nat
  BY ONLY <1>a, <1>2, <1>5, BurnedIs
<1>7. TokensOver(p) \geq 0
  <2>1. TokensOver(p) \in Int
    <3>1. p.parent_currency # None =>
            Total(p.parent_currency.token_funding, Own(p)) \in Nat /\ p.parent_currency.fee \in Nat
      BY OwnIsToken, TotalsAreNat, AssetsAre DEF Registrable
    <3> QED BY <3>1 DEF TokensOver, Own
  <2> QED BY <1>5, <2>1
<1>8. /\ plan.outs \in Seq(Written(p)) /\ Len(plan.outs) \geq 1 /\ plan.outs[1] = Primary(Registered(p))
      /\ \E i \in 1..Len(plan.outs) : plan.outs[i] = Revealed(p)
      /\ \A a \in Tokens : Total(plan.outs, a) = IF p.parent_currency # None /\ a = Own(p)
                             THEN Total(p.parent_currency.token_funding, a) ELSE 0
  <2> DEFINE outs == RegistrationOutputs(key, p, fees)
  <2>1. /\ outs \in Seq(Written(p)) /\ Len(outs) \geq 1 /\ outs[1] = Primary(Registered(p))
        /\ \E i \in 1..Len(outs) : outs[i] = Revealed(p)
        /\ \A a \in Tokens : Total(outs, a) = IF p.parent_currency # None /\ a = Own(p)
                               THEN Total(p.parent_currency.token_funding, a) ELSE 0
    BY ONLY <1>a, <1>6, <1>7, OutputsAre
  <2> HIDE DEF outs
  <2>2. plan.outs = outs
    BY <1>4 DEF outs
  <2> QED BY ONLY <2>1, <2>2
<1>9. /\ Placed \subseteq Written(p) /\ \A o \in Written(p) : o.shape = "reservation" => o = Revealed(p)
  BY WrittenAre
<1>10. PICK taken, change : Funded(t, plan, Z, taken, change)
  BY <1>4
<1>11. /\ plan.leading \in Seq(Z) /\ plan.outs \in Seq(Z) /\ plan.change \in Keys \cup Identities /\ Placed \subseteq Z
  <2>1. X \subseteq Z /\ Written(p) \subseteq Z /\ Placed \subseteq Z
    BY <1>9
  <2> HIDE DEF Z
  <2> QED BY <1>4, <1>8, <2>1, SeqGrows DEF Registrable
<1> HIDE DEF Z
<1>12. /\ t.outs \in Seq(Z) /\ Len(plan.outs) \in Nat /\ Len(taken) \in Nat
       /\ Len(t.outs) \in {Len(plan.outs), Len(plan.outs) + 1}
       /\ \A i \in 1..Len(plan.leading) : t.ins[i] = plan.leading[i]
       /\ \A i \in 1..Len(plan.outs) : t.outs[i] = plan.outs[i]
       /\ \A i \in 1..Len(t.outs) : i \leq Len(plan.outs) \/ t.outs[i] = Pay(plan.change, change)
       /\ Left(t) = t.fee
  <2>1. Valued(Z) /\ plan.leading \in Seq(Z) /\ plan.outs \in Seq(Z) /\ plan.change \in Keys \cup Identities
        /\ Placed \subseteq Z /\ Funded(t, plan, Z, taken, change)
    BY <1>4, <1>10, <1>11
  <2> QED BY ONLY <2>1, FundedTokens
<1>13. DOMAIN t.outs = 1..Len(t.outs) /\ \A i \in 1..Len(plan.outs) : plan.outs[i] \in Written(p)
  BY <1>8, <1>12, LenProperties, ElementOfSeq
<1>14. \A i \in 1..Len(plan.outs) : i \in DOMAIN t.outs
  <2> DEFINE m == Len(plan.outs)
             n == Len(t.outs)
  <2>1. m \in Nat /\ n \in {m, m + 1}
    BY <1>12
  <2>2. DOMAIN t.outs = 1..n
    BY <1>13
  <2> HIDE DEF m, n
  <2>3. \A i \in 1..m : i \in 1..n
    BY <2>1
  <2> QED BY <2>2, <2>3 DEF m
<1>15. Revealed(p).shape = "reservation" /\ Revealed(p).owner = Registered(p).id
       /\ Revealed(p).data = to_bytes(p.reservation) /\ Primary(Registered(p)).owner = Registered(p).id
  <2>1. \A shape, owner, data : /\ Carrying(shape, owner, data).shape = shape
                                /\ Carrying(shape, owner, data).owner = owner
                                /\ Carrying(shape, owner, data).data = data
    BY CarryingIs
  <2> DEFINE named == Registered(p)
  <2> HIDE DEF named
  <2>2. Revealed(p) = Carrying("reservation", named.id, to_bytes(p.reservation))
    BY DEF Revealed, reservation_script, named
  <2>3. Primary(named) = Carrying("identity primary", named.id, named)
    BY DEF Primary
  <2>4. /\ Revealed(p).shape = "reservation" /\ Revealed(p).owner = named.id
        /\ Revealed(p).data = to_bytes(p.reservation)
    BY ONLY <2>1, <2>2
  <2>5. Primary(named).owner = named.id
    <3>1. \A owner, data : Carrying("identity primary", owner, data).owner = owner
      BY ONLY <2>1
    <3> DEFINE id == named.id
    <3> HIDE DEF id
    <3>2. Primary(named) = Carrying("identity primary", id, named)
      BY ONLY <2>3 DEF id
    <3>3. Carrying("identity primary", id, named).owner = id
      BY ONLY <3>1
    <3> QED BY ONLY <3>2, <3>3 DEF id
  <2> QED BY ONLY <2>4, <2>5 DEF named
<1>16. ASSUME NEW i \in DOMAIN t.outs, t.outs[i].shape = "reservation" PROVE t.outs[i] = Revealed(p)
  <2>1. CASE i \leq Len(plan.outs)
    <3>1. i \in 1..Len(plan.outs)
      BY <1>12, <1>13, <2>1
    <3> QED BY <1>9, <1>12, <1>13, <1>16, <3>1
  <2>2. CASE ~(i \leq Len(plan.outs))
    <3>1. t.outs[i] = Pay(plan.change, change)
      BY <1>12, <1>13, <2>2
    <3>2. Pay(plan.change, change).shape \in {"p2pkh", "identity"}
      BY DEF Pay, Output
    <3> QED BY <1>16, <3>1, <3>2
  <2> QED BY <2>1, <2>2
<1>17. {i \in DOMAIN t.outs : t.outs[i].shape = "reservation"} # {}
  BY <1>8, <1>12, <1>14, <1>15
<1>18. t.ins[1] = p.commitment /\ t.outs[1] = Primary(Registered(p))
  <2>1. 1 \in 1..Len(plan.leading) /\ 1 \in 1..Len(plan.outs)
    BY <1>4, <1>8, <1>12
  <2> QED BY <1>4, <1>8, <1>12, <2>1
<1>19. p.commitment.data = [commits |-> to_bytes(p.reservation), control |-> key]
  BY <1>5 DEF Mismatched, commitment_script, commitment_hash
<1>20. \A a \in Tokens : Total(t.ins, a) = Total(t.outs, a)
  <2>1. \A a \in Tokens : Total(t.ins, a) = Total(plan.leading, a) /\ Total(t.outs, a) = Total(plan.outs, a)
    BY <1>10 DEF Funded
  <2> QED BY <1>4, <1>8, <2>1
<1>21. \A a \in Assets \ {Native} : a \in Tokens
  BY DEF Assets
<1>22. ASSUME NEW i \in DOMAIN t.outs, t.outs[i].shape = "reservation"
       PROVE  /\ t.ins[1].data = [commits |-> t.outs[i].data, control |-> key]
              /\ t.outs[1].owner = t.outs[i].owner
  <2>1. t.outs[i] = Revealed(p)
    BY <1>16, <1>22
  <2> QED BY <1>15, <1>18, <1>19, <2>1
<1> QED BY <1>12, <1>17, <1>20, <1>21, <1>22

LEMMA PrimaryShape ==
  ASSUME NEW p
  PROVE  Primary(Registered(p)).shape = "identity primary" /\ Revealed(p).shape = "reservation"
<1>1. \A shape, owner, data : Carrying(shape, owner, data).shape = shape
  BY CarryingIs
<1> QED BY <1>1 DEF Primary, Revealed, reservation_script

\* The outputs of a registration under the chain.
LEMMA RootOutputsAre ==
  ASSUME NEW X, Valued(X), NEW key, NEW p, Registrable(p, X), p.parent_currency = None,
         NEW fees, fees.referral \in Nat
  PROVE  LET outs == RegistrationOutputs(key, p, fees)
             k == Len(Referrers(p))
         IN /\ k \in Nat /\ outs \in Seq(Written(p)) /\ Len(outs) = k + 2
            /\ outs[1] = Primary(Registered(p)) /\ outs[k + 2] = Revealed(p)
            /\ \A i \in 1..k : outs[1 + i] = Pay(Referrers(p)[i], fees.referral)
<1> DEFINE W == Written(p)
           k == Len(Referrers(p))
           first == <<Primary(Registered(p))>>
           refs  == [i \in DOMAIN Referrers(p) |-> Pay(Referrers(p)[i], fees.referral)]
           rev   == <<Revealed(p)>>
           outs  == RegistrationOutputs(key, p, fees)
<1>1. outs = (((first \o <<>>) \o refs) \o rev) \o <<>>
  <2>1. SubFee(key, p) = <<>> /\ TokensOver(p) = 0
    BY DEF SubFee, TokensOver
  <2>2. (IF TokensOver(p) > 0 THEN <<Reserve(p.back, CurrencyOf(p.reservation.parent), TokensOver(p))>> ELSE <<>>) = <<>>
    BY <2>1
  <2> QED BY <2>1, <2>2 DEF RegistrationOutputs, Revealed
<1>2. /\ Valued(W) /\ Placed \subseteq W
      /\ first \in Seq(W) /\ Len(first) = 1 /\ first[1] = Primary(Registered(p))
      /\ rev \in Seq(W) /\ Len(rev) = 1 /\ rev[1] = Revealed(p)
  BY WrittenAre
<1>3. k \in Nat /\ DOMAIN Referrers(p) = 1..k
  BY ReferrersAre
<1>4. refs \in Seq(W) /\ Len(refs) = k /\ \A i \in 1..k : refs[i] = Pay(Referrers(p)[i], fees.referral)
  <2>1. refs \in Seq(Placed) /\ Len(refs) = k
    BY ReferralsArePaid
  <2>2. \A i \in 1..k : refs[i] = Pay(Referrers(p)[i], fees.referral)
    BY <1>3
  <2> HIDE DEF refs, W
  <2> QED BY <1>2, <2>1, <2>2, SeqGrows
<1> HIDE DEF W, first, refs, rev, outs, k
<1> DEFINE a == first \o refs
           b == a \o rev
<1>5. /\ a \in Seq(W) /\ Len(a) = 1 + k /\ a[1] = first[1] /\ \A i \in 1..k : a[1 + i] = refs[i]
  <2>1. /\ a \in Seq(W) /\ Len(a) = Len(first) + Len(refs)
        /\ \A i \in 1..Len(first) : a[i] = first[i]
        /\ \A i \in 1..Len(refs) : a[Len(first) + i] = refs[i]
    <3>1. Valued(W) /\ first \in Seq(W) /\ refs \in Seq(W)
      BY <1>2, <1>4
    <3> QED BY ONLY <3>1, Behind
  <2>2. 1 \in 1..Len(first)
    BY <1>2
  <2> QED BY <1>2, <1>4, <2>1, <2>2
<1>6. first \o <<>> = first /\ outs = b \o <<>>
  BY <1>1, <1>2, ConcatEmptySeq
<1> HIDE DEF a
<1>7. /\ b \in Seq(W) /\ Len(b) = (1 + k) + 1 /\ b[(1 + k) + 1] = rev[1]
      /\ \A i \in 1..(1 + k) : b[i] = a[i]
  <2>1. /\ b \in Seq(W) /\ Len(b) = Len(a) + Len(rev)
        /\ \A i \in 1..Len(a) : b[i] = a[i]
        /\ \A i \in 1..Len(rev) : b[Len(a) + i] = rev[i]
    <3>1. Valued(W) /\ a \in Seq(W) /\ rev \in Seq(W)
      BY <1>2, <1>5
    <3> QED BY ONLY <3>1, Behind
  <2>2. 1 \in 1..Len(rev)
    BY <1>2
  <2> QED BY <1>2, <1>5, <2>1, <2>2
<1> HIDE DEF b
<1>8. outs = b
  BY <1>6, <1>7, ConcatEmptySeq
<1>9. ASSUME NEW i \in 1..k PROVE outs[1 + i] = Pay(Referrers(p)[i], fees.referral)
  <2>1. 1 + i \in 1..(1 + k)
    BY <1>3
  <2> QED BY <1>4, <1>5, <1>7, <1>8, <2>1
<1>10. 1 \in 1..(1 + k) /\ (1 + k) + 1 = k + 2
  BY <1>3
<1>11. /\ k \in Nat /\ outs \in Seq(Written(p)) /\ Len(outs) = k + 2
       /\ outs[1] = Primary(Registered(p)) /\ outs[k + 2] = Revealed(p)
  BY <1>2, <1>3, <1>5, <1>7, <1>8, <1>10 DEF W
<1> QED BY <1>9, <1>11 DEF outs, k

\* A referral makes a registration cheaper however long the chain that is paid:
\* every referrer gets the same share, what is paid and what is left over are no
\* more than the fee and the miner's, and at least a share is burned
\* (checked_registration_fees, build_identity_registration).
THEOREM ReferralsComeOutOfTheFeeAlways ==
  ASSUME NEW X, Valued(X), NEW key \in Keys, NEW p, Registrable(p, X),
         \A i \in DOMAIN Referrers(p) : Referrers(p)[i] # p.back
  PROVE  ReferralsComeOutOfTheFee(key, p)
<1> DEFINE t == build_identity_registration(key, p)
           share == p.registration_fee \div (p.levels + 2)
           paid == {i \in DOMAIN t.outs : t.outs[i].shape = "identity" /\ t.outs[i].owner # p.back}
           k == Len(Referrers(p))
           Z == X \cup Written(p)
<1>1. SUFFICES ASSUME t.kind = "built", p.parent_currency = None
               PROVE  /\ Cardinality(paid) * share + Left(t) \leq p.registration_fee + OwnFee(t)
                      /\ Left(t) \geq share
                      /\ \A i \in paid : t.outs[i].value = Of(Native, share)
                      /\ Referred(p) <=> paid # {}
  BY DEF ReferralsComeOutOfTheFee, SharesTheFee
<1>a. /\ t = build_identity_registration(key, p) /\ Valued(X) /\ Registrable(p, X)
      /\ p.parent_currency = None /\ t.kind = "built"
  BY <1>1
<1> HIDE DEF t, share, k
<1>2. PICK fees : fees = checked_registration_fees(p.registration_fee, p.levels, Referred(p))
  OBVIOUS
<1>3. PICK plan : plan = Planned(key, p, fees)
  OBVIOUS
<1>4. Registers(t, plan, key, p, fees, X)
  BY ONLY <1>a, <1>2, <1>3, RegisteredIs
<1>5. /\ "kind" \notin DOMAIN fees /\ ~TooLong(p)
      /\ p.parent_currency = None /\ p.reservation.referral = None => p.chain = <<>>
  BY ONLY <1>a, <1>2, RegistrationIs
<1>6. /\ Burned(p, fees) \in Nat /\ fees.referral \in Nat /\ share \in Nat
      /\ k * share + Burned(p, fees) \leq p.registration_fee /\ share \leq Burned(p, fees)
      /\ k # 0 => fees.referral = share
      /\ Referred(p) <=> k # 0
  <2>1. LET m == Len(Referrers(p))
            part == p.registration_fee \div (p.levels + 2)
        IN /\ Burned(p, fees) \in Nat /\ fees.referral \in Nat /\ part \in Nat
           /\ p.parent_currency = None =>
                /\ m * part + Burned(p, fees) \leq p.registration_fee /\ part \leq Burned(p, fees)
                /\ m # 0 => fees.referral = part
                /\ Referred(p) <=> m # 0
    BY ONLY <1>a, <1>2, <1>5, BurnedIs
  <2> QED BY <1>a, <2>1 DEF share, k
<1>7. /\ k \in Nat /\ plan.outs \in Seq(Written(p)) /\ Len(plan.outs) = k + 2
      /\ plan.outs[1] = Primary(Registered(p)) /\ plan.outs[k + 2] = Revealed(p)
      /\ \A i \in 1..k : plan.outs[1 + i] = Pay(Referrers(p)[i], fees.referral)
  <2> DEFINE outs == RegistrationOutputs(key, p, fees)
  <2>1. /\ k \in Nat /\ outs \in Seq(Written(p)) /\ Len(outs) = k + 2
        /\ outs[1] = Primary(Registered(p)) /\ outs[k + 2] = Revealed(p)
        /\ \A i \in 1..k : outs[1 + i] = Pay(Referrers(p)[i], fees.referral)
    BY ONLY <1>a, <1>6, RootOutputsAre DEF k
  <2> HIDE DEF outs
  <2>2. plan.outs = outs
    BY <1>4 DEF outs, Registers
  <2> QED BY ONLY <2>1, <2>2
<1>8. /\ Valued(Z) /\ plan.leading \in Seq(X) /\ plan.change = p.back /\ Len(plan.leading) = 1
      /\ plan.counted = 3 + k /\ plan.burn = Burned(p, fees)
      /\ \E taken, change : Funded(t, plan, Z, taken, change)
  BY <1>4, <1>a DEF Registers, k
<1>9. PICK taken, change : Funded(t, plan, Z, taken, change)
  BY <1>8
<1>10. /\ plan.leading \in Seq(Z) /\ plan.outs \in Seq(Z) /\ plan.change \in Keys \cup Identities /\ Placed \subseteq Z
  <2>1. X \subseteq Z /\ Written(p) \subseteq Z /\ Placed \subseteq Z
    BY WrittenAre
  <2> HIDE DEF Z
  <2> QED BY <1>7, <1>8, <2>1, SeqGrows DEF Registrable
<1> HIDE DEF Z
<1>11. /\ t.outs \in Seq(Z) /\ Len(taken) \in Nat /\ Len(t.ins) = 1 + Len(taken)
       /\ Len(t.outs) \in {k + 2, (k + 2) + 1}
       /\ \A i \in 1..(k + 2) : t.outs[i] = plan.outs[i]
       /\ \A i \in 1..Len(t.outs) : i \leq k + 2 \/ t.outs[i] = Pay(p.back, change)
       /\ Left(t) = t.fee
  <2>1. Valued(Z) /\ plan.leading \in Seq(Z) /\ plan.outs \in Seq(Z) /\ plan.change \in Keys \cup Identities
        /\ Placed \subseteq Z /\ Funded(t, plan, Z, taken, change)
    BY <1>8, <1>9, <1>10
  <2>2. /\ t.outs \in Seq(Z) /\ Len(taken) \in Nat /\ Len(t.ins) = Len(plan.leading) + Len(taken)
        /\ Len(t.outs) \in {Len(plan.outs), Len(plan.outs) + 1}
        /\ \A i \in 1..Len(plan.outs) : t.outs[i] = plan.outs[i]
        /\ \A i \in 1..Len(t.outs) : i \leq Len(plan.outs) \/ t.outs[i] = Pay(plan.change, change)
        /\ Left(t) = t.fee
    BY ONLY <2>1, FundedTokens
  <2> QED BY <1>7, <1>8, <2>2
<1>12. paid = 2..(k + 1)
  <2>1. Primary(Registered(p)).shape # "identity" /\ Revealed(p).shape # "identity"
    BY PrimaryShape
  <2>2. ASSUME NEW i \in 1..k
        PROVE  t.outs[1 + i].shape = "identity" /\ t.outs[1 + i].owner # p.back
    <3>1. 1 + i \in 1..(k + 2) /\ i \in DOMAIN Referrers(p) /\ Referrers(p)[i] \in Identities
      BY <1>7, ReferrersAre DEF k
    <3>2. t.outs[1 + i] = Pay(Referrers(p)[i], fees.referral)
      BY <1>7, <1>11, <3>1
    <3>3. Referrers(p)[i] \notin Keys /\ Referrers(p)[i] # p.back
      BY <3>1, BuildersAssumption
    <3> QED BY <3>2, <3>3 DEF Pay, Output
  <2>3. Pay(p.back, change).owner = p.back
    BY DEF Pay, Output
  <2>4. DOMAIN t.outs = 1..Len(t.outs)
    BY <1>11, LenProperties
  <2>5. ASSUME NEW i \in paid PROVE i \in 2..(k + 1)
    <3>1. /\ i \in 1..Len(t.outs) /\ t.outs[i].shape = "identity" /\ t.outs[i].owner # p.back
      BY <2>4
    <3>2. i \leq k + 2
      BY <1>11, <2>3, <3>1
    <3>3. i \in 1..(k + 2) /\ 1 \in 1..(k + 2) /\ k + 2 \in 1..(k + 2)
      BY <1>7, <3>1, <3>2
    <3>4. i # 1 /\ i # k + 2
      BY <1>7, <1>11, <2>1, <3>1, <3>3
    <3> QED BY <1>7, <3>3, <3>4
  <2>6. ASSUME NEW i \in 2..(k + 1) PROVE i \in paid
    <3>1. i - 1 \in 1..k /\ 1 + (i - 1) = i
      BY <1>7
    <3>2. t.outs[i].shape = "identity" /\ t.outs[i].owner # p.back
      BY <2>2, <3>1
    <3>3. i \in 1..Len(t.outs)
      <4> DEFINE n == Len(t.outs)
      <4>1. n \in {k + 2, (k + 2) + 1} /\ k \in Nat
        BY <1>7, <1>11
      <4> HIDE DEF n
      <4>2. i \in 1..n
        BY ONLY <2>6, <4>1
      <4> QED BY <4>2 DEF n
    <3> QED BY <2>4, <3>2, <3>3
  <2> HIDE DEF paid
  <2> QED BY <2>5, <2>6
<1> HIDE DEF paid
<1>13. Cardinality(paid) = k /\ (paid = {} <=> k = 0)
  <2>1. Cardinality(2..(k + 1)) = IF 2 > k + 1 THEN 0 ELSE (k + 1) - 2 + 1
    BY <1>7, FS_Interval
  <2>2. k # 0 => 2 \in 2..(k + 1)
    BY <1>7
  <2>3. k = 0 => 2..(k + 1) = {}
    BY <1>7
  <2> QED BY <1>7, <1>12, <2>1, <2>2, <2>3
<1>14. ASSUME NEW i \in paid PROVE t.outs[i].value = Of(Native, share)
  <2>1. i - 1 \in 1..k /\ 1 + (i - 1) = i /\ i \in 1..(k + 2) /\ k # 0
    BY <1>7, <1>12
  <2>2. t.outs[i] = Pay(Referrers(p)[i - 1], fees.referral)
    BY <1>7, <1>11, <2>1
  <2> QED BY <1>6, <2>1, <2>2 DEF Pay, Output
<1>15. k * share + Left(t) \leq p.registration_fee + OwnFee(t) /\ Left(t) \geq share
  <2> DEFINE ins == Len(t.ins) + 1
             outs == Len(t.outs) + 2
             mine == Price(Len(taken) + 1, (3 + k) + 1, TRUE)
             own == Price(ins, outs, TRUE)
             referrals == k * share
             burn == Burned(p, fees)
  <2>1. Len(taken) + 1 \in Nat /\ (3 + k) + 1 \in Nat /\ ins \in Nat /\ outs \in Nat
        /\ Len(taken) + 1 \leq ins /\ (3 + k) + 1 \leq outs
    <3> DEFINE n == Len(t.outs)
               m == Len(taken)
    <3>1. n \in {k + 2, (k + 2) + 1} /\ k \in Nat /\ m \in Nat /\ Len(t.ins) = 1 + m
      BY <1>7, <1>11
    <3> HIDE DEF n, m
    <3>2. m + 1 \in Nat /\ (3 + k) + 1 \in Nat /\ (1 + m) + 1 \in Nat /\ n + 2 \in Nat
          /\ m + 1 \leq (1 + m) + 1 /\ (3 + k) + 1 \leq n + 2
      BY ONLY <3>1
    <3> QED BY <3>1, <3>2 DEF n, m
  <2>2. mine \leq own /\ mine \in Nat /\ own \in Nat
    <3> HIDE DEF ins, outs
    <3> QED BY <2>1, PriceGrows, PriceType
  <2>3. t.fee \in Nat /\ t.fee - burn \in Nat /\ t.fee - burn \leq mine + DUST_THRESHOLD
    BY <1>8, <1>9 DEF Funded
  <2>4. referrals + burn \leq p.registration_fee /\ share \leq burn /\ burn \in Nat /\ share \in Nat
    BY <1>6
  <2>5. OwnFee(t) = own + DUST_THRESHOLD /\ DUST_THRESHOLD \in Nat /\ p.registration_fee \in Nat
    BY BuildersAssumption DEF OwnFee, Registrable
  <2>6. referrals \in Nat
    BY <1>6, <1>7
  <2> HIDE DEF mine, own, referrals, burn
  <2>7. referrals + t.fee \leq p.registration_fee + (own + DUST_THRESHOLD) /\ t.fee \geq share
    BY <2>2, <2>3, <2>4, <2>5, <2>6
  <2> QED BY <1>11, <2>5, <2>7 DEF referrals
<1> QED BY <1>6, <1>13, <1>14, <1>15

\* A commitment takes its miner's fee and nothing else, and the registration of
\* the name it hides accepts it, for every reservation and funding
\* (build_name_commitment).
THEOREM CommitmentLosesNothingAlways ==
  ASSUME NEW X, Valued(X), NEW key \in Keys, NEW p, Registrable(p, X),
         {"commitment", "reservation"} \subseteq DOMAIN p
  PROVE  CommitmentLosesNothing(key, p)
<1> DEFINE t == build_name_commitment(key, p.utxos, p.reservation, p.back)
           out == Carrying("commitment", key, commitment_script(commitment_hash(p.reservation), key))
           plan == [burn |-> 0, leading |-> <<>>, funding |-> p.utxos, outs |-> <<out>>,
                    counted |-> 1, change |-> p.back, bearing |-> FALSE]
           Z == X \cup (Placed \cup {out})
<1>1. SUFFICES ASSUME t.kind = "built"
               PROVE  /\ \A a \in Assets : Total(t.ins, a) = Total(t.outs, a) + (IF a = Native THEN t.fee ELSE 0)
                      /\ ~Mismatched(key, [p EXCEPT !.commitment = t.outs[1]])
  BY DEF CommitmentLosesNothing, CommitsToTheName
<1>2. t = assemble(key, plan) /\ \A i \in DOMAIN p.utxos : p.utxos[i].shape = "p2pkh"
  <2>1. \A why : Refused(why).kind # "built"
    BY DEF Refused
  <2> DEFINE tx == assemble(key, plan)
             odd == \E i \in DOMAIN p.utxos : p.utxos[i].shape # "p2pkh"
             here == t
  <2>2. here = IF odd THEN Refused("unsupported funding") ELSE tx
    BY DEF build_name_commitment
  <2>3. here.kind = "built"
    BY <1>1
  <2> HIDE DEF here, odd, tx
  <2>4. ~odd /\ here = tx
    BY <2>1, <2>2, <2>3
  <2> QED BY <2>4 DEF here, odd, tx
<1>3. t.kind = "built"
  BY <1>1
<1> HIDE DEF t
<1>4. /\ out.shape = "commitment" /\ out.data = commitment_script(commitment_hash(p.reservation), key)
      /\ out.value \in Value /\ \A a \in Assets : out.value[a] = 0
  BY CarryingIs
<1> HIDE DEF out
<1>5. Valued(Z) /\ X \subseteq Z /\ Placed \subseteq Z /\ <<out>> \in Seq(Z)
  <2>1. \A o \in Placed : o.value \in Value
    BY DEF Placed
  <2> QED BY <1>4, <2>1 DEF Valued
<1> HIDE DEF Z
<1>6. \E taken, change : Funded(t, plan, Z, taken, change)
  <2>1. p.utxos \in Seq(X) /\ p.utxos \in Seq(Z) /\ p.back \in Keys \cup Identities
    <3>1. p.utxos \in Seq(X) /\ p.back \in Keys \cup Identities
      BY DEF Registrable
    <3> QED BY <1>5, <3>1, SeqGrows
  <2>2. Plain(p.utxos)
    <3>1. \A i \in DOMAIN p.utxos : p.utxos[i] \in X
      BY <2>1, LenProperties, ElementOfSeq
    <3>2. \A i \in DOMAIN p.utxos, a \in Tokens : p.utxos[i].value[a] = 0
      BY <1>2, <3>1 DEF Registrable
    <3> QED BY <3>2 DEF Plain
  <2>3. /\ plan.bearing = FALSE /\ plan.leading = <<>> /\ plan.funding = p.utxos /\ plan.outs = <<out>>
        /\ plan.counted = 1 /\ plan.burn = 0 /\ plan.change = p.back
    OBVIOUS
  <2>4. t = assemble(key, plan)
    BY <1>2
  <2> HIDE DEF plan
  <2>5. /\ Valued(Z) /\ plan.bearing = FALSE /\ plan.leading \in Seq(Z) /\ plan.funding \in Seq(Z)
        /\ Plain(plan.funding) /\ plan.outs \in Seq(Z) /\ plan.counted \in Nat /\ plan.burn \in Nat
        /\ plan.change \in Keys \cup Identities /\ Placed \subseteq Z
    BY <1>5, <2>1, <2>2, <2>3, EmptySeq
  <2> QED BY ONLY <1>3, <2>4, <2>5, FundedIs
<1>7. PICK taken, change : Funded(t, plan, Z, taken, change)
  BY <1>6
<1>8. plan.leading = <<>> /\ plan.outs = <<out>> /\ plan.change = p.back
  OBVIOUS
<1> HIDE DEF plan
<1>9. plan.leading \in Seq(Z) /\ plan.outs \in Seq(Z) /\ plan.change \in Keys \cup Identities
  BY <1>5, <1>8, EmptySeq DEF Registrable
<1>10. t.outs[1] = out
  <2>1. \A i \in 1..Len(plan.outs) : t.outs[i] = plan.outs[i]
    BY ONLY <1>5, <1>7, <1>9, FundedTokens
  <2> QED BY <1>8, <2>1
<1>11. ASSUME NEW a \in Assets
       PROVE  Total(t.ins, a) = Total(t.outs, a) + (IF a = Native THEN t.fee ELSE 0)
  <2>1. CASE a = Native
    BY <1>7, <2>1 DEF Funded
  <2>2. CASE a # Native
    <3>1. a \in Tokens
      BY <2>2 DEF Assets
    <3>2. Total(plan.leading, a) = 0
      BY <1>8, TotalOfEmpty
    <3>3. Total(plan.outs, a) = 0
      <4>1. Total(<<out>>, a) = out.value[a]
        BY <1>4, TotalOfSingle
      <4> QED BY <1>4, <1>8, <4>1
    <3>4. Total(t.ins, a) = 0 /\ Total(t.outs, a) = 0
      BY <1>7, <3>1, <3>2, <3>3 DEF Funded
    <3> QED BY <2>2, <3>4
  <2> QED BY <2>1, <2>2
<1>12. ~Mismatched(key, [p EXCEPT !.commitment = t.outs[1]])
  <2> DEFINE q == [p EXCEPT !.commitment = t.outs[1]]
  <2>1. q.commitment = out /\ q.reservation = p.reservation
    BY <1>10
  <2> HIDE DEF q
  <2>2. ~Mismatched(key, q)
    BY <1>4, <2>1 DEF Mismatched
  <2> QED BY <2>2 DEF q
<1> QED BY <1>11, <1>12

-----------------------------------------------------------------------------
(***************************************************************************)
(* Launches                                                                *)
(***************************************************************************)
\* The conversion fee is a part of what is converted.
FeeIsAPart ==
  SUCCESS_FEE \in Nat /\ SATOSHIDEN \in Nat /\ SUCCESS_FEE < SATOSHIDEN /\ CONTRIBUTION_TRANSFER_FEE \in Nat

\* A launch as prepare_launch is asked for one: the keys are any, the funding
\* is what funding::spendable keeps, and the node says what fees it likes.
Launchable(keys, def, pin, node, X) ==
  /\ keys \in Seq(Keys)
  /\ node.output # None =>
       node.output \in X /\ node.output.data.min_sigs \in Nat
  /\ node.utxos \in Seq(X) /\ Plain(node.utxos)
  /\ {node.policy.id_import_fee, node.policy.currency_registration_fee} \subseteq Nat
  /\ pin \in Nat \cup {None}
  /\ def.initial_contributions \in Seq(Nat)

LEMMA QuotientIs ==
  ASSUME NEW n \in Nat, NEW d \in Nat, d > 0
  PROVE  /\ n \div d \in Nat
         /\ (n \div d) * d \leq n /\ n < (n \div d) * d + d
<1> DEFINE q == n \div d
           r == n % d
<1>1. q \in Int /\ r \in 0..(d - 1) /\ n = d * q + r /\ q \in Nat
  OBVIOUS
<1>2. d * q = q * d
  BY <1>1
<1> DEFINE p == q * d
<1>3. p \in Int /\ n = p + r
  BY <1>1, <1>2
<1> HIDE DEF q, r, p
<1>4. p \leq n /\ n < p + d
  BY <1>1, <1>3
<1> QED BY <1>1, <1>4 DEF q, p

\* Who has fewer of them has one less at most.
LEMMA FewerProducts ==
  ASSUME NEW m \in Int, NEW a \in Int, NEW d \in Nat, d > 0
  PROVE  m < a => m * d + d \leq a * d
<1> SUFFICES ASSUME m < a PROVE m * d + d \leq a * d
  OBVIOUS
<1>1. PICK k \in Nat : a = m + 1 + k
  <2>1. a - m - 1 \in Nat /\ a = m + 1 + (a - m - 1)
    OBVIOUS
  <2> QED BY <2>1
<1> DEFINE more == k * d
           here == m * d
<1>2. more \in Nat /\ here \in Int /\ (m + 1 + k) * d = here + d + more
  OBVIOUS
<1>3. a * d = here + d + more
  BY <1>1, <1>2
<1> HIDE DEF more, here
<1>4. here + d \leq here + d + more
  BY <1>2
<1> QED BY <1>3, <1>4 DEF here

\* What is left when the fee is taken out of what was sent is what was declared.
LEMMA GrossedIs ==
  ASSUME FeeIsAPart, NEW a \in Nat
  PROVE  /\ Grossed(a) \in Nat
         /\ Grossed(a) - (Grossed(a) * SUCCESS_FEE) \div SATOSHIDEN = a
<1> DEFINE D == SATOSHIDEN
           S == SUCCESS_FEE
           B == D - S
           g == Grossed(a)
           q == (g * S) \div D
           m == g - q
<1>1. D \in Nat /\ S \in Nat /\ B \in Nat /\ D > 0 /\ B > 0 /\ B \leq D /\ D = B + S
  BY DEF FeeIsAPart
<1> HIDE DEF D, S, B
<1>2. g \in Nat /\ g * B \leq a * D /\ a * D < g * B + B
  <2>1. g = (a * D) \div B
    BY DEF Grossed, D, S, B
  <2>2. a * D \in Nat
    BY <1>1
  <2> HIDE DEF g
  <2> QED BY <1>1, <2>1, <2>2, QuotientIs
<1> HIDE DEF g
<1>3. q \in Nat /\ q * D \leq g * S /\ g * S < q * D + D
  <2>1. g * S \in Nat
    BY <1>1, <1>2
  <2> QED BY <1>1, <2>1, QuotientIs
<1> HIDE DEF q
<1>4. m \in Int /\ m * D = g * D - q * D /\ g * D = g * B + g * S
  <2>1. m \in Int /\ m * D = g * D - q * D
    BY <1>1, <1>2, <1>3
  <2>2. g * (B + S) = g * B + g * S
    BY <1>1, <1>2
  <2> QED BY <1>1, <2>1, <2>2
<1> HIDE DEF m
<1> DEFINE mD == m * D
           gD == g * D
           qD == q * D
           gB == g * B
           gS == g * S
           aD == a * D
<1>5. /\ mD \in Int /\ gD \in Int /\ qD \in Int /\ gB \in Int /\ gS \in Int /\ aD \in Int
      /\ mD = gD - qD /\ gD = gB + gS /\ qD \leq gS /\ gS < qD + D /\ gB \leq aD /\ aD < gB + B
  BY <1>1, <1>2, <1>3, <1>4
<1>6. (m < a => mD + D \leq aD) /\ (a < m => aD + D \leq mD)
  BY <1>1, <1>4, FewerProducts
<1> HIDE DEF mD, gD, qD, gB, gS, aD
<1>7. aD < mD + D /\ mD < aD + D
  BY <1>1, <1>5
<1>8. ~(m < a) /\ ~(a < m)
  BY <1>1, <1>5, <1>6, <1>7
<1>9. m = a
  BY <1>4, <1>8
<1> QED BY <1>2, <1>9 DEF m, q, g, D, S

\* What is contributed, if anything: one output, of the one contribution there is.
Contributes(def, outs, X) ==
  \/ outs = <<>> /\ Cardinality(Contributed(def)) = 0
  \/ \E o \in X, j \in Contributed(def) :
       /\ outs = <<o>> /\ Cardinality(Contributed(def)) = 1 /\ o.shape = "transfer"
       /\ Sat(o) = o.data.amount + CONTRIBUTION_TRANSFER_FEE
       /\ o.data.amount - (o.data.amount * SUCCESS_FEE) \div SATOSHIDEN = def.initial_contributions[j]

LEMMA ContributedIsFinite ==
  ASSUME NEW def, def.initial_contributions \in Seq(Nat)
  PROVE  /\ IsFiniteSet(Contributed(def)) /\ Cardinality(Contributed(def)) \in Nat
         /\ Cardinality(Contributed(def)) = 0 <=> Contributed(def) = {}
         /\ \A i \in Contributed(def) : def.initial_contributions[i] \in Nat
<1>1. DOMAIN def.initial_contributions = 1..Len(def.initial_contributions)
      /\ Len(def.initial_contributions) \in Nat
      /\ \A i \in 1..Len(def.initial_contributions) : def.initial_contributions[i] \in Nat
  BY LenProperties, ElementOfSeq
<1>2. Contributed(def) \subseteq 1..Len(def.initial_contributions)
  BY <1>1 DEF Contributed
<1>3. IsFiniteSet(Contributed(def))
  <2> DEFINE n == Len(def.initial_contributions)
  <2> HIDE DEF n
  <2>1. IsFiniteSet(1..n) /\ Contributed(def) \subseteq 1..n
    BY <1>1, <1>2, FS_Interval DEF n
  <2> QED BY <2>1, FS_Subset
<1>4. \A i \in Contributed(def) : def.initial_contributions[i] \in Nat
  BY <1>1, <1>2
<1> DEFINE S == Contributed(def)
<1> HIDE DEF S
<1>5. IsFiniteSet(S) => Cardinality(S) \in Nat /\ (Cardinality(S) = 0 <=> S = {})
  BY FS_CardinalityType, FS_EmptySet
<1> QED BY <1>3, <1>4, <1>5 DEF S

LEMMA ContributionIs ==
  ASSUME FeeIsAPart, NEW def, def.initial_contributions \in Seq(Nat), NEW context,
         NEW c, c = contribution_output(def, context), c.kind # "refused"
  PROVE  \E X : Valued(X) /\ c.outs \in Seq(X) /\ Contributes(def, c.outs, X)
<1> DEFINE one == CHOOSE i \in Contributed(def) : TRUE
           amount == Grossed(def.initial_contributions[one])
           n == Cardinality(Contributed(def))
           said == [kind |-> "contribution", amount |-> amount, to |-> context.identity.id]
           o == Scripted("transfer", Protocol, amount + CONTRIBUTION_TRANSFER_FEE, said)
           here == def.currencies
<1>1. \A why : Refused(why).kind = "refused"
  BY DEF Refused
<1>2. n \in Nat /\ (n = 0 <=> Contributed(def) = {})
      /\ \A i \in Contributed(def) : def.initial_contributions[i] \in Nat
  BY ContributedIsFinite
<1> DEFINE none == Contributed(def) = {}
           many == n > 1
           lost == Contributed(def) # {} /\ one \notin DOMAIN here
           alien == n = 1 /\ one \in DOMAIN here /\ here[one] # def.system
           nothing == [kind |-> "outputs", outs |-> <<>>]
           something == [kind |-> "outputs", outs |-> <<o>>]
           no(why) == Refused(why)
<1>a. (none => ~many /\ ~lost /\ ~alien) /\ (~none /\ ~many => n = 1)
  <2> HIDE DEF n, one, here
  <2> QED BY <1>2
<1>b. c = CASE none -> nothing
            [] many -> no("several contributions")
            [] lost -> no("no such reserve")
            [] alien -> no("token contribution")
            [] OTHER -> something
  BY DEF contribution_output
<1>c. \A why : no(why).kind = "refused"
  BY <1>1
<1> HIDE DEF none, many, lost, alien, nothing, something, no
<1>d. (none => c = nothing) /\ (~none => c = something /\ n = 1)
  <2>1. ~many /\ ~lost /\ ~alien
    BY <1>a, <1>b, <1>c
  <2> QED BY <1>a, <1>b, <2>1
<1>3. CASE Contributed(def) = {}
  <2>1. c.outs = <<>>
    BY <1>3, <1>d DEF none, nothing
  <2>2. Valued({}) /\ c.outs \in Seq({}) /\ Contributes(def, c.outs, {})
    BY <1>2, <1>3, <2>1, EmptySeq DEF Valued, Contributes
  <2> QED BY <2>2
<1>4. CASE Contributed(def) # {}
  <2>1. one \in Contributed(def)
    BY <1>4
  <2>2. amount \in Nat /\ amount - (amount * SUCCESS_FEE) \div SATOSHIDEN = def.initial_contributions[one]
    <3>1. def.initial_contributions[one] \in Nat
      BY <1>2, <2>1
    <3> HIDE DEF one
    <3> QED BY <3>1, GrossedIs
  <2>3. c.outs = <<o>> /\ n = 1
    <3> HIDE DEF o, n
    <3> QED BY <1>4, <1>d DEF none, something
  <2>5. o.shape = "transfer" /\ o.data = said /\ o.value \in Value /\ Sat(o) = amount + CONTRIBUTION_TRANSFER_FEE
    <3>1. amount + CONTRIBUTION_TRANSFER_FEE \in Nat
      <4> HIDE DEF amount
      <4> QED BY <2>2 DEF FeeIsAPart
    <3> HIDE DEF amount, said
    <3> QED BY <3>1, ScriptedIs DEF Sat
  <2>6. o.data.amount = amount
    <3> HIDE DEF o
    <3> QED BY <2>5
  <2> HIDE DEF o, amount, one
  <2>7. Contributes(def, c.outs, {o})
    BY <2>1, <2>2, <2>3, <2>5, <2>6 DEF Contributes
  <2>8. Valued({o}) /\ c.outs \in Seq({o})
    BY <2>3, <2>5 DEF Valued
  <2> QED BY <2>7, <2>8
<1> QED BY <1>3, <1>4

\* What is launched can be contributed to.
LEMMA UnrefusedContribution ==
  ASSUME NEW def, NEW context, LaunchRefusal(def, context).kind # "refused"
  PROVE  contribution_output(def, context).kind # "refused"
<1> DEFINE c == contribution_output(def, context)
           r == LaunchRefusal(def, context)
           s == serialize_definition(def)
           active == "ACTIVE_CURRENCY" \in context.identity.flags
           another == identity_id(def.name, def.parent) # context.identity.id
           early == def.start_block \leq context.height
           free == context.launch_fee = 0
           odd == is_nft(def) /\ (def.currencies # <<def.system>> \/ def.initial_supply # 0)
           over == \E i \in DOMAIN def.currencies : serialize_currency_state(def, None).prices[i] > I64Max
           no(why) == Refused(why)
           ready == [kind |-> "ready"]
<1>1. r = CASE active -> no("active currency")
            [] another -> no("another identity")
            [] early -> no("start block")
            [] free -> no("launch fee")
            [] c.kind = "refused" -> c
            [] odd -> no("nft")
            [] s.kind = "refused" -> s
            [] over -> no("overflow")
            [] OTHER -> ready
  BY DEF LaunchRefusal
<1>2. \A why : no(why).kind = "refused"
  BY DEF Refused
<1>3. r.kind # "refused"
  OBVIOUS
<1> HIDE DEF c, r, s, active, another, early, free, odd, over, no, ready
<1>4. c.kind # "refused"
  BY <1>1, <1>2, <1>3
<1> QED BY <1>4 DEF c

\* The outputs a launch writes, by their places.
Launched(def, context, built, Z) ==
  LET n == built.deposit
      o == consensus_outputs(built)
  IN /\ Valued(Z) /\ o \in Seq(Z) /\ Len(o) = n
     /\ Cardinality(Contributed(def)) \in {0, 1} /\ n = 6 + Cardinality(Contributed(def))
     /\ o[1].shape = "identity primary" /\ o[2].shape = "definition" /\ o[3].shape = "import"
     /\ o[3].data.export = 4 /\ o[4].shape = "notarization" /\ o[5].shape = "export"
     /\ o[n].shape = "deposit" /\ Sat(o[n]) = ImportFee(context.launch_fee)
     /\ reserve_deposit_value(built) = ImportFee(context.launch_fee)
     /\ Cardinality(Contributed(def)) = 1 => Contributes(def, <<o[6]>>, Z)

LEMMA ImportFeeIs ==
  ASSUME NEW fee \in Nat
  PROVE  ImportFee(fee) \in Nat /\ fee - ImportFee(fee) \in Nat /\ 2 * ImportFee(fee) \in {fee, fee + 1}
<1> DEFINE half == fee \div 2
<1>1. half \in Nat /\ half * 2 \leq fee /\ fee < half * 2 + 2
  BY QuotientIs
<1>2. ImportFee(fee) = fee - half
  BY DEF ImportFee
<1> HIDE DEF half
<1> QED BY <1>1, <1>2

\* A contribution is of any set that holds its outputs.
LEMMA ContributesGrows ==
  ASSUME NEW def, NEW outs, NEW X, NEW Z, X \subseteq Z, Contributes(def, outs, X)
  PROVE  Contributes(def, outs, Z)
BY DEF Contributes

LEMMA LaunchedIs ==
  ASSUME FeeIsAPart, NEW def, def.initial_contributions \in Seq(Nat),
         NEW context, context.launch_fee \in Nat,
         NEW built, built = build_launch_outputs(def, context), built.kind # "refused"
  PROVE  \E Z : Launched(def, context, built, Z)
<1> DEFINE c == contribution_output(def, context).outs
           fee == ImportFee(context.launch_fee)
           o1 == Primary(Defining(def, context.identity))
           o2 == currency_definition_script(def)
           o3 == Carrying("import", Protocol, serialize_import(def, context))
           o4 == Carrying("notarization", Protocol, serialize_notarization(def, context))
           o5 == Carrying("export", Protocol, serialize_export(def, context, fee))
           deposit == Scripted("deposit", Protocol, fee, serialize_reserve_deposit(def, context, fee))
           change == identity_change_script(context.identity.id)
           head == <<o1, o2, o3, o4, o5>>
           tail == <<deposit, change>>
           refusal == LaunchRefusal(def, context)
<1>1. refusal.kind # "refused"
  <2> DEFINE whole == [kind |-> "outputs", deposit |-> 6 + Len(c), outs |-> head \o c \o tail]
  <2>1. built = IF refusal.kind = "refused" THEN refusal ELSE whole
    BY DEF build_launch_outputs
  <2> HIDE DEF refusal, whole
  <2> QED BY <2>1
<1>2. built.deposit = 6 + Len(c) /\ built.outs = head \o c \o tail
  BY <1>1 DEF build_launch_outputs
<1> HIDE DEF refusal
<1>3. contribution_output(def, context).kind # "refused"
  BY <1>1, UnrefusedContribution DEF refusal
<1>4. PICK X : Valued(X) /\ c \in Seq(X) /\ Contributes(def, c, X)
  BY <1>3, ContributionIs
<1>5. /\ o1.shape = "identity primary" /\ o2.shape = "definition" /\ o3.shape = "import"
      /\ o4.shape = "notarization" /\ o5.shape = "export"
      /\ {o1.value, o2.value, o3.value, o4.value, o5.value, change.value} \subseteq Value
  <2>1. \A shape, owner, data : /\ Carrying(shape, owner, data).shape = shape
                                /\ Carrying(shape, owner, data).value \in Value
    BY CarryingIs
  <2>2. /\ o3.shape = "import" /\ o4.shape = "notarization" /\ o5.shape = "export"
        /\ o3.value \in Value /\ o4.value \in Value /\ o5.value \in Value
    BY <2>1
  <2>3. o1.shape = "identity primary" /\ o1.value \in Value
    BY <2>1 DEF Primary
  <2>4. o2.shape = "definition" /\ o2.value \in Value
    BY <2>1 DEF currency_definition_script
  <2>5. change.value \in Value
    BY <2>1 DEF identity_change_script
  <2> HIDE DEF o1, o2, o3, o4, o5, change
  <2> QED BY <2>2, <2>3, <2>4, <2>5
<1>6. o3.data.export = 4
  <2>1. o3.data = serialize_import(def, context)
    BY CarryingIs
  <2> HIDE DEF o3
  <2> QED BY <2>1 DEF serialize_import
<1>7. fee \in Nat /\ deposit.shape = "deposit" /\ deposit.value \in Value /\ Sat(deposit) = fee
  <2>1. fee \in Nat
    BY ImportFeeIs
  <2> HIDE DEF fee
  <2> QED BY <2>1, ScriptedIs DEF Sat
<1> HIDE DEF c, o1, o2, o3, o4, o5, deposit, change
<1> DEFINE Z == X \cup {o1, o2, o3, o4, o5, deposit, change}
<1>8. Valued(Z) /\ X \subseteq Z /\ head \in Seq(Z) /\ tail \in Seq(Z) /\ Len(head) = 5 /\ Len(tail) = 2
  <2>1. Valued(Z)
    BY <1>4, <1>5, <1>7 DEF Valued
  <2> QED BY <2>1
<1>9. /\ head[1] = o1 /\ head[2] = o2 /\ head[3] = o3 /\ head[4] = o4 /\ head[5] = o5
      /\ tail[1] = deposit
  OBVIOUS
<1>10. c \in Seq(Z) /\ Contributes(def, c, Z)
  BY <1>4, <1>8, SeqGrows, ContributesGrows
<1> HIDE DEF Z, head, tail
<1> DEFINE k == Len(c)
<1>11. k \in {0, 1} /\ k = Cardinality(Contributed(def)) /\ (k = 1 => c = <<c[1]>>)
  <2>1. CASE c = <<>> /\ Cardinality(Contributed(def)) = 0
    BY <2>1
  <2>2. ASSUME NEW o, c = <<o>>, Cardinality(Contributed(def)) = 1 PROVE k = 1 /\ c[1] = o
    BY <2>2
  <2> QED BY <1>10, <2>1, <2>2 DEF Contributes
<1> HIDE DEF k
<1> DEFINE a == head \o c
           b == a \o tail
           o == consensus_outputs(built)
           n == 6 + k
<1>12. /\ a \in Seq(Z) /\ Len(a) = 5 + k /\ \A i \in 1..5 : a[i] = head[i]
       /\ k = 1 => a[6] = c[1]
  <2>1. /\ a \in Seq(Z) /\ Len(a) = Len(head) + Len(c)
        /\ \A i \in 1..Len(head) : a[i] = head[i]
        /\ \A i \in 1..Len(c) : a[Len(head) + i] = c[i]
    <3>1. Valued(Z) /\ head \in Seq(Z) /\ c \in Seq(Z)
      BY <1>8, <1>10
    <3> QED BY ONLY <3>1, Behind
  <2>2. k = 1 => 1 \in 1..k /\ 5 + 1 = 6
    OBVIOUS
  <2> QED BY <1>8, <2>1, <2>2 DEF k
<1> HIDE DEF a
<1>13. /\ b \in Seq(Z) /\ Len(b) = (5 + k) + 2 /\ \A i \in 1..(5 + k) : b[i] = a[i]
       /\ b[(5 + k) + 1] = deposit
  <2>1. /\ b \in Seq(Z) /\ Len(b) = Len(a) + Len(tail)
        /\ \A i \in 1..Len(a) : b[i] = a[i]
        /\ \A i \in 1..Len(tail) : b[Len(a) + i] = tail[i]
    <3>1. Valued(Z) /\ a \in Seq(Z) /\ tail \in Seq(Z)
      BY <1>8, <1>12
    <3> QED BY ONLY <3>1, Behind
  <2>2. 1 \in 1..2
    OBVIOUS
  <2> QED BY <1>8, <1>9, <1>12, <2>1, <2>2
<1>14. built.outs = b /\ built.deposit = n
  BY <1>2 DEF a, k
<1> HIDE DEF b
<1>15. n \in {6, 7} /\ (5 + k) + 1 = n /\ (5 + k) + 2 = n + 1
  BY <1>11
<1>16. o \in Seq(Z) /\ Len(o) = n /\ \A i \in 1..n : o[i] = b[i]
  <2>1. o = SubSeq(b, 1, n)
    BY <1>14 DEF consensus_outputs
  <2> HIDE DEF o, n
  <2>2. n \in Int /\ 1 \leq n /\ n - 1 + 1 = n /\ \A i \in 1..n : 1 + i - 1 = i
    BY <1>15
  <2>3. \A i \in 1..n : b[i] \in Z
    <3>1. \A i \in 1..(n + 1) : b[i] \in Z
      BY <1>13, <1>15, ElementOfSeq
    <3>2. \A i \in 1..n : i \in 1..(n + 1)
      BY <2>2
    <3> QED BY <3>1, <3>2
  <2> QED BY <2>1, <2>2, <2>3, SubSeqProperties
<1> HIDE DEF o, n
<1>17. /\ \A i \in 1..5 : o[i] = head[i]
       /\ o[n] = deposit /\ b[n] = deposit
       /\ k = 1 => o[6] = c[1]
  <2>1. n \in 1..n /\ \A i \in 1..5 : i \in 1..n /\ i \in 1..(5 + k)
    BY <1>11, <1>15
  <2>2. k = 1 => 6 \in 1..n /\ 6 \in 1..(5 + k)
    BY <1>15
  <2> QED BY <1>12, <1>13, <1>15, <1>16, <2>1, <2>2
<1>18. reserve_deposit_value(built) = fee /\ o = consensus_outputs(built)
  BY <1>7, <1>14, <1>17 DEF reserve_deposit_value, o
<1>19. 1 \in 1..5 /\ 2 \in 1..5 /\ 3 \in 1..5 /\ 4 \in 1..5 /\ 5 \in 1..5
  OBVIOUS
<1>20. k = 1 => Contributes(def, <<o[6]>>, Z)
  BY <1>10, <1>11, <1>17
<1> HIDE DEF fee
<1>21. Launched(def, context, built, Z)
  BY <1>5, <1>6, <1>7, <1>8, <1>9, <1>11, <1>14, <1>16, <1>17, <1>18, <1>19, <1>20 DEF Launched, n, fee
<1> QED BY <1>21

LaunchContext(def, pin, node) ==
  [identity |-> holding_output(node), height |-> node.tip, launch_fee |-> LaunchFee(def, node, pin)]

\* The transaction of a launch, as it is assembled.
LaunchPlan(built, context, keys, node) ==
  [burn |-> LaunchBurn(built, context), leading |-> <<node.output>>, funding |-> node.utxos,
   outs |-> consensus_outputs(built), counted |-> built.deposit + 1, change |-> keys[1], bearing |-> FALSE]

LEMMA LaunchIs ==
  ASSUME NEW keys, NEW def, NEW pin, NEW node, NEW t, t = prepare_launch(keys, def, pin, node), t.kind = "built"
  PROVE  LET context == LaunchContext(def, pin, node)
             built   == build_launch_outputs(def, context)
             fee     == LaunchFee(def, node, pin)
         IN /\ keys # <<>> /\ node.output # None /\ node.output.shape = "identity primary"
            /\ ~(Cardinality({keys[i] : i \in DOMAIN keys}) < node.output.data.min_sigs)
            /\ fee # -1 /\ fee # 0
            /\ built.kind # "refused"
            /\ t = assemble(keys[1], LaunchPlan(built, context, keys, node))
<1> DEFINE identity == holding_output(node)
           named == {keys[i] : i \in DOMAIN keys}
           fee == LaunchFee(def, node, pin)
           needed == fee + FoldSeq(LAMBDA c, sum : c + sum, 0, def.initial_contributions)
           context == LaunchContext(def, pin, node)
           p == [identity_output |-> node.output, definition |-> def, utxos |-> node.utxos, back |-> keys[1],
                 context |-> context]
           launch == build_currency_launch(keys[1], keys, p)
           built == build_launch_outputs(def, context)
           tx == assemble(keys[1], LaunchPlan(built, context, keys, node))
           no(why) == Refused(why)
<1>1. \A why : no(why).kind # "built"
  BY DEF Refused
<1>2. /\ keys # <<>> /\ node.output # None /\ node.output.shape = "identity primary"
      /\ ~(Cardinality(named) < node.output.data.min_sigs) /\ fee # -1 /\ fee # 0 /\ t = launch
  <2> DEFINE active == "ACTIVE_CURRENCY" \in identity.flags
             strange == \E k \in named : \A j \in DOMAIN identity.primaries : identity.primaries[j] # k
             few == Cardinality(named) < identity.min_sigs
             misnamed == Lower[def.name] # Lower[identity.name]
             elsewhere == def.parent # identity.parent \/ def.system # Chain \/ def.launch_system # Chain
             early == def.start_block \leq node.tip
             poor == Total(node.utxos, Native) < needed
             unsigned == keys = <<>>
             absent == node.output = None
             odd == node.output.shape # "identity primary"
             unknown == fee = -1
             free == fee = 0
             revoked == node.revoked
  <2>1. t = CASE unsigned -> no("no signatures")
              [] absent -> no("no such identity")
              [] revoked -> no("revoked")
              [] odd -> no("not an identity output")
              [] active -> no("active currency")
              [] strange -> no("not a primary address")
              [] few -> no("not enough signers")
              [] misnamed -> no("name")
              [] elsewhere -> no("not ready")
              [] early -> no("start block")
              [] unknown -> no("implausible fee")
              [] free -> no("no fee reported")
              [] poor -> no("funds")
              [] OTHER -> launch
    BY DEF prepare_launch, LaunchContext
  <2>2. t.kind = "built"
    OBVIOUS
  <2> HIDE DEF no, launch, active, strange, few, misnamed, elsewhere, early, poor, unsigned, absent, odd,
               unknown, free, revoked
  <2>3. ~unsigned /\ ~absent /\ ~odd /\ ~few /\ ~unknown /\ ~free /\ t = launch
    BY <1>1, <2>1, <2>2
  <2>4. identity = node.output.data
    BY DEF holding_output
  <2> QED BY <2>3, <2>4 DEF unsigned, absent, odd, few, unknown, free
<1>3. built.kind # "refused" /\ launch = tx
  <2> DEFINE current == p.identity_output.data
             other == p.identity_output.shape # "identity primary" \/ current.id # context.identity.id
             few == Len(keys) < current.min_sigs
             strange == \E i \in DOMAIN keys : \A j \in DOMAIN current.primaries : current.primaries[j] # keys[i]
             over == LaunchBurn(built, context) < 0
             refused == built.kind = "refused"
  <2>1. launch = CASE refused -> built
                   [] other -> no("identity output mismatch")
                   [] few -> no("not enough signers")
                   [] strange -> no("not a primary address")
                   [] over -> no("overflow")
                   [] OTHER -> tx
    BY DEF build_currency_launch, LaunchPlan
  <2>2. launch.kind = "built"
    BY <1>2
  <2> HIDE DEF no, launch, built, other, few, strange, over, tx
  <2>3. refused => built.kind # "built"
    OBVIOUS
  <2> HIDE DEF refused
  <2>4. ~refused /\ launch = tx
    BY <1>1, <2>1, <2>2, <2>3
  <2> QED BY <2>4 DEF refused
<1> QED BY <1>2, <1>3

LEMMA ValuesAreFinite ==
  ASSUME NEW S, NEW s \in Seq(S)
  PROVE  IsFiniteSet({s[i] : i \in DOMAIN s})
<1> DEFINE l == Len(s)
           T == {s[i] : i \in DOMAIN s}
           f == [i \in 1..l |-> s[i]]
<1>1. DOMAIN s = 1..l /\ l \in Nat
  BY LenProperties
<1> HIDE DEF l
<1>2. f \in Surjection(1..l, T)
  BY <1>1 DEF Surjection
<1>3. IsFiniteSet(1..l)
  BY <1>1, FS_Interval
<1> HIDE DEF f, T
<1>4. IsFiniteSet(T)
  BY <1>2, <1>3, FS_Surjection
<1> QED BY <1>4 DEF T

\* A launch leaves the chain what it charges, half of it in the deposit, and no
\* more than its own fee on top; what is contributed is what was declared, and
\* once; the import points at the export wherever the deposit stands; and as many
\* different keys stand behind it as the identity asks for: for every definition,
\* fee policy, funding and list of keys (prepare_launch, build_currency_launch).
THEOREM LaunchPaysItsFeeAlways ==
  ASSUME FeeIsAPart, NEW X, Valued(X), NEW keys, NEW def, NEW pin, NEW node, Launchable(keys, def, pin, node, X)
  PROVE  LaunchPaysItsFee(keys, def, pin, node)
<1> DEFINE t == prepare_launch(keys, def, pin, node)
           fee == LaunchFee(def, node, pin)
           at(shape) == {i \in DOMAIN t.outs : t.outs[i].shape = shape}
           named == {keys[i] : i \in DOMAIN keys}
           context == LaunchContext(def, pin, node)
           built == build_launch_outputs(def, context)
           m == Cardinality(Contributed(def))
           deposit == ImportFee(fee)
           n == 6 + m
           o == consensus_outputs(built)
           plan == LaunchPlan(built, context, keys, node)
<1>1. SUFFICES ASSUME t.kind = "built"
               PROVE  /\ \E i \in DOMAIN t.outs :
                           /\ at("deposit") = {i} /\ 2 * Sat(t.outs[i]) \in {fee, fee + 1}
                           /\ Left(t) + Sat(t.outs[i]) \in fee..(fee + OwnFee(t))
                      /\ \A i \in at("transfer") :
                           LET sent == t.outs[i].data.amount IN
                           /\ \E j \in Contributed(def) :
                                sent - (sent * SUCCESS_FEE) \div SATOSHIDEN = def.initial_contributions[j]
                           /\ Sat(t.outs[i]) = sent + CONTRIBUTION_TRANSFER_FEE
                      /\ Cardinality(at("transfer")) = m
                      /\ at("import") # {} /\ \A i \in at("import") : t.outs[t.outs[i].data.export + 1].shape = "export"
                      /\ Cardinality(named) \geq node.output.data.min_sigs
  BY DEF LaunchPaysItsFee, PaysItsFee
<1>2. /\ keys # <<>> /\ node.output # None /\ node.output.shape = "identity primary"
      /\ ~(Cardinality(named) < node.output.data.min_sigs) /\ fee # -1 /\ fee # 0
      /\ built.kind # "refused" /\ t = assemble(keys[1], plan)
  <2>1. t = prepare_launch(keys, def, pin, node) /\ t.kind = "built"
    BY <1>1
  <2> HIDE DEF t
  <2> QED BY ONLY <2>1, LaunchIs
<1>3. t.kind = "built"
  BY <1>1
<1> HIDE DEF t, built, plan, o
<1>4. /\ keys \in Seq(Keys) /\ node.output \in X /\ node.output.data.min_sigs \in Nat
      /\ node.utxos \in Seq(X) /\ Plain(node.utxos) /\ def.initial_contributions \in Seq(Nat)
      /\ fee \in Nat
  <2>1. fee \in Nat
    BY <1>2 DEF Launchable, LaunchFee, Reported
  <2> QED BY <1>2, <2>1 DEF Launchable
<1> HIDE DEF fee
<1>5. context.launch_fee = fee
  BY DEF LaunchContext, fee
<1> HIDE DEF context
<1>6. PICK Y : Launched(def, context, built, Y)
  BY <1>2, <1>4, <1>5, LaunchedIs DEF built
<1>7. /\ m \in {0, 1} /\ n \in Nat /\ built.deposit = n /\ Valued(Y) /\ o \in Seq(Y) /\ Len(o) = n
      /\ o[1].shape = "identity primary" /\ o[2].shape = "definition" /\ o[3].shape = "import"
      /\ o[3].data.export = 4 /\ o[4].shape = "notarization" /\ o[5].shape = "export"
      /\ o[n].shape = "deposit" /\ Sat(o[n]) = deposit /\ reserve_deposit_value(built) = deposit
      /\ m = 1 => Contributes(def, <<o[6]>>, Y)
  <2>1. m \in {0, 1} /\ built.deposit = n
    BY <1>6 DEF Launched
  <2>2. n \in Nat
    BY <2>1
  <2> QED BY <1>5, <1>6, <2>1, <2>2 DEF Launched, o
<1>7a. n \in {6, 7} /\ n = 6 + m /\ m \in {0, 1} /\ n \in Nat /\ n + 1 \in Nat
  <2>1. m \in {0, 1}
    BY <1>7
  <2> HIDE DEF m
  <2> QED BY <2>1
<1> HIDE DEF n, m
<1>8. deposit \in Nat /\ fee - deposit \in Nat /\ 2 * deposit \in {fee, fee + 1}
  BY <1>4, ImportFeeIs
<1>9. /\ plan.bearing = FALSE /\ plan.leading = <<node.output>> /\ plan.funding = node.utxos /\ plan.outs = o
      /\ plan.counted = n + 1 /\ plan.burn = fee - deposit /\ plan.change = keys[1]
  BY <1>5, <1>7 DEF plan, LaunchPlan, LaunchBurn, o
<1> HIDE DEF deposit
<1>10. keys[1] \in Keys
  <2>1. Len(keys) \in Nat /\ Len(keys) # 0
    BY <1>2, <1>4, EmptySeq
  <2>2. 1 \in 1..Len(keys)
    BY <2>1
  <2> QED BY <1>4, <2>2, ElementOfSeq
<1> DEFINE Z == X \cup (Y \cup Placed)
<1>11. Valued(Z) /\ X \subseteq Z /\ Y \subseteq Z /\ Placed \subseteq Z
  <2>1. \A c \in Placed : c.value \in Value
    BY DEF Placed
  <2> QED BY <1>7, <2>1 DEF Valued
<1> HIDE DEF Z
<1>12. /\ Valued(Z) /\ plan.bearing = FALSE /\ plan.leading \in Seq(Z) /\ plan.funding \in Seq(Z)
       /\ Plain(plan.funding) /\ plan.outs \in Seq(Z) /\ plan.counted \in Nat /\ plan.burn \in Nat
       /\ plan.change \in Keys \cup Identities /\ Placed \subseteq Z
  <2>1. node.utxos \in Seq(Z) /\ o \in Seq(Z)
    BY <1>4, <1>7, <1>11, SeqGrows
  <2>2. <<node.output>> \in Seq(Z)
    BY <1>4, <1>11
  <2> QED BY <1>4, <1>8, <1>9, <1>10, <1>11, <1>7a, <2>1, <2>2
<1>13. PICK taken, change : Funded(t, plan, Z, taken, change)
  BY ONLY <1>2, <1>3, <1>12, FundedIs
<1>14. /\ t.outs \in Seq(Z) /\ Len(t.ins) = 1 + Len(taken) /\ Len(taken) \in Nat
       /\ Len(t.outs) \in {n, n + 1} /\ \A i \in 1..n : t.outs[i] = o[i]
       /\ \A i \in 1..Len(t.outs) : i \leq n \/ t.outs[i] = Pay(keys[1], change)
       /\ Left(t) = t.fee
  <2>1. /\ t.outs \in Seq(Z) /\ Len(t.ins) = Len(plan.leading) + Len(taken) /\ Len(taken) \in Nat
        /\ Len(t.outs) \in {Len(plan.outs), Len(plan.outs) + 1}
        /\ \A i \in 1..Len(plan.outs) : t.outs[i] = plan.outs[i]
        /\ \A i \in 1..Len(t.outs) : i \leq Len(plan.outs) \/ t.outs[i] = Pay(plan.change, change)
        /\ Left(t) = t.fee
    BY ONLY <1>12, <1>13, FundedTokens
  <2>2. Len(<<node.output>>) = 1
    OBVIOUS
  <2> QED BY <1>7, <1>9, <2>1, <2>2
<1>15. Pay(keys[1], change).shape = "p2pkh"
  BY <1>10 DEF Pay, Output
<1>16. /\ DOMAIN t.outs = 1..Len(t.outs)
       /\ \A i \in 1..n : i \in DOMAIN t.outs
       /\ \A i \in DOMAIN t.outs : i \in 1..n \/ t.outs[i] = Pay(keys[1], change)
  <2> DEFINE l == Len(t.outs)
  <2>1. DOMAIN t.outs = 1..l /\ l \in {n, n + 1} /\ n \in Nat
        /\ \A i \in 1..l : i \leq n \/ t.outs[i] = Pay(keys[1], change)
    BY <1>14, <1>7a, LenProperties
  <2> HIDE DEF l
  <2>2. (\A i \in 1..n : i \in 1..l) /\ (\A i \in 1..l : i \leq n => i \in 1..n)
    BY <2>1
  <2> QED BY <2>1, <2>2 DEF l
<1>17. \A i \in 1..n : i \in {1, 2, 3, 4, 5, n} \/ (m = 1 /\ i = 6)
  <2>1. n \in {6, 7} /\ (n = 7 => m = 1)
    BY <1>7a
  <2>2. 1..6 = {1, 2, 3, 4, 5, 6} /\ 1..7 = {1, 2, 3, 4, 5, 6, 7}
    OBVIOUS
  <2> QED BY <2>1, <2>2
<1>18. m = 1 => /\ o[6].shape = "transfer"
                /\ Sat(o[6]) = o[6].data.amount + CONTRIBUTION_TRANSFER_FEE
                /\ \E j \in Contributed(def) :
                     o[6].data.amount - (o[6].data.amount * SUCCESS_FEE) \div SATOSHIDEN = def.initial_contributions[j]
  <2> SUFFICES ASSUME m = 1
               PROVE  /\ o[6].shape = "transfer"
                      /\ Sat(o[6]) = o[6].data.amount + CONTRIBUTION_TRANSFER_FEE
                      /\ \E j \in Contributed(def) :
                           o[6].data.amount - (o[6].data.amount * SUCCESS_FEE) \div SATOSHIDEN
                             = def.initial_contributions[j]
    OBVIOUS
  <2>1. Contributes(def, <<o[6]>>, Y) /\ <<o[6]>> # <<>> /\ \A x : <<o[6]>> = <<x>> => x = o[6]
    BY <1>7
  <2> QED BY <2>1 DEF Contributes
<1>19. at("deposit") = {n} /\ at("import") = {3} /\ at("transfer") = {i \in {6} : m = 1}
  <2>1. ASSUME NEW i \in 1..n
        PROVE  /\ t.outs[i].shape = "deposit" <=> i = n
               /\ t.outs[i].shape = "import" <=> i = 3
               /\ t.outs[i].shape = "transfer" <=> i = 6 /\ m = 1
    <3>1. t.outs[i] = o[i]
      BY <1>14
    <3>2. n \notin {1, 2, 3, 4, 5} /\ (m = 1 => n # 6) /\ (i = n /\ i = 6 => m # 1)
      BY <1>7a
    <3>3. CASE i \in {1, 2, 3, 4, 5}
      <4>1. i # n /\ i # 6
        BY <3>2, <3>3
      <4>2. \/ i = 3 /\ t.outs[i].shape = "import"
            \/ i # 3 /\ t.outs[i].shape \in {"identity primary", "definition", "notarization", "export"}
        BY <1>7, <3>1, <3>3
      <4>3. t.outs[i].shape \notin {"deposit", "transfer"}
        BY <4>2
      <4> QED BY <4>1, <4>2, <4>3
    <3>4. CASE i = n
      <4>1. t.outs[i].shape = "deposit" /\ i # 3
        BY <1>7, <3>1, <3>2, <3>4
      <4> QED BY <3>2, <3>4, <4>1
    <3>5. CASE m = 1 /\ i = 6
      <4>1. t.outs[i].shape = "transfer" /\ i # 3 /\ i # n
        BY <1>18, <3>1, <3>2, <3>5
      <4> QED BY <3>5, <4>1
    <3> QED BY <1>17, <3>3, <3>4, <3>5
  <2>2. n \in 1..n /\ 3 \in 1..n /\ 6 \in 1..n
    BY <1>7a
  <2>3. \A i \in DOMAIN t.outs : i \in 1..n \/ t.outs[i].shape = "p2pkh"
    BY <1>15, <1>16
  <2> QED BY <1>16, <2>1, <2>2, <2>3
<1>20. t.outs[n] = o[n] /\ t.outs[3] = o[3] /\ t.outs[5] = o[5] /\ t.outs[6] = o[6] /\ n \in DOMAIN t.outs
  <2>1. n \in 1..n /\ 3 \in 1..n /\ 5 \in 1..n /\ 6 \in 1..n
    BY <1>7a
  <2> QED BY <1>14, <1>16, <2>1
<1> HIDE DEF at
<1>21. Left(t) + deposit \in fee..(fee + OwnFee(t))
  <2> DEFINE ins == Len(t.ins) + 1
             outs == Len(t.outs) + 2
             mine == Price(Len(taken) + 1, (n + 1) + 1, TRUE)
             own == Price(ins, outs, TRUE)
             burn == fee - deposit
             given == t.fee
  <2>1. Len(taken) + 1 \in Nat /\ (n + 1) + 1 \in Nat /\ ins \in Nat /\ outs \in Nat
        /\ Len(taken) + 1 \leq ins /\ (n + 1) + 1 \leq outs
    <3> DEFINE l == Len(t.outs)
               k == Len(taken)
    <3>1. l \in {n, n + 1} /\ n \in Nat /\ k \in Nat /\ Len(t.ins) = 1 + k
      BY <1>14, <1>7a
    <3> HIDE DEF l, k
    <3>2. k + 1 \in Nat /\ (n + 1) + 1 \in Nat /\ (1 + k) + 1 \in Nat /\ l + 2 \in Nat
          /\ k + 1 \leq (1 + k) + 1 /\ (n + 1) + 1 \leq l + 2
      BY ONLY <3>1
    <3> QED BY <3>1, <3>2 DEF l, k
  <2>2. mine \leq own /\ mine \in Nat /\ own \in Nat
    <3> HIDE DEF ins, outs
    <3> QED BY <2>1, PriceGrows, PriceType
  <2>3. given \in Nat /\ given - burn \in Nat /\ given - burn \leq mine + DUST_THRESHOLD
    BY <1>9, <1>13 DEF Funded
  <2>4. OwnFee(t) = own + DUST_THRESHOLD /\ DUST_THRESHOLD \in Nat
    BY BuildersAssumption DEF OwnFee
  <2>5. Left(t) = given
    BY <1>14
  <2>6. fee \in Nat /\ deposit \in Nat /\ burn \in Nat /\ burn + deposit = fee
    BY <1>4, <1>8
  <2> HIDE DEF mine, own, burn, given
  <2>7. given + deposit \in fee..(fee + (own + DUST_THRESHOLD))
    BY <2>2, <2>3, <2>4, <2>6
  <2> QED BY <2>4, <2>5, <2>7
<1>22. Sat(t.outs[n]) = deposit
  BY <1>7, <1>20
<1>23. Cardinality(at("transfer")) = m
  <2>1. CASE m = 1
    <3>1. at("transfer") = {6}
      BY <1>19, <2>1
    <3> QED BY <2>1, <3>1, FS_Singleton
  <2>2. CASE m = 0
    <3>1. at("transfer") = {}
      BY <1>19, <2>2
    <3> QED BY <2>2, <3>1, FS_EmptySet
  <2> QED BY <1>7, <2>1, <2>2
<1>24. Cardinality(named) \geq node.output.data.min_sigs
  <2> DEFINE c == Cardinality(named)
             asked == node.output.data.min_sigs
  <2>1. c \in Nat
    <3>1. IsFiniteSet(named)
      BY <1>4, ValuesAreFinite
    <3> HIDE DEF named
    <3> QED BY <3>1, FS_CardinalityType
  <2>2. asked \in Nat /\ ~(c < asked)
    BY <1>2, <1>4
  <2> HIDE DEF c, asked
  <2>3. c \geq asked
    BY <2>1, <2>2
  <2> QED BY <2>3 DEF c, asked
<1>25. \A i \in at("import") : t.outs[t.outs[i].data.export + 1].shape = "export"
  <2>1. t.outs[3].data.export = 4
    BY <1>7, <1>20
  <2>2. \A e : e = 4 => e + 1 = 5
    OBVIOUS
  <2>3. t.outs[t.outs[3].data.export + 1] = t.outs[5]
    BY <2>1, <2>2
  <2> QED BY <1>7, <1>19, <1>20, <2>3
<1>26. ASSUME NEW i \in at("transfer")
       PROVE  LET sent == t.outs[i].data.amount IN
              /\ \E j \in Contributed(def) :
                   sent - (sent * SUCCESS_FEE) \div SATOSHIDEN = def.initial_contributions[j]
              /\ Sat(t.outs[i]) = sent + CONTRIBUTION_TRANSFER_FEE
  <2>1. i = 6 /\ m = 1
    BY <1>19
  <2> QED BY <1>18, <1>20, <2>1
<1>27. /\ n \in DOMAIN t.outs /\ at("deposit") = {n} /\ 2 * Sat(t.outs[n]) \in {fee, fee + 1}
       /\ Left(t) + Sat(t.outs[n]) \in fee..(fee + OwnFee(t))
  BY <1>8, <1>19, <1>20, <1>21, <1>22
<1>28. at("import") # {}
  BY <1>19
<1> QED BY <1>23, <1>24, <1>25, <1>26, <1>27, <1>28
=============================================================================
