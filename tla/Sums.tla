-------------------------------- MODULE Sums --------------------------------
(***************************************************************************)
(* Sums over finite sets, for the proofs: what a fold that adds the        *)
(* members of a set up, in whatever order it chooses them, comes to.  And  *)
(* two facts that the proofs about sums keep needing.                      *)
(***************************************************************************)
EXTENDS Integers, FiniteSets, Functions, FiniteSetTheorems, SequenceTheorems, WellFoundedInduction, TLAPS

\* A nonempty set of naturals has a least member.
LEMMA LeastNatural ==
  ASSUME NEW T, T \subseteq Nat, T # {}
  PROVE  \E x \in T : \A y \in T : x \leq y
<1> DEFINE R == {p \in Nat \X Nat : p[1] < p[2]}
<1>1. IsWellFoundedOn(R, Nat)
  BY NatLessThanWellFounded DEF OpToRel
<1>2. \E x \in T : \A y \in T : ~ (<<y, x>> \in R)
  <2> HIDE DEF R
  <2> QED BY <1>1, WFMin
<1>3. PICK x \in T : \A y \in T : ~ (<<y, x>> \in R)
  BY <1>2
<1>4. ASSUME NEW y \in T PROVE x \leq y
  <2>1. ~ (<<y, x>> \in R) /\ x \in Nat /\ y \in Nat
    BY <1>3
  <2>2. <<y, x>> \in Nat \X Nat /\ <<y, x>>[1] = y /\ <<y, x>>[2] = x
    BY <2>1
  <2>3. ~ (y < x)
    BY <2>1, <2>2
  <2> QED BY <2>1, <2>3
<1> QED BY <1>4

\* A set of finite subsets that is not empty has one with the fewest members.
LEMMA SmallestSubset ==
  ASSUME NEW D, IsFiniteSet(D), NEW C, C \subseteq SUBSET D, C # {}
  PROVE  \E s \in C : IsFiniteSet(s) /\ \A t \in C : \A x \in s : t # s \ {x}
<1> DEFINE Sizes == {Cardinality(s) : s \in C}
<1>1. \A s \in C : IsFiniteSet(s) /\ Cardinality(s) \in Nat
  BY FS_Subset, FS_CardinalityType
<1>2. Sizes \subseteq Nat /\ Sizes # {}
  BY <1>1
<1>3. PICK k \in Sizes : \A m \in Sizes : k \leq m
  <2> HIDE DEF Sizes
  <2> QED BY <1>2, LeastNatural
<1>4. PICK s \in C : k = Cardinality(s)
  BY <1>3
<1>5. ASSUME NEW t \in C, NEW x \in s, t = s \ {x} PROVE FALSE
  <2>1. Cardinality(t) = Cardinality(s) - 1
    BY <1>1, <1>5, FS_RemoveElement
  <2>2. k \leq Cardinality(t)
    BY <1>3
  <2> QED BY <1>1, <1>4, <2>1, <2>2
<1> QED BY <1>1, <1>5

-----------------------------------------------------------------------------
(***************************************************************************)
(* The sum of a function over a finite set                                 *)
(***************************************************************************)

\* g gives every subset of D the sum of v over it.
IsSum(g, v, D) ==
  /\ g \in [SUBSET D -> Int]
  /\ g[{}] = 0
  /\ \A s \in SUBSET D : \A x \in s : g[s] = v[x] + g[s \ {x}]

SumOver(v, D) == (CHOOSE g : IsSum(g, v, D))[D]

\* One more member can always be added.
LEMMA SumExtends ==
  ASSUME NEW D, NEW d \in D, NEW v \in [D -> Int],
         NEW g, IsSum(g, v, D \ {d})
  PROVE  \E h : IsSum(h, v, D)
<1> DEFINE h == [s \in SUBSET D |-> IF d \in s THEN v[d] + g[s \ {d}] ELSE g[s]]
<1>1. \A s \in SUBSET D : s \ {d} \in SUBSET (D \ {d}) /\ (d \notin s => s \in SUBSET (D \ {d}))
  OBVIOUS
<1>2. \A s \in SUBSET (D \ {d}) : g[s] \in Int
  BY DEF IsSum
<1>3. h \in [SUBSET D -> Int]
  BY <1>1, <1>2
<1>4. h[{}] = 0
  BY DEF IsSum
<1>5. ASSUME NEW s \in SUBSET D, NEW x \in s
      PROVE  h[s] = v[x] + h[s \ {x}]
  <2>1. s \ {x} \in SUBSET D /\ v[x] \in Int /\ v[d] \in Int
    OBVIOUS
  <2>2. CASE x = d
    <3>1. h[s] = v[d] + g[s \ {d}] /\ h[s \ {x}] = g[s \ {x}]
      BY <2>1, <2>2
    <3> QED BY <2>2, <3>1
  <2>3. CASE x # d /\ d \in s
    <3> DEFINE r == s \ {d}
               q == (s \ {x}) \ {d}
    <3>1. r \in SUBSET (D \ {d}) /\ x \in r /\ r \ {x} = q /\ q \in SUBSET (D \ {d})
      BY <2>3
    <3>2. g[r] = v[x] + g[q]
      BY <3>1 DEF IsSum
    <3>3. h[s] = v[d] + g[r] /\ h[s \ {x}] = v[d] + g[q]
      BY <2>1, <2>3
    <3>4. g[q] \in Int
      BY <1>2, <3>1
    <3> HIDE DEF h, r, q
    <3> QED BY <2>1, <3>2, <3>3, <3>4
  <2>4. CASE d \notin s
    <3>1. h[s] = g[s] /\ h[s \ {x}] = g[s \ {x}]
      BY <2>1, <2>4
    <3>2. s \in SUBSET (D \ {d})
      BY <2>4
    <3>3. g[s] = v[x] + g[s \ {x}]
      BY <3>2 DEF IsSum
    <3> QED BY <3>1, <3>3
  <2> QED BY <2>2, <2>3, <2>4
<1>6. IsSum(h, v, D)
  <2> HIDE DEF h
  <2> QED BY <1>3, <1>4, <1>5 DEF IsSum
<1> QED BY <1>6

\* Every finite set has its sum.
LEMMA SumExists ==
  ASSUME NEW D, IsFiniteSet(D), NEW v \in [D -> Int]
  PROVE  \E g : IsSum(g, v, D)
<1> DEFINE C == {s \in SUBSET D : ~ \E g : IsSum(g, [x \in s |-> v[x]], s)}
<1>1. SUFFICES ASSUME C # {} PROVE FALSE
  <2>1. D \notin C
    BY <1>1
  <2>2. \E g : IsSum(g, [x \in D |-> v[x]], D)
    BY <2>1
  <2>3. [x \in D |-> v[x]] = v
    OBVIOUS
  <2> QED BY <2>2, <2>3
<1>2. PICK s \in C : IsFiniteSet(s) /\ \A t \in C : \A x \in s : t # s \ {x}
  <2>1. C \subseteq SUBSET D
    OBVIOUS
  <2> HIDE DEF C
  <2> QED BY <1>1, <2>1, SmallestSubset
<1>3. CASE s = {}
  <2> DEFINE g == [t \in SUBSET {} |-> 0]
  <2>1. IsSum(g, [x \in s |-> v[x]], s)
    BY <1>3 DEF IsSum
  <2> QED BY <1>2, <2>1
<1>4. ASSUME NEW d \in s PROVE FALSE
  <2> DEFINE r == s \ {d}
             w == [x \in s |-> v[x]]
  <2>1. r \in SUBSET D /\ r \notin C
    BY <1>2
  <2>2. PICK g : IsSum(g, [x \in r |-> v[x]], r)
    BY <2>1
  <2>3. IsSum(g, w, r)
    <3>1. \A x \in r : w[x] = [y \in r |-> v[y]][x]
      BY <1>2
    <3>2. \A t \in SUBSET r : \A x \in t : w[x] = [y \in r |-> v[y]][x]
      BY <3>1
    <3> HIDE DEF w, r
    <3> QED BY <2>2, <3>2 DEF IsSum
  <2>4. w \in [s -> Int]
    BY <1>2
  <2>5. \E h : IsSum(h, w, s)
    <3> HIDE DEF w
    <3> QED BY <2>3, <2>4, SumExtends
  <2> QED BY <1>2, <2>5
<1> QED BY <1>3, <1>4

\* A function that adds up some member of a set and what it gives the rest.
IsFold(f, v, D) ==
  /\ f[{}] = 0
  /\ \A s \in SUBSET D : s # {} => \E x \in s : f[s] = v[x] + f[s \ {x}]

\* Whatever member is taken first, the sum is the same.
LEMMA SumIsWhatAFoldGives ==
  ASSUME NEW D, IsFiniteSet(D), NEW v, NEW g, IsSum(g, v, D), NEW f, IsFold(f, v, D)
  PROVE  \A s \in SUBSET D : f[s] = g[s]
<1> DEFINE C == {s \in SUBSET D : f[s] # g[s]}
<1>1. SUFFICES ASSUME C # {} PROVE FALSE
  OBVIOUS
<1>2. PICK s \in C : IsFiniteSet(s) /\ \A t \in C : \A x \in s : t # s \ {x}
  <2>1. C \subseteq SUBSET D
    OBVIOUS
  <2> HIDE DEF C
  <2> QED BY <1>1, <2>1, SmallestSubset
<1>3. s # {}
  BY <1>2 DEF IsSum, IsFold
<1>4. PICK x \in s : f[s] = v[x] + f[s \ {x}]
  BY <1>2, <1>3 DEF IsFold
<1>5. f[s \ {x}] = g[s \ {x}]
  BY <1>2, <1>4
<1>6. g[s] = v[x] + g[s \ {x}]
  BY <1>2, <1>4 DEF IsSum
<1> QED BY <1>2, <1>4, <1>5, <1>6

\* The sum is one number, and the one SumOver names.
LEMMA SumIsTotal ==
  ASSUME NEW D, IsFiniteSet(D), NEW v \in [D -> Int], NEW g, IsSum(g, v, D)
  PROVE  g[D] = SumOver(v, D) /\ SumOver(v, D) \in Int
<1> DEFINE f == CHOOSE h : IsSum(h, v, D)
<1>1. IsSum(f, v, D)
  OBVIOUS
<1> HIDE DEF f
<1>2. IsFold(f, v, D)
  BY <1>1 DEF IsSum, IsFold
<1>3. \A s \in SUBSET D : f[s] = g[s]
  BY <1>2, SumIsWhatAFoldGives
<1>4. f[D] \in Int
  BY <1>1 DEF IsSum
<1>5. f[D] = SumOver(v, D)
  BY DEF f, SumOver
<1> QED BY <1>3, <1>4, <1>5

LEMMA TotalType ==
  ASSUME NEW D, IsFiniteSet(D), NEW v \in [D -> Int]
  PROVE  SumOver(v, D) \in Int
BY SumExists, SumIsTotal

LEMMA TotalOfNothing == ASSUME NEW v PROVE SumOver(v, {}) = 0
<1> DEFINE g == [s \in SUBSET {} |-> 0]
           u == [x \in {} |-> 0]
<1>1. \A w : IsSum(g, w, {})
  BY DEF IsSum
<1>2. IsSum(CHOOSE h : IsSum(h, v, {}), v, {})
  BY <1>1
<1> QED BY <1>2 DEF IsSum, SumOver

\* Two functions that agree on a set have the same sum over it.
LEMMA TotalAgrees ==
  ASSUME NEW D, IsFiniteSet(D), NEW v \in [D -> Int], NEW E \in SUBSET D,
         NEW w \in [E -> Int], \A x \in E : w[x] = v[x],
         NEW g, IsSum(g, v, D)
  PROVE  SumOver(w, E) = g[E]
<1> DEFINE h == [s \in SUBSET E |-> g[s]]
<1>1. h \in [SUBSET E -> Int] /\ h[{}] = 0
  BY DEF IsSum
<1>2. ASSUME NEW s \in SUBSET E, NEW x \in s PROVE h[s] = w[x] + h[s \ {x}]
  <2>1. h[s] = g[s] /\ h[s \ {x}] = g[s \ {x}]
    OBVIOUS
  <2>2. g[s] = v[x] + g[s \ {x}]
    BY DEF IsSum
  <2> QED BY <2>1, <2>2
<1>3. h[E] = g[E]
  OBVIOUS
<1> HIDE DEF h
<1>4. IsSum(h, w, E)
  BY <1>1, <1>2 DEF IsSum
<1>5. IsFiniteSet(E)
  BY FS_Subset
<1>6. h[E] = SumOver(w, E)
  BY <1>4, <1>5, SumIsTotal
<1> QED BY <1>3, <1>6

\* One member and the rest.
LEMMA TotalOfOneMore ==
  ASSUME NEW D, IsFiniteSet(D), NEW v \in [D -> Int], NEW x \in D
  PROVE  SumOver(v, D) = v[x] + SumOver([y \in D \ {x} |-> v[y]], D \ {x})
<1> DEFINE E == D \ {x}
           w == [y \in E |-> v[y]]
<1>1. PICK g : IsSum(g, v, D)
  BY SumExists
<1>2. g[D] = SumOver(v, D)
  BY <1>1, SumIsTotal
<1>3. w \in [E -> Int] /\ E \in SUBSET D /\ \A y \in E : w[y] = v[y]
  OBVIOUS
<1>4. SumOver(w, E) = g[E]
  <2> HIDE DEF E, w
  <2> QED BY <1>1, <1>3, TotalAgrees
<1>5. g[D] = v[x] + g[E]
  BY <1>1 DEF IsSum
<1> QED BY <1>2, <1>4, <1>5

\* Renaming the members does not change the sum.
LEMMA TotalOfImage ==
  ASSUME NEW D, IsFiniteSet(D), NEW E, IsFiniteSet(E),
         NEW v \in [D -> Int], NEW w \in [E -> Int],
         NEW f \in Bijection(D, E), \A x \in D : v[x] = w[f[x]]
  PROVE  SumOver(v, D) = SumOver(w, E)
<1>1. PICK g : IsSum(g, w, E)
  BY SumExists
<1> DEFINE image(s) == {f[x] : x \in s}
           h == [s \in SUBSET D |-> g[image(s)]]
<1>2. /\ \A x \in D : f[x] \in E
      /\ \A x, y \in D : f[x] = f[y] => x = y
      /\ \A y \in E : \E x \in D : f[x] = y
  BY DEF Bijection, Injection, IsInjective, Surjection
<1>3. \A s \in SUBSET D : image(s) \in SUBSET E
  BY <1>2
<1>4. h \in [SUBSET D -> Int]
  BY <1>1, <1>3 DEF IsSum
<1>5. h[{}] = 0
  <2>1. image({}) = {}
    OBVIOUS
  <2> QED BY <1>1, <2>1 DEF IsSum
<1>6. ASSUME NEW s \in SUBSET D, NEW x \in s PROVE h[s] = v[x] + h[s \ {x}]
  <2>1. image(s \ {x}) = image(s) \ {f[x]} /\ f[x] \in image(s)
    BY <1>2
  <2>2. g[image(s)] = w[f[x]] + g[image(s) \ {f[x]}]
    BY <1>1, <1>3, <2>1 DEF IsSum
  <2>3. s \ {x} \in SUBSET D /\ v[x] = w[f[x]]
    OBVIOUS
  <2>4. h[s] = g[image(s)] /\ h[s \ {x}] = g[image(s \ {x})]
    BY <2>3
  <2> HIDE DEF image, h
  <2> QED BY <2>1, <2>2, <2>3, <2>4
<1>7. IsSum(h, v, D)
  <2> HIDE DEF h
  <2> QED BY <1>4, <1>5, <1>6 DEF IsSum
<1>8. h[D] = SumOver(v, D)
  <2> HIDE DEF h
  <2> QED BY <1>7, SumIsTotal
<1>9. image(D) = E
  BY <1>2
<1>10. h[D] = g[E]
  BY <1>9
<1>11. g[E] = SumOver(w, E)
  BY <1>1, SumIsTotal
<1> QED BY <1>8, <1>10, <1>11

\* The parts of a set sum to the whole.
LEMMA TotalOfParts ==
  ASSUME NEW D, IsFiniteSet(D), NEW v \in [D -> Int], NEW A \in SUBSET D
  PROVE  SumOver(v, D) = SumOver([x \in A |-> v[x]], A) + SumOver([x \in D \ A |-> v[x]], D \ A)
<1>1. PICK g : IsSum(g, v, D)
  BY SumExists
<1> DEFINE C == {s \in SUBSET A : g[s \cup (D \ A)] # g[s] + g[D \ A]}
<1>2. C = {}
  <2> SUFFICES ASSUME C # {} PROVE FALSE
    OBVIOUS
  <2>1. C \subseteq SUBSET D
    OBVIOUS
  <2>2. PICK s \in C : \A t \in C : \A x \in s : t # s \ {x}
    <3> HIDE DEF C
    <3> QED BY <2>1, SmallestSubset
  <2>3. CASE s = {}
    <3>1. {} \cup (D \ A) = D \ A /\ g[{}] = 0 /\ g[D \ A] \in Int
      BY <1>1 DEF IsSum
    <3> QED BY <2>2, <2>3, <3>1
  <2>4. ASSUME NEW x \in s PROVE FALSE
    <3> DEFINE r == s \ {x}
               B == D \ A
    <3>1. r \in SUBSET A /\ r \notin C /\ x \notin B /\ x \in D
      BY <2>2
    <3>2. g[r \cup B] = g[r] + g[B]
      BY <3>1
    <3>3. (s \cup B) \ {x} = r \cup B /\ s \cup B \in SUBSET D /\ s \in SUBSET D /\ x \in s \cup B
      BY <2>2, <3>1
    <3>4. g[s \cup B] = v[x] + g[r \cup B] /\ g[s] = v[x] + g[r]
      <4>1. g[s \cup B] = v[x] + g[(s \cup B) \ {x}] /\ g[s] = v[x] + g[s \ {x}]
        BY <1>1, <3>3 DEF IsSum
      <4> QED BY <3>3, <4>1
    <3>5. v[x] \in Int /\ g[r] \in Int /\ g[B] \in Int
      BY <1>1, <2>2, <3>1 DEF IsSum
    <3>6. g[s \cup B] # g[s] + g[B]
      BY <2>2
    <3> HIDE DEF r, B
    <3> QED BY <3>2, <3>4, <3>5, <3>6
  <2> QED BY <2>3, <2>4
<1>3. g[D] = g[A] + g[D \ A]
  <2>1. A \cup (D \ A) = D /\ A \notin C
    BY <1>2
  <2> QED BY <2>1
<1>4. g[D] = SumOver(v, D)
  BY <1>1, SumIsTotal
<1>5. SumOver([x \in A |-> v[x]], A) = g[A]
  <2> DEFINE w == [x \in A |-> v[x]]
  <2>1. w \in [A -> Int] /\ \A x \in A : w[x] = v[x]
    OBVIOUS
  <2> HIDE DEF w
  <2>2. SumOver(w, A) = g[A]
    BY <1>1, <2>1, TotalAgrees
  <2> QED BY <2>2 DEF w
<1>6. SumOver([x \in D \ A |-> v[x]], D \ A) = g[D \ A]
  <2> DEFINE B == D \ A
             w == [x \in B |-> v[x]]
  <2>1. w \in [B -> Int] /\ B \in SUBSET D /\ \A x \in B : w[x] = v[x]
    OBVIOUS
  <2> HIDE DEF w, B
  <2>2. SumOver(w, B) = g[B]
    BY <1>1, <2>1, TotalAgrees
  <2> QED BY <2>2 DEF w, B
<1> QED BY <1>3, <1>4, <1>5, <1>6

\* A sum of what is never negative is not.
LEMMA TotalOfNaturals ==
  ASSUME NEW D, IsFiniteSet(D), NEW v \in [D -> Nat]
  PROVE  SumOver(v, D) \in Nat
<1>1. v \in [D -> Int]
  OBVIOUS
<1>2. PICK g : IsSum(g, v, D)
  BY <1>1, SumExists
<1> DEFINE C == {s \in SUBSET D : g[s] \notin Nat}
<1>3. C = {}
  <2> SUFFICES ASSUME C # {} PROVE FALSE
    OBVIOUS
  <2>1. C \subseteq SUBSET D
    OBVIOUS
  <2>2. PICK s \in C : \A t \in C : \A x \in s : t # s \ {x}
    <3> HIDE DEF C
    <3> QED BY <2>1, SmallestSubset
  <2>3. s # {}
    <3>1. g[{}] = 0
      BY <1>2 DEF IsSum
    <3>2. g[s] \notin Nat
      BY <2>2
    <3> QED BY <3>1, <3>2
  <2>4. ASSUME NEW x \in s PROVE FALSE
    <3>1. s \ {x} \in SUBSET D /\ s \ {x} \notin C /\ v[x] \in Nat
      BY <2>2
    <3>2. g[s] = v[x] + g[s \ {x}]
      BY <1>2, <2>2 DEF IsSum
    <3> QED BY <2>2, <3>1, <3>2
  <2> QED BY <2>3, <2>4
<1>4. g[D] = SumOver(v, D)
  BY <1>1, <1>2, SumIsTotal
<1> QED BY <1>3, <1>4

\* The community module's sum is the sum.
LEMMA SumFunctionIsTotal ==
  ASSUME NEW D, IsFiniteSet(D), NEW v \in [D -> Int]
  PROVE  SumFunction(v) = SumOver(v, D) /\ SumFunction(v) \in Int
<1> DEFINE first(s) == CHOOSE x \in s : TRUE
           it == CHOOSE f : f = [s \in SUBSET D |->
                    IF s = {} THEN 0 ELSE v[first(s)] + f[s \ {first(s)}]]
<1>1. SumFunction(v) = it[D]
  BY DEF SumFunction, SumFunctionOnSet, FoldFunctionOnSet, MapThenFoldSet
<1>2. PICK g : IsSum(g, v, D)
  BY SumExists
<1>3. g = [s \in SUBSET D |-> IF s = {} THEN 0 ELSE v[first(s)] + g[s \ {first(s)}]]
  <2>1. g \in [SUBSET D -> Int] /\ g[{}] = 0
    BY <1>2 DEF IsSum
  <2>2. ASSUME NEW s \in SUBSET D, s # {}
        PROVE  g[s] = v[first(s)] + g[s \ {first(s)}]
    <3>1. first(s) \in s
      BY <2>2
    <3> QED BY <1>2, <3>1 DEF IsSum
  <2> QED BY <2>1, <2>2
<1>4. it = [s \in SUBSET D |-> IF s = {} THEN 0 ELSE v[first(s)] + it[s \ {first(s)}]]
  BY <1>3
<1>5. IsFold(it, v, D)
  <2> HIDE DEF it
  <2>1. it[{}] = 0
    BY <1>4
  <2>2. ASSUME NEW s \in SUBSET D, s # {}
        PROVE  \E x \in s : it[s] = v[x] + it[s \ {x}]
    <3>1. first(s) \in s
      BY <2>2
    <3>2. it[s] = v[first(s)] + it[s \ {first(s)}]
      BY <1>4, <2>2
    <3> QED BY <3>1, <3>2
  <2> QED BY <2>1, <2>2 DEF IsFold
<1>6. \A s \in SUBSET D : it[s] = g[s]
  <2> HIDE DEF it
  <2> QED BY <1>2, <1>5, SumIsWhatAFoldGives
<1>7. g[D] = SumOver(v, D) /\ SumOver(v, D) \in Int
  BY <1>2, SumIsTotal
<1> QED BY <1>1, <1>6, <1>7

\* A sum of nothing but zeros.
LEMMA SumOfZeros ==
  ASSUME NEW D, IsFiniteSet(D), NEW v \in [D -> Int], \A x \in D : v[x] = 0
  PROVE  SumOver(v, D) = 0
<1> DEFINE g == [s \in SUBSET D |-> 0]
<1>1. IsSum(g, v, D)
  BY DEF IsSum
<1>2. g[D] = 0
  OBVIOUS
<1> HIDE DEF g
<1> QED BY <1>1, <1>2, SumIsTotal

\* What is subtracted everywhere is subtracted from the sum.
LEMMA TotalOfNegated ==
  ASSUME NEW D, IsFiniteSet(D), NEW v \in [D -> Int]
  PROVE  SumOver([x \in D |-> -v[x]], D) = -SumOver(v, D)
<1> DEFINE w == [x \in D |-> -v[x]]
<1>1. PICK g : IsSum(g, v, D)
  BY SumExists
<1> DEFINE h == [s \in SUBSET D |-> -g[s]]
<1>2. IsSum(h, w, D)
  <2>1. /\ g \in [SUBSET D -> Int] /\ g[{}] = 0
        /\ \A s \in SUBSET D : \A x \in s : g[s] = v[x] + g[s \ {x}]
    BY <1>1 DEF IsSum
  <2>2. ASSUME NEW s \in SUBSET D, NEW x \in s
        PROVE  h[s] = w[x] + h[s \ {x}]
    <3>1. g[s] = v[x] + g[s \ {x}] /\ s \ {x} \in SUBSET D
      BY <2>1
    <3>2. h[s] = -g[s] /\ h[s \ {x}] = -g[s \ {x}] /\ w[x] = -v[x]
      BY <3>1
    <3>3. v[x] \in Int /\ g[s] \in Int /\ g[s \ {x}] \in Int
      BY <2>1, <3>1
    <3> QED BY <3>1, <3>2, <3>3
  <2>3. h \in [SUBSET D -> Int] /\ h[{}] = 0
    BY <2>1
  <2> QED BY <2>2, <2>3 DEF IsSum
<1>3. w \in [D -> Int]
  OBVIOUS
<1>4. h[D] = SumOver(w, D) /\ g[D] = SumOver(v, D)
  <2> HIDE DEF h, w
  <2> QED BY <1>1, <1>2, <1>3, SumIsTotal
<1>5. h[D] = -g[D]
  OBVIOUS
<1> QED BY <1>4, <1>5

-----------------------------------------------------------------------------
LEMMA SeqGrows ==
  ASSUME NEW S, NEW T, S \subseteq T, NEW s \in Seq(S)
  PROVE  s \in Seq(T)
<1>1. s = [i \in 1..Len(s) |-> s[i]] /\ Len(s) \in Nat /\ \A i \in 1..Len(s) : s[i] \in T
  BY LenProperties, ElementOfSeq
<1>2. [i \in 1..Len(s) |-> s[i]] \in Seq(T)
  BY <1>1, IsASeq
<1> QED BY <1>1, <1>2

LEMMA ProductGrows ==
  ASSUME NEW a \in Nat, NEW b \in Nat, a \leq b, NEW k \in Nat
  PROVE  a * k \leq b * k
<1>1. PICK d \in Nat : b = a + d
  <2>1. b - a \in Nat /\ b = a + (b - a)
    OBVIOUS
  <2> QED BY <2>1
<1>2. d * k \in Nat /\ a * k \in Nat /\ (a + d) * k = a * k + d * k
  OBVIOUS
<1> DEFINE more == d * k
           here == a * k
<1>3. more \in Nat /\ here \in Nat /\ b * k = here + more
  BY <1>1, <1>2
<1> HIDE DEF more, here
<1>4. here \leq here + more
  BY <1>3
<1> QED BY <1>3, <1>4 DEF here
=============================================================================
