------------------------ MODULE LaurentProductProofs ------------------------
(***************************************************************************)
(* Proofs about LaurentProduct, for every number of lanes that is a power  *)
(* of two, every range of exponents and coefficients and every set of      *)
(* factors.                                                                *)
(*                                                                         *)
(* That the network sorts is shown threshold by threshold: for a key t the *)
(* lanes whose key is above t are a sequence of zeros and ones, and a pair *)
(* of lanes that compares takes the conjunction and the disjunction of two *)
(* of them (Cleaned).  Bitonic and Directed say how far a stage brings the *)
(* sequence; Settled is what the lanes hold once the pairs that are still  *)
(* to exchange have done so, which no Compare changes.                     *)
(*                                                                         *)
(* That the answer is exact rests on the sums of the reference and of the  *)
(* reduction being over the same products: Sum is independent of the order *)
(* (SumRemove) and of the names of what it adds (SumReindexed).            *)
(***************************************************************************)
EXTENDS LaurentProduct, FiniteSetTheorems, WellFoundedInduction, TLAPS

-----------------------------------------------------------------------------
(* Induction on the natural numbers, and sums.                             *)

(* Every set of naturals has a least element, and a set closed under the   *)
(* successor holds them all.                                               *)
LEMMA LessIsWellFounded ==
  \E R : IsWellFoundedOn(R, Nat) /\ \A x, y \in Nat : x < y => <<x, y>> \in R
  <1> DEFINE R == OpToRel(<, Nat)
  <1>1. IsWellFoundedOn(R, Nat)
    BY NatLessThanWellFounded, Zenon
  <1>2. \A x, y \in Nat : x < y => <<x, y>> \in R
    <2> SUFFICES ASSUME NEW x \in Nat, NEW y \in Nat, x < y
                 PROVE  <<x, y>> \in {ss \in Nat \X Nat : ss[1] < ss[2]}
      BY Zenon DEF OpToRel
    <2> QED
      OBVIOUS
  <1> HIDE DEF R
  <1> QED BY <1>1, <1>2, Zenon

LEMMA LeastOf ==
  ASSUME NEW T, T \subseteq Nat, T # {}
  PROVE  \E n \in T : \A m \in T : ~(m < n)
  <1>1. PICK R : IsWellFoundedOn(R, Nat) /\ \A x, y \in Nat : x < y => <<x, y>> \in R
    BY LessIsWellFounded
  <1>2. IsWellFoundedOn(R, Nat)
    BY <1>1
  <1>3. \E n \in T : \A m \in T : ~(<<m, n>> \in R)
    BY <1>2, WFMin
  <1>4. PICK n \in T : \A m \in T : ~(<<m, n>> \in R)
    BY <1>3
  <1>5. \A m \in T : ~(m < n)
    BY <1>4, <1>1
  <1> QED BY <1>5

LEMMA SetOfNaturals ==
  ASSUME NEW S, 0 \in S, \A n \in Nat : n \in S => n + 1 \in S
  PROVE  Nat \subseteq S
  <1> DEFINE T == Nat \ S
  <1> SUFFICES ASSUME T # {} PROVE FALSE
    OBVIOUS
  <1>1. T \subseteq Nat
    OBVIOUS
  <1> HIDE DEF T
  <1>2. PICK n \in T : \A m \in T : ~(m < n)
    BY <1>1, LeastOf
  <1>3. n \in Nat /\ n # 0 /\ n - 1 \in Nat /\ n - 1 < n
    BY DEF T
  <1>4. n - 1 \notin T
    BY <1>2, <1>3
  <1> QED BY <1>3, <1>4 DEF T

LEMMA OneLess ==
  ASSUME NEW S, IsFiniteSet(S), NEW x \in S, NEW n \in Nat, Cardinality(S) = n + 1
  PROVE  Cardinality(S \ {x}) = n
  <1>1. Cardinality(S \ {x}) = Cardinality(S) - 1
    BY FS_RemoveElement
  <1> QED BY <1>1

LEMMA NotEmpty ==
  ASSUME NEW S, NEW n \in Nat, Cardinality(S) = n + 1
  PROVE  S # {}
  <1>1. Cardinality({}) = 0
    BY FS_EmptySet
  <1> QED BY <1>1

-----------------------------------------------------------------------------
Some(s) == CHOOSE x \in s : TRUE

\* g is the fold of Functions with +, on the family D of sets.
Adds(g, f, D) == \A s \in D : g[s] = IF s = {} THEN 0 ELSE f[Some(s)] + g[s \ {Some(s)}]

(* The fold that SumFunctionOnSet is defined by exists on a finite set: by *)
(* induction on the size of the subsets it is defined for.                 *)
LEMMA SumExists ==
  ASSUME NEW S, IsFiniteSet(S), NEW f, \A x \in S : f[x] \in Int
  PROVE  \E g \in [SUBSET S -> Int] : Adds(g, f, SUBSET S)
  <1> DEFINE Small(n) == {s \in SUBSET S : Cardinality(s) <= n}
             G == {n \in Nat : \E g \in [Small(n) -> Int] : Adds(g, f, Small(n))}
  <1>0. \A s \in SUBSET S : IsFiniteSet(s) /\ Cardinality(s) \in Nat
    BY FS_Subset, FS_CardinalityType
  <1>1. 0 \in G
    <2>1. \A s \in Small(0) : s = {}
      BY <1>0, FS_EmptySet
    <2> DEFINE g == [s \in Small(0) |-> 0]
    <2>2. g \in [Small(0) -> Int]
      OBVIOUS
    <2>3. Adds(g, f, Small(0))
      BY <2>1 DEF Adds
    <2> HIDE DEF g
    <2> QED BY <2>2, <2>3
  <1>2. ASSUME NEW n \in Nat, n \in G
        PROVE  n + 1 \in G
    <2>1. PICK g \in [Small(n) -> Int] : Adds(g, f, Small(n))
      BY <1>2
    <2>2. \A s \in Small(n + 1) : s # {} => Some(s) \in s /\ s \ {Some(s)} \in Small(n)
      <3> SUFFICES ASSUME NEW s \in Small(n + 1), s # {}
                   PROVE  Some(s) \in s /\ s \ {Some(s)} \in Small(n)
        OBVIOUS
      <3>1. Some(s) \in s
        BY DEF Some
      <3>2. Cardinality(s \ {Some(s)}) = Cardinality(s) - 1
        BY <3>1, <1>0, FS_RemoveElement
      <3>3. Cardinality(s) <= n + 1 /\ Cardinality(s) \in Nat /\ s \ {Some(s)} \in SUBSET S
        BY <1>0
      <3> QED BY <3>1, <3>2, <3>3
    <2>3. \A s \in Small(n) : s \in Small(n + 1)
      BY <1>0
    <2>4. {} \in Small(n)
      BY FS_EmptySet
    <2> DEFINE h == [s \in Small(n + 1) |->
                       IF s = {} THEN 0 ELSE f[Some(s)] + g[s \ {Some(s)}]]
    <2>5. h \in [Small(n + 1) -> Int]
      <3> SUFFICES ASSUME NEW s \in Small(n + 1), s # {}
                   PROVE  f[Some(s)] + g[s \ {Some(s)}] \in Int
        OBVIOUS
      <3>1. Some(s) \in S /\ s \ {Some(s)} \in Small(n)
        BY <2>2
      <3>2. g[s \ {Some(s)}] \in Int
        BY <3>1
      <3> QED BY <3>1, <3>2
    <2>6. \A s \in Small(n) : h[s] = g[s]
      BY <2>1, <2>3 DEF Adds
    <2>7. Adds(h, f, Small(n + 1))
      <3> SUFFICES ASSUME NEW s \in Small(n + 1)
                   PROVE  h[s] = IF s = {} THEN 0 ELSE f[Some(s)] + h[s \ {Some(s)}]
        BY DEF Adds
      <3>1. h[s] = IF s = {} THEN 0 ELSE f[Some(s)] + g[s \ {Some(s)}]
        OBVIOUS
      <3>2. s # {} => h[s \ {Some(s)}] = g[s \ {Some(s)}]
        BY <2>2, <2>6
      <3> QED BY <3>1, <3>2
    <2>8. n + 1 \in Nat
      OBVIOUS
    <2> HIDE DEF h
    <2> QED BY <2>5, <2>7, <2>8
  <1>3. Nat \subseteq G
    <2> HIDE DEF G
    <2> QED BY <1>1, <1>2, SetOfNaturals
  <1>4. Cardinality(S) \in Nat
    BY FS_CardinalityType
  <1>5. Small(Cardinality(S)) = SUBSET S
    BY FS_Subset
  <1>6. Cardinality(S) \in G
    BY <1>3, <1>4
  <1> QED BY <1>5, <1>6

(* SumFunctionOnSet is that fold.                                          *)
LEMMA SumIsFold ==
  ASSUME NEW S, IsFiniteSet(S), NEW f, \A x \in S : f[x] \in Int
  PROVE  \E g : Adds(g, f, SUBSET S) /\ SumFunctionOnSet(f, S) = g[S]
  <1> DEFINE Rec(g) == [s \in SUBSET S |-> IF s = {} THEN 0
                                           ELSE f[Some(s)] + g[s \ {Some(s)}]]
             iter == CHOOSE g : g = Rec(g)
  <1>1. SumFunctionOnSet(f, S) = iter[S]
    BY DEF SumFunctionOnSet, FoldFunctionOnSet, MapThenFoldSet, Some
  <1>2. \E g : g = Rec(g)
    <2>1. PICK g \in [SUBSET S -> Int] : Adds(g, f, SUBSET S)
      BY SumExists
    <2>2. g = Rec(g)
      BY <2>1 DEF Adds
    <2> QED BY <2>2
  <1>3. iter = Rec(iter)
    <2> HIDE DEF Rec
    <2> QED BY <1>2
  <1>4. Adds(iter, f, SUBSET S)
    <2> HIDE DEF iter
    <2> QED BY <1>3 DEF Adds
  <1> QED BY <1>1, <1>4
(* Two folds agree on the subsets they share.                              *)
LEMMA SumUnique ==
  ASSUME NEW S, IsFiniteSet(S), NEW f, NEW g, NEW h, NEW V, V \subseteq S,
         Adds(g, f, SUBSET S), Adds(h, f, SUBSET V)
  PROVE  g[V] = h[V]
  <1> DEFINE Agree == {n \in Nat : \A s \in SUBSET V : Cardinality(s) = n => g[s] = h[s]}
  <1>0. \A s \in SUBSET V : IsFiniteSet(s) /\ Cardinality(s) \in Nat /\ s \in SUBSET S
    BY FS_Subset, FS_CardinalityType
  <1>1. 0 \in Agree
    <2> SUFFICES ASSUME NEW s \in SUBSET V, Cardinality(s) = 0
                 PROVE  g[s] = h[s]
      OBVIOUS
    <2>1. s = {}
      BY <1>0, FS_EmptySet
    <2> QED BY <2>1 DEF Adds
  <1>2. ASSUME NEW n \in Nat, n \in Agree
        PROVE  n + 1 \in Agree
    <2> SUFFICES ASSUME NEW s \in SUBSET V, Cardinality(s) = n + 1
                 PROVE  g[s] = h[s]
      OBVIOUS
    <2>1. s # {}
      BY NotEmpty
    <2>2. Some(s) \in s
      BY <2>1 DEF Some
    <2>3. Cardinality(s \ {Some(s)}) = n /\ s \ {Some(s)} \in SUBSET V
      BY <2>2, <1>0, FS_RemoveElement
    <2>4. g[s \ {Some(s)}] = h[s \ {Some(s)}]
      BY <2>3, <1>2
    <2>5. g[s] = f[Some(s)] + g[s \ {Some(s)}] /\ h[s] = f[Some(s)] + h[s \ {Some(s)}]
      BY <2>1, <1>0 DEF Adds
    <2> QED BY <2>4, <2>5
  <1>3. Nat \subseteq Agree
    <2> HIDE DEF Agree
    <2> QED BY <1>1, <1>2, SetOfNaturals
  <1> QED BY <1>3, <1>0

Sum(f, S) == SumFunctionOnSet(f, S)

LEMMA SumType ==
  ASSUME NEW S, IsFiniteSet(S), NEW f, \A x \in S : f[x] \in Int
  PROVE  Sum(f, S) \in Int
  <1>1. PICK g : Adds(g, f, SUBSET S) /\ Sum(f, S) = g[S]
    BY SumIsFold DEF Sum
  <1>2. PICK h \in [SUBSET S -> Int] : Adds(h, f, SUBSET S)
    BY SumExists
  <1>3. g[S] = h[S]
    BY <1>1, <1>2, SumUnique
  <1> QED BY <1>1, <1>2, <1>3

LEMMA SumEmpty ==
  ASSUME NEW f
  PROVE  Sum(f, {}) = 0
  <1>1. IsFiniteSet({}) /\ \A x \in {} : f[x] \in Int
    BY FS_EmptySet
  <1>2. PICK g : Adds(g, f, SUBSET {}) /\ Sum(f, {}) = g[{}]
    BY <1>1, SumIsFold DEF Sum
  <1> QED BY <1>2 DEF Adds

LEMMA SumStep ==
  ASSUME NEW S, IsFiniteSet(S), NEW f, \A x \in S : f[x] \in Int, S # {}
  PROVE  Some(S) \in S /\ Sum(f, S) = f[Some(S)] + Sum(f, S \ {Some(S)})
  <1> DEFINE V == S \ {Some(S)}
  <1>1. PICK g : Adds(g, f, SUBSET S) /\ Sum(f, S) = g[S]
    BY SumIsFold DEF Sum
  <1>2. IsFiniteSet(V) /\ V \subseteq S /\ \A x \in V : f[x] \in Int
    BY FS_Subset
  <1>3. PICK h : Adds(h, f, SUBSET V) /\ Sum(f, V) = h[V]
    <2> HIDE DEF V
    <2> QED BY <1>2, SumIsFold DEF Sum
  <1>4. g[V] = h[V]
    <2> HIDE DEF V
    <2> QED BY <1>1, <1>2, <1>3, SumUnique
  <1>5. g[S] = f[Some(S)] + g[V]
    BY <1>1 DEF Adds
  <1> QED BY <1>1, <1>3, <1>4, <1>5 DEF Some

(* Any element may be added first, not only the one the fold chooses.      *)
LEMMA SumRemove ==
  ASSUME NEW S, IsFiniteSet(S), NEW f, \A x \in S : f[x] \in Int, NEW e \in S
  PROVE  Sum(f, S) = f[e] + Sum(f, S \ {e})
  <1> DEFINE Holds == {n \in Nat : \A s \in SUBSET S : Cardinality(s) = n =>
                                     \A x \in s : Sum(f, s) = f[x] + Sum(f, s \ {x})}
  <1>0. \A s \in SUBSET S : /\ IsFiniteSet(s) /\ Cardinality(s) \in Nat
                            /\ Sum(f, s) \in Int
    BY FS_Subset, FS_CardinalityType, SumType
  <1>1. 0 \in Holds
    <2> SUFFICES ASSUME NEW s \in SUBSET S, Cardinality(s) = 0
                 PROVE  s = {}
      OBVIOUS
    <2> QED BY <1>0, FS_EmptySet
  <1>2. ASSUME NEW n \in Nat, n \in Holds
        PROVE  n + 1 \in Holds
    <2> SUFFICES ASSUME NEW s \in SUBSET S, Cardinality(s) = n + 1, NEW x \in s
                 PROVE  Sum(f, s) = f[x] + Sum(f, s \ {x})
      OBVIOUS
    <2> DEFINE y == Some(s)
    <2>1. y \in s /\ Sum(f, s) = f[y] + Sum(f, s \ {y})
      BY <1>0, SumStep
    <2> HIDE DEF y
    <2>2. CASE x = y
      BY <2>1, <2>2
    <2>3. CASE x # y
      <3>1. /\ s \ {y} \in SUBSET S /\ Cardinality(s \ {y}) = n /\ x \in s \ {y}
            /\ s \ {x} \in SUBSET S /\ Cardinality(s \ {x}) = n /\ y \in s \ {x}
        <4>1. IsFiniteSet(s)
          BY <1>0
        <4>2. Cardinality(s \ {y}) = n /\ Cardinality(s \ {x}) = n
          BY <4>1, <2>1, OneLess
        <4> QED BY <4>2, <2>1, <2>3
      <3>2. Sum(f, s \ {y}) = f[x] + Sum(f, (s \ {y}) \ {x})
        BY <3>1, <1>2
      <3>3. Sum(f, s \ {x}) = f[y] + Sum(f, (s \ {x}) \ {y})
        BY <3>1, <1>2
      <3>4. (s \ {x}) \ {y} = (s \ {y}) \ {x} /\ (s \ {x}) \ {y} \in SUBSET S
        OBVIOUS
      <3>5. Sum(f, (s \ {x}) \ {y}) = Sum(f, (s \ {y}) \ {x})
        BY <3>4, Zenon
      <3>6. Sum(f, (s \ {x}) \ {y}) \in Int
        BY <3>4, <1>0
      <3>7. f[x] \in Int /\ f[y] \in Int
        BY <2>1
      <3> QED BY <2>1, <3>2, <3>3, <3>5, <3>6, <3>7
    <2> QED BY <2>2, <2>3
  <1>3. Nat \subseteq Holds
    <2> HIDE DEF Holds
    <2> QED BY <1>1, <1>2, SetOfNaturals
  <1> QED BY <1>3, <1>0

(* A sum does not depend on the names of what is added.                    *)
LEMMA SumReindexed ==
  ASSUME NEW S, IsFiniteSet(S), NEW T, NEW f, NEW g, NEW h \in Bijection(S, T),
         \A x \in S : f[x] \in Int /\ f[x] = g[h[x]]
  PROVE  Sum(f, S) = Sum(g, T)
  <1> DEFINE Image(s) == {h[x] : x \in s}
             Holds == {n \in Nat : \A s \in SUBSET S : Cardinality(s) = n =>
                                     Sum(f, s) = Sum(g, Image(s))}
  <1>b. /\ h \in [S -> T] /\ \A t \in T : \E x \in S : h[x] = t
        /\ \A x, y \in S : h[x] = h[y] => x = y
    BY DEF Bijection, Injection, Surjection, IsInjective
  <1>c. Image(S) = T
    BY <1>b
  <1>d. IsFiniteSet(T) /\ \A t \in T : g[t] \in Int
    <2>1. ExistsBijection(S, T)
      BY DEF ExistsBijection
    <2>2. IsFiniteSet(T)
      BY <2>1, FS_Bijection
    <2> QED BY <2>2, <1>b
  <1>0. \A s \in SUBSET S : /\ IsFiniteSet(s) /\ Cardinality(s) \in Nat
                            /\ Image(s) \in SUBSET T /\ IsFiniteSet(Image(s))
    <2>1. \A s \in SUBSET S : Image(s) \in SUBSET T
      BY <1>b
    <2> HIDE DEF Image
    <2> QED BY <2>1, <1>d, FS_Subset, FS_CardinalityType
  <1>1. 0 \in Holds
    <2> SUFFICES ASSUME NEW s \in SUBSET S, Cardinality(s) = 0
                 PROVE  Sum(f, s) = Sum(g, Image(s))
      OBVIOUS
    <2>1. s = {}
      BY <1>0, FS_EmptySet
    <2>2. Image(s) = {}
      BY <2>1
    <2> QED BY <2>1, <2>2, SumEmpty
  <1>2. ASSUME NEW n \in Nat, n \in Holds
        PROVE  n + 1 \in Holds
    <2> SUFFICES ASSUME NEW s \in SUBSET S, Cardinality(s) = n + 1
                 PROVE  Sum(f, s) = Sum(g, Image(s))
      OBVIOUS
    <2>1. PICK x \in s : TRUE
      BY NotEmpty
    <2>2. Cardinality(s \ {x}) = n /\ s \ {x} \in SUBSET S
      <3>1. IsFiniteSet(s)
        BY <1>0
      <3>2. Cardinality(s \ {x}) = n
        BY <3>1, OneLess
      <3> QED BY <3>2
    <2>3. Sum(f, s \ {x}) = Sum(g, Image(s \ {x}))
      BY <2>2, <1>2
    <2>4. Sum(f, s) = f[x] + Sum(f, s \ {x})
      BY <1>0, SumRemove
    <2>5. Image(s \ {x}) = Image(s) \ {h[x]} /\ h[x] \in Image(s)
      BY <1>b
    <2>6. Sum(g, Image(s)) = g[h[x]] + Sum(g, Image(s) \ {h[x]})
      <3>1. \A t \in Image(s) : g[t] \in Int
        BY <1>0, <1>d
      <3> HIDE DEF Image
      <3> QED BY <1>0, <3>1, <2>5, SumRemove
    <2>7. f[x] = g[h[x]]
      BY <2>1
    <2> HIDE DEF Image
    <2> QED BY <2>3, <2>4, <2>5, <2>6, <2>7
  <1>3. Nat \subseteq Holds
    <2> HIDE DEF Holds
    <2> QED BY <1>1, <1>2, SetOfNaturals
  <1>4. Sum(f, S) = Sum(g, Image(S))
    BY <1>3, <1>0
  <1> QED BY <1>4, <1>c

-----------------------------------------------------------------------------
(* Blocks of lanes.                                                        *)

(* Lanes fall into blocks of m; l \div m is the block of l.                *)
LEMMA Quotient ==
  ASSUME NEW l \in Nat, NEW m \in Nat \ {0}
  PROVE  /\ l \div m \in Nat
         /\ m * (l \div m) <= l
         /\ l < m * (l \div m) + m
  OBVIOUS

LEMMA QuotientIs ==
  ASSUME NEW l \in Nat, NEW m \in Nat \ {0}, NEW d \in Nat, m * d <= l, l < m * d + m
  PROVE  l \div m = d
  OBVIOUS

LEMMA QuotientOfProduct ==
  ASSUME NEW l \in Nat, NEW m \in Nat \ {0}, NEW p \in Nat \ {0}
  PROVE  l \div (m * p) = (l \div m) \div p
  OBVIOUS

LEMMA HalfQuotient ==
  ASSUME NEW n \in Nat
  PROVE  /\ n \div 2 \in Nat
         /\ n % 2 = 0 => n = 2 * (n \div 2)
         /\ n % 2 # 0 => n = 2 * (n \div 2) + 1
         /\ n % 2 = 0 <=> (n + 1) % 2 # 0
  OBVIOUS

LEMMA HalfBlock ==
  ASSUME NEW l \in Nat, NEW m \in Nat \ {0}
  PROVE  l \div (2 * m) = (l \div m) \div 2
  <1>1. 2 * m = m * 2
    OBVIOUS
  <1>2. l \div (m * 2) = (l \div m) \div 2
    BY QuotientOfProduct
  <1> QED BY ONLY <1>1, <1>2, Zenon

\* l and x are in the same block of m lanes.
Same(m, l, x) == l \div m = x \div m

(* lane ^ j goes up from the lower half of a block of 2 * j, and down from *)
(* the upper half.                                                         *)
LEMMA LowerLane ==
  ASSUME NEW l \in Nat, NEW m \in Nat \ {0}, BitClear(l, m)
  PROVE  /\ ~BitClear(l + m, m)
         /\ Same(2 * m, l, l + m)
  <1> DEFINE d == l \div m
  <1>1. d \in Nat /\ m * d <= l /\ l < m * d + m
    BY Quotient
  <1>2. d % 2 = 0
    BY DEF BitClear
  <1>3. (l + m) \div m = d + 1
    <2> HIDE DEF d
    <2>1. m * (d + 1) = m * d + m
      BY <1>1
    <2>2. m * (d + 1) <= l + m /\ l + m < m * (d + 1) + m
      BY <1>1, <2>1
    <2> QED BY <2>2, <1>1, QuotientIs
  <1>4. (d + 1) % 2 # 0 /\ (d + 1) \div 2 = d \div 2
    <2> HIDE DEF d
    <2> QED BY <1>1, <1>2
  <1>5. l \div (2 * m) = d \div 2 /\ (l + m) \div (2 * m) = (d + 1) \div 2
    <2>1. l \div (2 * m) = d \div 2
      BY HalfBlock
    <2>2. l + m \in Nat
      BY <1>4
    <2>3. (l + m) \div (2 * m) = ((l + m) \div m) \div 2
      BY ONLY <2>2, m \in Nat \ {0}, HalfBlock
    <2> QED BY <2>1, <2>3, <1>3, Zenon
  <1> QED BY <1>3, <1>4, <1>5 DEF BitClear, Same

LEMMA UpperLane ==
  ASSUME NEW l \in Nat, NEW m \in Nat \ {0}, ~BitClear(l, m)
  PROVE  /\ l - m \in Nat
         /\ BitClear(l - m, m)
         /\ Same(2 * m, l, l - m)
  <1> DEFINE d == l \div m
  <1>1. d \in Nat /\ m * d <= l /\ l < m * d + m
    BY Quotient
  <1>2. d % 2 # 0
    BY DEF BitClear
  <1>3. d - 1 \in Nat /\ (d - 1) % 2 = 0 /\ (d - 1) \div 2 = d \div 2
    <2> HIDE DEF d
    <2> QED BY <1>1, <1>2
  <1>4. l - m \in Nat /\ (l - m) \div m = d - 1
    <2> HIDE DEF d
    <2>1. m * (d - 1) = m * d - m /\ m * (d - 1) \in Nat
      BY <1>1, <1>3
    <2>2. m * (d - 1) <= l - m /\ l - m < m * (d - 1) + m
      BY <1>1, <2>1
    <2>3. l - m \in Nat
      BY <2>1, <2>2
    <2> QED BY <2>2, <2>3, <1>3, QuotientIs
  <1>5. l \div (2 * m) = d \div 2 /\ (l - m) \div (2 * m) = (d - 1) \div 2
    <2>1. l \div (2 * m) = d \div 2
      BY HalfBlock
    <2>2. l - m \in Nat
      BY <1>4
    <2>3. (l - m) \div (2 * m) = ((l - m) \div m) \div 2
      BY ONLY <2>2, m \in Nat \ {0}, HalfBlock
    <2> QED BY <2>1, <2>3, <1>4, Zenon
  <1> QED BY <1>3, <1>4, <1>5 DEF BitClear, Same

LEMMA SameCoarser ==
  ASSUME NEW l \in Nat, NEW x \in Nat, NEW m \in Nat \ {0}, NEW p \in Nat \ {0}, Same(m, l, x)
  PROVE  Same(m * p, l, x)
  <1>1. l \div (m * p) = (l \div m) \div p /\ x \div (m * p) = (x \div m) \div p
    BY QuotientOfProduct
  <1> QED BY <1>1, Zenon DEF Same

(* A block is an interval of lanes.                                        *)
LEMMA SameBetween ==
  ASSUME NEW l \in Nat, NEW x \in Nat, NEW y \in Nat, NEW m \in Nat \ {0},
         l <= x, x <= y, Same(m, l, y)
  PROVE  Same(m, l, x)
  <1> DEFINE d == l \div m
  <1>1. d \in Nat /\ m * d <= l
    BY Quotient
  <1>2. d = y \div m
    BY DEF Same
  <1>3. y < m * d + m
    BY <1>2, Quotient
  <1> HIDE DEF d
  <1>4. m * d \in Nat
    BY <1>1
  <1>5. m * d <= x /\ x < m * d + m
    BY <1>1, <1>3, <1>4
  <1>6. x \div m = d
    BY <1>1, <1>5, QuotientIs
  <1> QED BY <1>6 DEF Same, d

LEMMA QuotientMonotone ==
  ASSUME NEW l \in Nat, NEW x \in Nat, NEW m \in Nat \ {0}, l <= x
  PROVE  l \div m <= x \div m
  OBVIOUS

LEMMA SameNear ==
  ASSUME NEW l \in Nat, NEW x \in Nat, NEW m \in Nat \ {0}, Same(m, l, x)
  PROVE  l < x + m /\ x < l + m
  <1> DEFINE d == l \div m
  <1>1. m * d <= l /\ l < m * d + m /\ d \in Nat
    BY Quotient
  <1>2. x \div m = d
    BY DEF Same
  <1>3. m * (x \div m) <= x /\ x < m * (x \div m) + m
    BY Quotient
  <1>4. m * d <= x /\ x < m * d + m
    BY ONLY <1>2, <1>3, Zenon
  <1> HIDE DEF d
  <1>5. m * d \in Nat
    BY <1>1
  <1> QED BY <1>1, <1>4, <1>5

-----------------------------------------------------------------------------
\* Four lanes of a sequence of zeros and ones go up and down, or down and up, and back.
Turns(w, x, y, v) == \/ w /\ ~x /\ y /\ ~v
                     \/ ~w /\ x /\ ~y /\ v

\* No block of m lanes turns more than twice.
Bitonic(z, m) ==
  \A l1, l2, l3, l4 \in Lane :
    l1 < l2 /\ l2 < l3 /\ l3 < l4 /\ Same(m, l1, l4) => ~Turns(z[l1], z[l2], z[l3], z[l4])

\* Within a block of kk lanes its blocks of m are ordered, upwards or downwards.
Directed(z, kk, m) ==
  \A l, x \in Lane :
    l < x /\ Same(kk, l, x) /\ ~Same(m, l, x) => IF BitClear(l, kk) THEN z[l] => z[x]
                                                                  ELSE z[x] => z[l]

\* y is z after the exchanges of stage (kk, m).
Cleaned(z, y, kk, m) ==
  \A l \in Lane :
    BitClear(l, m) => /\ y[l] <=> IF BitClear(l, kk) THEN z[l] /\ z[l + m] ELSE z[l] \/ z[l + m]
                      /\ y[l + m] <=> IF BitClear(l, kk) THEN z[l] \/ z[l + m] ELSE z[l] /\ z[l + m]

(* Both lanes of a pair exist.                                             *)
LEMMA LanePairs ==
  ASSUME NEW m \in Nat \ {0}, NEW r \in Nat \ {0}, N = 2 * m * r, NEW l \in Lane
  PROVE  /\ BitClear(l, m) => l + m \in Lane
         /\ ~BitClear(l, m) => l - m \in Lane
  <1>1. l \in Nat /\ l < N /\ N \in Nat
    BY DEF Lane
  <1>2. CASE BitClear(l, m)
    <2> DEFINE d == l \div (2 * m)
    <2>1. 2 * m \in Nat \ {0} /\ l + m \in Nat
      BY <1>1
    <2>2. d = (l + m) \div (2 * m)
      BY <1>1, <1>2, LowerLane DEF Same
    <2>3. d \in Nat /\ (2 * m) * d <= l
      BY <1>1, <2>1, Quotient
    <2>4. l + m < (2 * m) * d + 2 * m
      BY <2>1, <2>2, Quotient, Zenon
    <2> HIDE DEF d
    <2>5. d < r
      <3> DEFINE mm == 2 * m
      <3>1. mm * d < mm * r /\ mm \in Nat \ {0}
        BY <1>1, <2>1, <2>3
      <3> HIDE DEF mm
      <3>2. ASSUME d >= r PROVE FALSE
        <4>1. PICK e \in Nat : d = r + e
          BY <3>2, <2>3
        <4>2. mm * d = mm * r + mm * e /\ mm * e \in Nat /\ mm * r \in Nat
          BY <4>1, <3>1
        <4> QED BY <3>1, <4>2
      <3> QED BY <3>2, <2>3
    <2>6. PICK e \in Nat : r = d + 1 + e
      BY <2>3, <2>5
    <2>7. 2 * m * r = (2 * m) * d + 2 * m + (2 * m) * e /\ (2 * m) * e \in Nat
      BY <2>6, <2>3
    <2>8. l + m < N
      BY <2>4, <2>7, <2>3, <1>1
    <2> QED BY <1>2, <2>1, <2>8, <1>1 DEF Lane
  <1>3. CASE ~BitClear(l, m)
    <2>1. l - m \in Nat
      BY <1>1, <1>3, UpperLane
    <2> QED BY <1>3, <2>1, <1>1 DEF Lane
  <1> QED BY <1>2, <1>3

(* Halving a bitonic block: each half of it is bitonic,                    *)
LEMMA CleanedBitonic ==
  ASSUME NEW z \in [Lane -> BOOLEAN], NEW y \in [Lane -> BOOLEAN],
         NEW m \in Nat \ {0}, NEW p \in Nat \ {0}, NEW r \in Nat \ {0}, N = 2 * m * r,
         Bitonic(z, 2 * m), Cleaned(z, y, 2 * m * p, m)
  PROVE  Bitonic(y, m)
  <1> DEFINE kk == 2 * m * p
  <1> SUFFICES ASSUME NEW l1 \in Lane, NEW l2 \in Lane, NEW l3 \in Lane, NEW l4 \in Lane,
                      l1 < l2, l2 < l3, l3 < l4, Same(m, l1, l4)
               PROVE  ~Turns(y[l1], y[l2], y[l3], y[l4])
    BY Zenon DEF Bitonic
  <1>1. l1 \in Nat /\ l2 \in Nat /\ l3 \in Nat /\ l4 \in Nat
    BY DEF Lane
  <1>2. Same(m, l1, l2) /\ Same(m, l1, l3)
    BY <1>1, SameBetween
  <1>3. l4 < l1 + m
    BY <1>1, SameNear
  <1>4. BitClear(l2, m) = BitClear(l1, m) /\ BitClear(l3, m) = BitClear(l1, m)
        /\ BitClear(l4, m) = BitClear(l1, m)
    BY <1>2, Zenon DEF Same, BitClear
  <1>5. \E m1, m2, m3, m4 \in Lane :
          /\ m1 < m2 /\ m2 < m3 /\ m3 < m4 /\ m4 < m1 + m
          /\ Same(m, m1, m4)
          /\ BitClear(m1, m) /\ BitClear(m2, m) /\ BitClear(m3, m) /\ BitClear(m4, m)
          /\ \/ l1 = m1 /\ l2 = m2 /\ l3 = m3 /\ l4 = m4
             \/ l1 = m1 + m /\ l2 = m2 + m /\ l3 = m3 + m /\ l4 = m4 + m
    <2>1. CASE BitClear(l1, m)
      BY <2>1, <1>3, <1>4
    <2>2. CASE ~BitClear(l1, m)
      <3>1. l1 - m \in Lane /\ l2 - m \in Lane /\ l3 - m \in Lane /\ l4 - m \in Lane
        BY <2>2, <1>4, LanePairs
      <3>2. BitClear(l1 - m, m) /\ BitClear(l2 - m, m) /\ BitClear(l3 - m, m) /\ BitClear(l4 - m, m)
        BY <2>2, <1>4, <1>1, UpperLane
      <3>3. Same(m, l1 - m, l4 - m)
        <4>1. \A d \in Nat : (d - m) \div m = (d \div m) - 1
          OBVIOUS
        <4> QED BY <4>1, <1>1, Zenon DEF Same
      <3>4. /\ l1 - m < l2 - m /\ l2 - m < l3 - m /\ l3 - m < l4 - m /\ l4 - m < (l1 - m) + m
            /\ l1 = (l1 - m) + m /\ l2 = (l2 - m) + m /\ l3 = (l3 - m) + m /\ l4 = (l4 - m) + m
        BY <1>1, <1>3
      <3> QED BY <3>1, <3>2, <3>3, <3>4
    <2> QED BY <2>1, <2>2
  <1>6. PICK m1, m2, m3, m4 \in Lane :
          /\ m1 < m2 /\ m2 < m3 /\ m3 < m4 /\ m4 < m1 + m
          /\ Same(m, m1, m4)
          /\ BitClear(m1, m) /\ BitClear(m2, m) /\ BitClear(m3, m) /\ BitClear(m4, m)
          /\ \/ l1 = m1 /\ l2 = m2 /\ l3 = m3 /\ l4 = m4
             \/ l1 = m1 + m /\ l2 = m2 + m /\ l3 = m3 + m /\ l4 = m4 + m
    BY <1>5
  <1>7. m1 + m \in Lane /\ m2 + m \in Lane /\ m3 + m \in Lane /\ m4 + m \in Lane
    BY <1>6, LanePairs
  <1>8. m1 \in Nat /\ m2 \in Nat /\ m3 \in Nat /\ m4 \in Nat
    BY DEF Lane
  <1>9. Same(2 * m, m1, m4 + m)
    <2>1. Same(m * 2, m1, m4)
      BY <1>6, <1>8, SameCoarser
    <2>2. Same(2 * m, m4, m4 + m)
      BY <1>6, <1>8, LowerLane
    <2>3. m * 2 = 2 * m
      OBVIOUS
    <2>4. Same(2 * m, m1, m4)
      BY ONLY <2>1, <2>3, Zenon
    <2> QED BY <2>2, <2>4 DEF Same
  <1>10. \A x \in Nat : m1 <= x /\ x <= m4 + m => Same(2 * m, m1, x)
    BY <1>8, <1>9, SameBetween
  <1>11. \A x1, x2, x3, x4 \in Lane :
           m1 <= x1 /\ x1 < x2 /\ x2 < x3 /\ x3 < x4 /\ x4 <= m4 + m
             => ~Turns(z[x1], z[x2], z[x3], z[x4])
    <2> SUFFICES ASSUME NEW x1 \in Lane, NEW x2 \in Lane, NEW x3 \in Lane, NEW x4 \in Lane,
                        m1 <= x1, x1 < x2, x2 < x3, x3 < x4, x4 <= m4 + m
                 PROVE  ~Turns(z[x1], z[x2], z[x3], z[x4])
      OBVIOUS
    <2>1. x1 \in Nat /\ x2 \in Nat /\ x3 \in Nat /\ x4 \in Nat
      BY DEF Lane
    <2>2. Same(2 * m, m1, x1) /\ Same(2 * m, m1, x4)
      BY <2>1, <1>8, <1>10
    <2>3. Same(2 * m, x1, x4)
      BY <2>2, Zenon DEF Same
    <2> QED BY <2>3 DEF Bitonic
  <1>12. /\ m1 < m1 + m /\ m4 < m1 + m
         /\ m1 + m < m2 + m /\ m2 + m < m3 + m /\ m3 + m < m4 + m
         /\ m1 < m2 /\ m2 < m3 /\ m3 < m4
    BY <1>6, <1>8
  <1> DEFINE u1 == m1 + m  u2 == m2 + m  u3 == m3 + m  u4 == m4 + m
  <1>13. u1 \in Lane /\ u2 \in Lane /\ u3 \in Lane /\ u4 \in Lane
    BY <1>7
  <1>14. /\ u1 \in Nat /\ u2 \in Nat /\ u3 \in Nat /\ u4 \in Nat
         /\ m1 < m2 /\ m2 < m3 /\ m3 < m4 /\ m4 < u1 /\ u1 < u2 /\ u2 < u3 /\ u3 < u4
         /\ \A x1, x2, x3, x4 \in Lane :
              m1 <= x1 /\ x1 < x2 /\ x2 < x3 /\ x3 < x4 /\ x4 <= u4
                => ~Turns(z[x1], z[x2], z[x3], z[x4])
    BY <1>8, <1>11, <1>12
  <1>15. /\ y[m1] \in BOOLEAN /\ z[m1] \in BOOLEAN
    BY <1>6
  <1> HIDE DEF u1, u2, u3, u4, kk
  <1>16. /\ ~Turns(z[m1], z[m2], z[m3], z[m4])
         /\ ~Turns(z[m1], z[m2], z[m3], z[u4])
         /\ ~Turns(z[m1], z[m2], z[u3], z[u4])
         /\ ~Turns(z[m3], z[m4], z[u1], z[u2])
         /\ ~Turns(z[m2], z[m3], z[m4], z[u1])
         /\ ~Turns(z[m4], z[u1], z[u2], z[u3])
         /\ ~Turns(z[u1], z[u2], z[u3], z[u4])
         /\ ~Turns(z[m1], z[u2], z[u3], z[u4])
    BY <1>13, <1>14, <1>8
  <1>17. /\ ~Turns(z[m1] /\ z[u1], z[m2] /\ z[u2], z[m3] /\ z[u3], z[m4] /\ z[u4])
         /\ ~Turns(z[m1] \/ z[u1], z[m2] \/ z[u2], z[m3] \/ z[u3], z[m4] \/ z[u4])
    BY <1>16, SMT DEF Turns
  <1>18. BitClear(m2, kk) = BitClear(m1, kk) /\ BitClear(m3, kk) = BitClear(m1, kk)
         /\ BitClear(m4, kk) = BitClear(m1, kk)
    <2>1. Same(2 * m, m1, m2) /\ Same(2 * m, m1, m3) /\ Same(2 * m, m1, m4)
      BY <1>8, <1>10, <1>12
    <2>2. 2 * m \in Nat \ {0}
      OBVIOUS
    <2>3. Same(kk, m1, m2) /\ Same(kk, m1, m3) /\ Same(kk, m1, m4)
      BY <2>1, <2>2, <1>8, SameCoarser DEF kk
    <2> QED BY <2>3, Zenon DEF Same, BitClear
  <1>19. \A l \in {m1, m2, m3, m4} :
           /\ y[l] <=> IF BitClear(l, kk) THEN z[l] /\ z[l + m] ELSE z[l] \/ z[l + m]
           /\ y[l + m] <=> IF BitClear(l, kk) THEN z[l] \/ z[l + m] ELSE z[l] /\ z[l + m]
    <2>1. m1 \in Lane /\ m2 \in Lane /\ m3 \in Lane /\ m4 \in Lane
      OBVIOUS
    <2>2. \A l \in {m1, m2, m3, m4} : l \in Lane /\ BitClear(l, m)
      BY <1>6, <2>1
    <2>3. Cleaned(z, y, kk, m)
      BY DEF kk
    <2>4. \A l \in Lane :
            BitClear(l, m) =>
              /\ y[l] <=> IF BitClear(l, kk) THEN z[l] /\ z[l + m] ELSE z[l] \/ z[l + m]
              /\ y[l + m] <=> IF BitClear(l, kk) THEN z[l] \/ z[l + m] ELSE z[l] /\ z[l + m]
      BY ONLY <2>3 DEF Cleaned
    <2> SUFFICES ASSUME NEW l \in {m1, m2, m3, m4}
                 PROVE  /\ y[l] <=> IF BitClear(l, kk) THEN z[l] /\ z[l + m] ELSE z[l] \/ z[l + m]
                        /\ y[l + m] <=> IF BitClear(l, kk) THEN z[l] \/ z[l + m]
                                                          ELSE z[l] /\ z[l + m]
      OBVIOUS
    <2>5. l \in Lane /\ BitClear(l, m)
      BY <2>2
    <2> QED BY ONLY <2>5, <2>4
  <1>20. CASE BitClear(m1, kk)
    <2>1. /\ (y[m1] <=> (z[m1] /\ z[u1])) /\ (y[m2] <=> (z[m2] /\ z[u2]))
          /\ (y[m3] <=> (z[m3] /\ z[u3])) /\ (y[m4] <=> (z[m4] /\ z[u4]))
          /\ (y[u1] <=> (z[m1] \/ z[u1])) /\ (y[u2] <=> (z[m2] \/ z[u2]))
          /\ (y[u3] <=> (z[m3] \/ z[u3])) /\ (y[u4] <=> (z[m4] \/ z[u4]))
      BY <1>18, <1>19, <1>20, Zenon DEF u1, u2, u3, u4
    <2>2. ~Turns(y[m1], y[m2], y[m3], y[m4]) /\ ~Turns(y[u1], y[u2], y[u3], y[u4])
      BY ONLY <2>1, <1>17, SMT DEF Turns
    <2> QED BY ONLY <2>2, <1>6, Zenon DEF u1, u2, u3, u4
  <1>21. CASE ~BitClear(m1, kk)
    <2>1. /\ (y[m1] <=> (z[m1] \/ z[u1])) /\ (y[m2] <=> (z[m2] \/ z[u2]))
          /\ (y[m3] <=> (z[m3] \/ z[u3])) /\ (y[m4] <=> (z[m4] \/ z[u4]))
          /\ (y[u1] <=> (z[m1] /\ z[u1])) /\ (y[u2] <=> (z[m2] /\ z[u2]))
          /\ (y[u3] <=> (z[m3] /\ z[u3])) /\ (y[u4] <=> (z[m4] /\ z[u4]))
      BY <1>18, <1>19, <1>21, Zenon DEF u1, u2, u3, u4
    <2>2. ~Turns(y[m1], y[m2], y[m3], y[m4]) /\ ~Turns(y[u1], y[u2], y[u3], y[u4])
      BY ONLY <2>1, <1>17, SMT DEF Turns
    <2> QED BY ONLY <2>2, <1>6, Zenon DEF u1, u2, u3, u4
  <1> QED BY <1>20, <1>21

\* The pair of a lane, and what a cleaned lane holds.
Pair(l, m) == IF BitClear(l, m) THEN l + m ELSE l - m

LEMMA PairFacts ==
  ASSUME NEW m \in Nat \ {0}, NEW p \in Nat \ {0}, NEW r \in Nat \ {0}, N = 2 * m * r,
         NEW l \in Lane
  PROVE  /\ Pair(l, m) \in Lane
         /\ Pair(l, m) # l
         /\ Pair(Pair(l, m), m) = l
         /\ Pair(l, m) > l <=> BitClear(l, m)
         /\ BitClear(Pair(l, m), m) <=> ~BitClear(l, m)
         /\ Same(2 * m, l, Pair(l, m))
         /\ Same(2 * m * p, l, Pair(l, m))
         /\ BitClear(Pair(l, m), 2 * m * p) <=> BitClear(l, 2 * m * p)
  <1>1. l \in Nat
    BY DEF Lane
  <1>2. Pair(l, m) \in Lane
    BY LanePairs DEF Pair
  <1>3. Pair(l, m) \in Nat
    BY <1>2 DEF Lane
  <1>4. BitClear(Pair(l, m), m) <=> ~BitClear(l, m)
    BY <1>1, LowerLane, UpperLane DEF Pair
  <1>5. Pair(l, m) # l /\ (Pair(l, m) > l <=> BitClear(l, m))
    BY <1>1 DEF Pair
  <1>6. Pair(Pair(l, m), m) = l
    <2>1. CASE BitClear(l, m)
      <3>1. Pair(l, m) = l + m /\ ~BitClear(l + m, m)
        BY <2>1, <1>4 DEF Pair
      <3>2. Pair(l + m, m) = (l + m) - m
        BY <3>1 DEF Pair
      <3> QED BY <3>1, <3>2, <1>1
    <2>2. CASE ~BitClear(l, m)
      <3>1. Pair(l, m) = l - m /\ BitClear(l - m, m)
        BY <2>2, <1>4 DEF Pair
      <3>2. Pair(l - m, m) = (l - m) + m
        BY <3>1 DEF Pair
      <3> QED BY <3>1, <3>2, <1>1
    <2> QED BY <2>1, <2>2
  <1>7. Same(2 * m, l, Pair(l, m))
    BY <1>1, LowerLane, UpperLane DEF Pair
  <1>8. Same(2 * m * p, l, Pair(l, m))
    <2> DEFINE x == Pair(l, m)  mm == 2 * m
    <2>1. mm \in Nat \ {0} /\ x \in Nat /\ Same(mm, l, x)
      BY <1>3, <1>7
    <2> HIDE DEF x, mm
    <2>2. Same(mm * p, l, x)
      BY <2>1, <1>1, SameCoarser
    <2> QED BY <2>2 DEF x, mm
  <1>9. BitClear(Pair(l, m), 2 * m * p) <=> BitClear(l, 2 * m * p)
    BY <1>8, Zenon DEF Same, BitClear
  <1> QED BY <1>2, <1>4, <1>5, <1>6, <1>7, <1>8, <1>9

(* A cleaned lane holds the conjunction or the disjunction of its pair,    *)
(* by its place in the pair and the direction of its block.                *)
LEMMA CleanedLane ==
  ASSUME NEW z \in [Lane -> BOOLEAN], NEW y \in [Lane -> BOOLEAN],
         NEW m \in Nat \ {0}, NEW p \in Nat \ {0}, NEW r \in Nat \ {0}, N = 2 * m * r,
         Cleaned(z, y, 2 * m * p, m), NEW l \in Lane
  PROVE  y[l] <=> IF BitClear(l, m) <=> BitClear(l, 2 * m * p)
                    THEN z[l] /\ z[Pair(l, m)]
                    ELSE z[l] \/ z[Pair(l, m)]
  <1> DEFINE kk == 2 * m * p  o == Pair(l, m)
  <1>1. /\ o \in Lane /\ Pair(o, m) = l
        /\ BitClear(o, m) <=> ~BitClear(l, m)
        /\ BitClear(o, kk) <=> BitClear(l, kk)
    BY PairFacts
  <1>2. \A x \in Lane :
          BitClear(x, m) =>
            /\ y[x] <=> IF BitClear(x, kk) THEN z[x] /\ z[x + m] ELSE z[x] \/ z[x + m]
            /\ y[x + m] <=> IF BitClear(x, kk) THEN z[x] \/ z[x + m] ELSE z[x] /\ z[x + m]
    BY DEF Cleaned
  <1>3. CASE BitClear(l, m)
    <2>1. o = l + m
      BY <1>3 DEF Pair
    <2>2. y[l] <=> IF BitClear(l, kk) THEN z[l] /\ z[o] ELSE z[l] \/ z[o]
      BY <1>2, <1>3, <2>1
    <2> QED BY <2>2, <1>3
  <1>4. CASE ~BitClear(l, m)
    <2>1. BitClear(o, m) /\ l = o + m
      BY <1>1, <1>4 DEF Pair
    <2>2. y[l] <=> IF BitClear(o, kk) THEN z[o] \/ z[l] ELSE z[o] /\ z[l]
      BY <1>2, <1>1, <2>1
    <2> QED BY <2>2, <1>1, <1>4
  <1> QED BY <1>3, <1>4

(* and one half lies wholly below the other, in the direction of the block.*)
LEMMA CleanedDirected ==
  ASSUME NEW z \in [Lane -> BOOLEAN], NEW y \in [Lane -> BOOLEAN],
         NEW m \in Nat \ {0}, NEW p \in Nat \ {0}, NEW r \in Nat \ {0}, N = 2 * m * r,
         Bitonic(z, 2 * m), Directed(z, 2 * m * p, 2 * m), Cleaned(z, y, 2 * m * p, m)
  PROVE  Directed(y, 2 * m * p, m)
  <1> DEFINE kk == 2 * m * p
  <1> SUFFICES ASSUME NEW l \in Lane, NEW x \in Lane, l < x, Same(kk, l, x), ~Same(m, l, x)
               PROVE  IF BitClear(l, kk) THEN y[l] => y[x] ELSE y[x] => y[l]
    BY DEF Directed
  <1> DEFINE lo == Pair(l, m)  xo == Pair(x, m)
  <1>1. l \in Nat /\ x \in Nat
    BY DEF Lane
  <1>2. /\ lo \in Lane /\ Same(2 * m, l, lo) /\ Same(kk, l, lo)
        /\ xo \in Lane /\ Same(2 * m, x, xo) /\ Same(kk, x, xo)
        /\ BitClear(lo, kk) <=> BitClear(l, kk)
    BY PairFacts
  <1>3. BitClear(x, kk) <=> BitClear(l, kk)
    BY Zenon DEF Same, BitClear
  <1>4. /\ y[l] <=> IF BitClear(l, m) <=> BitClear(l, kk) THEN z[l] /\ z[lo] ELSE z[l] \/ z[lo]
        /\ y[x] <=> IF BitClear(x, m) <=> BitClear(x, kk) THEN z[x] /\ z[xo] ELSE z[x] \/ z[xo]
    BY CleanedLane
  <1>5. CASE ~Same(2 * m, l, x)
    <2>1. \A d \in {l, lo}, e \in {x, xo} :
             IF BitClear(l, kk) THEN z[d] => z[e] ELSE z[e] => z[d]
      <3> SUFFICES ASSUME NEW d \in {l, lo}, NEW e \in {x, xo}
                   PROVE  IF BitClear(l, kk) THEN z[d] => z[e] ELSE z[e] => z[d]
        OBVIOUS
      <3>1. d \in Lane /\ e \in Lane /\ Same(2 * m, l, d) /\ Same(2 * m, x, e)
            /\ Same(kk, l, d) /\ Same(kk, x, e) /\ (BitClear(d, kk) <=> BitClear(l, kk))
        BY <1>2 DEF Same
      <3>2. Same(kk, d, e) /\ ~Same(2 * m, d, e)
        BY <3>1, <1>5, Zenon DEF Same
      <3>3. d < e
        <4>1. d \in Nat /\ e \in Nat /\ 2 * m \in Nat \ {0}
          BY <3>1 DEF Lane
        <4>2. ASSUME e <= d PROVE FALSE
          <5> DEFINE mm == 2 * m
          <5>1. l \div mm = d \div mm /\ x \div mm = e \div mm /\ l \div mm # x \div mm
            BY <3>1, <1>5 DEF Same
          <5>2. mm \in Nat \ {0}
            BY <4>1
          <5> HIDE DEF mm
          <5>3. x \div mm <= d \div mm
            BY <5>1, <5>2, <4>1, <4>2, QuotientMonotone
          <5>4. l \div mm <= x \div mm
            BY <5>2, <1>1, QuotientMonotone
          <5>5. l \div mm \in Nat /\ x \div mm \in Nat
            BY <5>2, <1>1, Quotient
          <5> QED BY <5>1, <5>3, <5>4, <5>5
        <4> QED BY <4>1, <4>2
      <3> QED BY <3>1, <3>2, <3>3 DEF Directed
    <2>2. /\ IF BitClear(l, kk) THEN z[l] => z[x] ELSE z[x] => z[l]
          /\ IF BitClear(l, kk) THEN z[l] => z[xo] ELSE z[xo] => z[l]
          /\ IF BitClear(l, kk) THEN z[lo] => z[x] ELSE z[x] => z[lo]
          /\ IF BitClear(l, kk) THEN z[lo] => z[xo] ELSE z[xo] => z[lo]
      BY <2>1
    <2> HIDE DEF lo, xo, kk
    <2> QED BY <2>2, <1>4, SMT
  <1>6. CASE Same(2 * m, l, x)
    <2>1. BitClear(l, m) /\ ~BitClear(x, m)
      <3> DEFINE d == l \div m  e == x \div m
      <3>1. d \in Nat /\ e \in Nat /\ d <= e /\ d # e
        BY <1>1, Quotient, QuotientMonotone DEF Same
      <3>2. d \div 2 = e \div 2
        <4>1. l \div (2 * m) = d \div 2 /\ x \div (2 * m) = e \div 2
          BY <1>1, HalfBlock
        <4> QED BY <4>1, <1>6, Zenon DEF Same
      <3> HIDE DEF d, e
      <3>3. d % 2 = 0 /\ e % 2 # 0
        BY <3>1, <3>2, HalfQuotient
      <3> QED BY <3>3 DEF BitClear, d, e
    <2>2. lo = l + m /\ xo = x - m /\ xo \in Nat /\ x = xo + m
      BY <2>1, <1>1, UpperLane DEF Pair
    <2>3. l # xo => \/ /\ l < xo /\ xo < lo /\ lo < x /\ Same(2 * m, l, x)
                    \/ /\ xo < l /\ l < x /\ x < lo /\ Same(2 * m, xo, lo)
      <3>1. l < xo + m /\ xo < l + m
        <4>1. Same(m, l, xo)
          <5> DEFINE d == l \div m  e == x \div m
          <5>1. d \in Nat /\ e \in Nat /\ d % 2 = 0 /\ e % 2 # 0
            BY <1>1, <2>1, Quotient DEF BitClear
          <5>2. d \div 2 = e \div 2
            <6>1. l \div (2 * m) = d \div 2 /\ x \div (2 * m) = e \div 2
              BY <1>1, HalfBlock
            <6> QED BY <6>1, <1>6, Zenon DEF Same
          <5>3. xo \div m = e - 1
            <6>1. \A c \in Nat : (c - m) \div m = (c \div m) - 1
              OBVIOUS
            <6> QED BY <6>1, <1>1, <2>2
          <5> HIDE DEF d, e
          <5>4. e - 1 = d
            BY <5>1, <5>2, HalfQuotient
          <5> QED BY <5>3, <5>4 DEF Same, d
        <4> QED BY <4>1, <1>1, <2>2, SameNear
      <3>2. Same(2 * m, xo, lo)
        BY <1>2, <1>6, Zenon DEF Same
      <3> QED BY <3>1, <3>2, <2>2, <1>1, <1>6
    <2>4. l # xo => ~Turns(z[l], z[xo], z[lo], z[x]) \/ ~Turns(z[xo], z[l], z[x], z[lo])
      BY <2>3, <1>2 DEF Bitonic
    <2>5. /\ y[l] <=> IF BitClear(l, kk) THEN z[l] /\ z[lo] ELSE z[l] \/ z[lo]
          /\ y[x] <=> IF BitClear(l, kk) THEN z[x] \/ z[xo] ELSE z[x] /\ z[xo]
      BY <1>3, <1>4, <2>1
    <2>6. l = xo => lo = x
      BY <2>2
    <2> HIDE DEF lo, xo, kk
    <2>7. CASE l = xo
      BY <2>7, <2>6, <2>5, SMT
    <2>8. CASE l # xo
      BY <2>8, <2>4, <2>5, SMT DEF Turns
    <2> QED BY <2>7, <2>8
  <1> QED BY <1>5, <1>6

(* Two sorted blocks, the one ascending and the next descending, make a    *)
(* bitonic one.                                                            *)
LEMMA MergedBitonic ==
  ASSUME NEW z \in [Lane -> BOOLEAN], NEW kk \in Nat \ {0}, Directed(z, kk, 1)
  PROVE  Bitonic(z, 2 * kk)
  <1> SUFFICES ASSUME NEW l1 \in Lane, NEW l2 \in Lane, NEW l3 \in Lane, NEW l4 \in Lane,
                      l1 < l2, l2 < l3, l3 < l4, Same(2 * kk, l1, l4)
               PROVE  ~Turns(z[l1], z[l2], z[l3], z[l4])
    BY Zenon DEF Bitonic
  <1>1. l1 \in Nat /\ l2 \in Nat /\ l3 \in Nat /\ l4 \in Nat
    BY DEF Lane
  <1>2. /\ Same(2 * kk, l1, l2) /\ Same(2 * kk, l1, l3)
        /\ Same(2 * kk, l2, l3) /\ Same(2 * kk, l3, l4)
    <2>1. 2 * kk \in Nat \ {0}
      OBVIOUS
    <2>2. Same(2 * kk, l1, l2) /\ Same(2 * kk, l1, l3)
      BY <1>1, <2>1, SameBetween
    <2> QED BY <2>2, Zenon DEF Same
  \* In a block of 2 * kk the first half ascends and the second one descends.
  <1>3. \A l, x \in Lane :
          l < x /\ Same(2 * kk, l, x)
            => /\ BitClear(x, kk) => (z[l] => z[x])
               /\ ~BitClear(l, kk) => ~BitClear(x, kk) /\ (z[x] => z[l])
    <2> SUFFICES ASSUME NEW l \in Lane, NEW x \in Lane, l < x, Same(2 * kk, l, x)
                 PROVE  /\ BitClear(x, kk) => (z[l] => z[x])
                        /\ ~BitClear(l, kk) => ~BitClear(x, kk) /\ (z[x] => z[l])
      OBVIOUS
    <2>1. l \in Nat /\ x \in Nat
      BY DEF Lane
    <2> DEFINE d == l \div kk  e == x \div kk
    <2>2. d \in Nat /\ e \in Nat /\ d <= e
      BY <2>1, Quotient, QuotientMonotone
    <2>3. d \div 2 = e \div 2
      <3>1. l \div (2 * kk) = d \div 2 /\ x \div (2 * kk) = e \div 2
        BY <2>1, HalfBlock
      <3> QED BY <3>1, Zenon DEF Same
    <2> HIDE DEF d, e
    <2>4. /\ e % 2 = 0 => d = e
          /\ d % 2 # 0 => d = e
      BY <2>2, <2>3, HalfQuotient
    <2>5. ~Same(1, l, x)
      BY <2>1 DEF Same
    <2>6. Same(kk, l, x) => IF BitClear(l, kk) THEN z[l] => z[x] ELSE z[x] => z[l]
      BY <2>5 DEF Directed
    <2>7. (BitClear(l, kk) <=> d % 2 = 0) /\ (BitClear(x, kk) <=> e % 2 = 0)
      BY DEF BitClear, d, e
    <2>8. Same(kk, l, x) <=> d = e
      BY DEF Same, d, e
    <2> QED BY <2>4, <2>6, <2>7, <2>8, Zenon
  <1>4. /\ BitClear(l2, kk) => (z[l1] => z[l2])
        /\ BitClear(l3, kk) => (z[l2] => z[l3])
        /\ ~BitClear(l2, kk) => (z[l3] => z[l2])
        /\ ~BitClear(l3, kk) => (z[l4] => z[l3])
    BY <1>2, <1>3
  <1> QED BY <1>4, Zenon DEF Turns

(* Two lanes are bitonic whatever they hold.                               *)
LEMMA SmallBlockBitonic ==
  ASSUME NEW z
  PROVE  Bitonic(z, 2)
  <1> SUFFICES ASSUME NEW l1 \in Lane, NEW l2 \in Lane, NEW l3 \in Lane, NEW l4 \in Lane,
                      l1 < l2, l2 < l3, l3 < l4, Same(2, l1, l4)
               PROVE  FALSE
    BY Zenon DEF Bitonic
  <1>1. l1 \in Nat /\ l2 \in Nat /\ l3 \in Nat /\ l4 \in Nat
    BY DEF Lane
  <1>2. l4 < l1 + 2
    BY <1>1, SameNear
  <1> QED BY <1>1, <1>2

LEMMA WholeBlockDirected ==
  ASSUME NEW z, NEW m
  PROVE  Directed(z, m, m)
  BY Zenon DEF Directed

(* Sorted blocks of N lanes are a sorted buffer.                           *)
LEMMA DirectedAscends ==
  ASSUME NEW z, Directed(z, N, 1), NEW l \in Lane \ {0}, z[l - 1]
  PROVE  z[l]
  <1>1. N \in Nat \ {0} /\ l \in Nat /\ l < N /\ l - 1 \in Lane /\ l - 1 < l
    BY WidthAssumption DEF Lane, N
  <1>2. l \div N = 0 /\ (l - 1) \div N = 0
    <2>1. N * 0 = 0 /\ 0 \in Nat /\ l - 1 \in Nat
      BY <1>1
    <2> QED BY <1>1, <2>1, QuotientIs
  <1>3. Same(N, l - 1, l) /\ ~Same(1, l - 1, l) /\ BitClear(l - 1, N)
    BY <1>1, <1>2 DEF Same, BitClear
  <1> QED BY <1>1, <1>3 DEF Directed

-----------------------------------------------------------------------------
(* A stage of the network.                                                 *)

\* In stage (kk, m) the pair of lane l exchanges what w holds.
Swaps(w, kk, m, l) ==
  LET low == IF BitClear(l, m) THEN l ELSE Pair(l, m)
      high == IF BitClear(l, m) THEN Pair(l, m) ELSE l
  IN  IF BitClear(low, kk) THEN KeyLess(Key(w[high]), Key(w[low]))
                           ELSE KeyLess(Key(w[low]), Key(w[high]))

\* What the lanes hold at the barrier, when those in S have still to compare.
Settled(w, kk, m, S) ==
  [l \in Lane |-> IF l \in S /\ Swaps(w, kk, m, l) THEN w[Pair(l, m)] ELSE w[l]]

\* Which lanes are above the threshold t.
Above(w, t) == [l \in Lane |-> KeyLess(t, Key(w[l]))]

\* What holds after stage (kk, m), and before stage (kk, m \div 2).
Network(w, kk, m) ==
  \A t \in Exp \X Exp : Bitonic(Above(w, t), m) /\ Directed(Above(w, t), kk, m)

LEMMA ConstantTypes ==
  /\ N \in Nat /\ N > 1 /\ MaxExp \in Nat /\ MaxCoef \in Nat
  /\ Exp \subseteq Nat /\ Coef \subseteq Int /\ Lane \subseteq Nat
  <1>1. Width \in Nat /\ Width > 1 /\ MaxExp \in Nat /\ MaxCoef \in Nat
    BY WidthAssumption, FactorAssumption
  <1>2. Width * Width \in Nat /\ Width * Width > 1
    BY <1>1
  <1> QED BY <1>1, <1>2 DEF N, Exp, Coef, Lane

LEMMA KeyType ==
  ASSUME NEW x \in Triple
  PROVE  Key(x) \in Exp \X Exp
  BY DEF Key, Triple

(* KeyLess is a total order.                                               *)
LEMMA KeyOrder ==
  ASSUME NEW t \in Exp \X Exp, NEW x \in Exp \X Exp, NEW y \in Exp \X Exp
  PROVE  /\ KeyLess(x, y) => (KeyLess(t, x) => KeyLess(t, y))
         /\ ~KeyLess(x, y) => (KeyLess(t, y) => KeyLess(t, x))
         /\ ~KeyLess(t, t)
  <1> t[1] \in Nat /\ t[2] \in Nat /\ x[1] \in Nat /\ x[2] \in Nat /\ y[1] \in Nat /\ y[2] \in Nat
    BY ConstantTypes
  <1> QED BY DEF KeyLess

LEMMA AboveType ==
  ASSUME NEW w, NEW t
  PROVE  Above(w, t) \in [Lane -> BOOLEAN]
  BY DEF Above, KeyLess

LEMMA SettledType ==
  ASSUME NEW w \in [Lane -> Triple], NEW kk, NEW m \in Nat \ {0}, NEW r \in Nat \ {0},
         N = 2 * m * r, NEW S
  PROVE  Settled(w, kk, m, S) \in [Lane -> Triple]
  <1>1. \A l \in Lane : Pair(l, m) \in Lane
    BY LanePairs DEF Pair
  <1> QED BY <1>1 DEF Settled

(* The exchanges of a stage clean every threshold of the keys.             *)
LEMMA SettledCleans ==
  ASSUME NEW w \in [Lane -> Triple], NEW m \in Nat \ {0}, NEW p \in Nat \ {0},
         NEW r \in Nat \ {0}, N = 2 * m * r, NEW t \in Exp \X Exp
  PROVE  Cleaned(Above(w, t), Above(Settled(w, 2 * m * p, m, Lane), t), 2 * m * p, m)
  <1> DEFINE kk == 2 * m * p
             v == Settled(w, kk, m, Lane)
             z == Above(w, t)
             y == Above(v, t)
  <1> SUFFICES ASSUME NEW l \in Lane, BitClear(l, m)
               PROVE  /\ y[l] <=> IF BitClear(l, kk) THEN z[l] /\ z[l + m] ELSE z[l] \/ z[l + m]
                      /\ y[l + m] <=> IF BitClear(l, kk) THEN z[l] \/ z[l + m]
                                                         ELSE z[l] /\ z[l + m]
    BY DEF Cleaned
  <1> DEFINE o == Pair(l, m)
  <1>1. o \in Lane /\ o = l + m /\ Pair(o, m) = l /\ ~BitClear(o, m)
        /\ (BitClear(o, kk) <=> BitClear(l, kk))
    BY PairFacts DEF Pair
  <1>2. Key(w[l]) \in Exp \X Exp /\ Key(w[o]) \in Exp \X Exp
    BY <1>1, KeyType
  <1>3. /\ z[l] <=> KeyLess(t, Key(w[l]))
        /\ z[o] <=> KeyLess(t, Key(w[o]))
        /\ y[l] <=> KeyLess(t, Key(v[l]))
        /\ y[o] <=> KeyLess(t, Key(v[o]))
    BY <1>1 DEF Above
  <1> HIDE DEF o, z, y
  <1>4. Swaps(w, kk, m, l) <=> IF BitClear(l, kk) THEN KeyLess(Key(w[o]), Key(w[l]))
                                                  ELSE KeyLess(Key(w[l]), Key(w[o]))
    BY DEF Swaps, o
  <1>5. Swaps(w, kk, m, o) <=> Swaps(w, kk, m, l)
    BY <1>1 DEF Swaps, o
  <1>6. /\ v[l] = IF Swaps(w, kk, m, l) THEN w[o] ELSE w[l]
        /\ v[o] = IF Swaps(w, kk, m, l) THEN w[l] ELSE w[o]
    BY <1>1, <1>5 DEF Settled, o
  <1> HIDE DEF v, kk
  <1>7. /\ KeyLess(Key(w[o]), Key(w[l])) => (KeyLess(t, Key(w[o])) => KeyLess(t, Key(w[l])))
        /\ ~KeyLess(Key(w[o]), Key(w[l])) => (KeyLess(t, Key(w[l])) => KeyLess(t, Key(w[o])))
        /\ KeyLess(Key(w[l]), Key(w[o])) => (KeyLess(t, Key(w[l])) => KeyLess(t, Key(w[o])))
        /\ ~KeyLess(Key(w[l]), Key(w[o])) => (KeyLess(t, Key(w[o])) => KeyLess(t, Key(w[l])))
    BY <1>2, KeyOrder
  <1>8. /\ y[l] <=> IF BitClear(l, kk) THEN z[l] /\ z[o] ELSE z[l] \/ z[o]
        /\ y[o] <=> IF BitClear(l, kk) THEN z[l] \/ z[o] ELSE z[l] /\ z[o]
    <2>1. CASE Swaps(w, kk, m, l)
      <3>1. v[l] = w[o] /\ v[o] = w[l]
        BY <2>1, <1>6
      <3>2. (y[l] <=> z[o]) /\ (y[o] <=> z[l])
        BY <3>1, <1>3
      <3>3. IF BitClear(l, kk) THEN z[o] => z[l] ELSE z[l] => z[o]
        BY <2>1, <1>3, <1>4, <1>7
      <3> QED BY <3>2, <3>3
    <2>2. CASE ~Swaps(w, kk, m, l)
      <3>1. v[l] = w[l] /\ v[o] = w[o]
        BY <2>2, <1>6
      <3>2. (y[l] <=> z[l]) /\ (y[o] <=> z[o])
        BY <3>1, <1>3
      <3>3. IF BitClear(l, kk) THEN z[l] => z[o] ELSE z[o] => z[l]
        BY <2>2, <1>3, <1>4, <1>7
      <3> QED BY <3>2, <3>3
    <2> QED BY <2>1, <2>2
  <1> QED BY <1>1, <1>8

(* A stage takes the network one step on.                                  *)
LEMMA StageStep ==
  ASSUME NEW w \in [Lane -> Triple], NEW m \in Nat \ {0}, NEW p \in Nat \ {0},
         NEW r \in Nat \ {0}, N = 2 * m * r, Network(w, 2 * m * p, 2 * m)
  PROVE  Network(Settled(w, 2 * m * p, m, Lane), 2 * m * p, m)
  <1> DEFINE kk == 2 * m * p
             v == Settled(w, kk, m, Lane)
  <1> SUFFICES ASSUME NEW t \in Exp \X Exp
               PROVE  Bitonic(Above(v, t), m) /\ Directed(Above(v, t), kk, m)
    BY DEF Network
  <1> DEFINE z == Above(w, t)
             y == Above(v, t)
  <1>1. z \in [Lane -> BOOLEAN] /\ y \in [Lane -> BOOLEAN]
    BY AboveType
  <1>2. Cleaned(z, y, 2 * m * p, m)
    BY SettledCleans
  <1>3. Bitonic(z, 2 * m) /\ Directed(z, 2 * m * p, 2 * m)
    BY DEF Network
  <1> HIDE DEF z, y
  <1>4. Bitonic(y, m)
    BY <1>1, <1>2, <1>3, CleanedBitonic
  <1>5. Directed(y, 2 * m * p, m)
    BY <1>1, <1>2, <1>3, CleanedDirected
  <1> QED BY <1>4, <1>5 DEF y

LEMMA FirstStage ==
  ASSUME NEW w
  PROVE  Network(w, 2, 2)
  BY SmallBlockBitonic, WholeBlockDirected DEF Network

(* What a merge has sorted is the input of the next one.                   *)
LEMMA NextMerge ==
  ASSUME NEW w, NEW kk \in Nat \ {0}, Network(w, kk, 1)
  PROVE  Network(w, 2 * kk, 2 * kk)
  <1> SUFFICES ASSUME NEW t \in Exp \X Exp
               PROVE  Bitonic(Above(w, t), 2 * kk) /\ Directed(Above(w, t), 2 * kk, 2 * kk)
    BY DEF Network
  <1>1. Above(w, t) \in [Lane -> BOOLEAN] /\ Directed(Above(w, t), kk, 1)
    BY AboveType DEF Network
  <1> QED BY <1>1, MergedBitonic, WholeBlockDirected

(* After the last merge the keys ascend.                                   *)
LEMMA LastStage ==
  ASSUME NEW w \in [Lane -> Triple], Network(w, N, 1), NEW l \in Lane \ {0}
  PROVE  l - 1 \in Lane /\ ~KeyLess(Key(w[l]), Key(w[l - 1]))
  <1>1. l - 1 \in Lane
    BY ConstantTypes DEF Lane
  <1> DEFINE t == Key(w[l])
  <1>2. t \in Exp \X Exp
    BY KeyType
  <1> HIDE DEF t
  <1>3. Directed(Above(w, t), N, 1)
    BY <1>2 DEF Network
  <1>4. Above(w, t)[l - 1] => Above(w, t)[l]
    <2> DEFINE z == Above(w, t)
    <2> HIDE DEF z
    <2> SUFFICES Directed(z, N, 1) => (z[l - 1] => z[l])
      BY <1>3 DEF z
    <2> QED BY DirectedAscends
  <1>5. KeyLess(t, Key(w[l - 1])) => KeyLess(t, Key(w[l]))
    BY <1>1, <1>4 DEF Above
  <1>6. ~KeyLess(t, t)
    BY <1>2, KeyOrder
  <1> QED BY <1>1, <1>5, <1>6 DEF t

-----------------------------------------------------------------------------
(* The sort.                                                               *)

(* Where the loops over k and j are.                                       *)
Stage ==
  /\ \E p, r \in Nat \ {0} : k = 2 * j * p /\ N = k * r
  /\ phase \in {"reference", "product", "load"} => k = 2 /\ j = 1

(* The stage so far, whatever pairs are still to exchange.                 *)
Sorting ==
  phase = "sort" => /\ \A l \in todo : Other(l) \in todo
                    /\ Network(Settled(work, k, j, todo), k, j)

(* Every lane holds what was loaded at a lane of its own.                  *)
Permuted ==
  phase = "sort" => \E f \in Bijection(Lane, Lane) :
                      \A l \in Lane : work[l] = Loaded(prods[f[l]])

SortInvariant == TypeOK /\ Stage /\ Sorting /\ Permuted /\ SortOrders

-----------------------------------------------------------------------------
LEMMA WrapCoefType ==
  ASSUME NEW n \in Int
  PROVE  WrapCoef(n) \in Coef
  <1> DEFINE half == MaxCoef + 1
  <1>1. half \in Nat \ {0}
    BY ConstantTypes
  <1>2. (n + half) % (2 * half) \in 0..(2 * half - 1)
    <2> HIDE DEF half
    <2> QED BY <1>1
  <1>3. ((n + half) % (2 * half)) - half \in -MaxCoef - 1 .. MaxCoef
    <2> DEFINE x == (n + half) % (2 * half)
    <2>1. x \in Int /\ 0 <= x /\ x <= 2 * half - 1 /\ MaxCoef \in Int
      BY <1>1, <1>2, ConstantTypes
    <2> HIDE DEF x
    <2>2. x - half \in -MaxCoef - 1 .. MaxCoef
      BY <2>1
    <2> QED BY <2>2 DEF x
  <1> QED BY <1>3 DEF WrapCoef, Coef

LEMMA WrapExpType ==
  ASSUME NEW n \in Int
  PROVE  WrapExp(n) \in Exp
  <1>1. MaxExp + 1 \in Nat \ {0}
    BY ConstantTypes
  <1>2. n % (MaxExp + 1) \in 0..MaxExp
    BY <1>1, ConstantTypes
  <1> QED BY <1>2 DEF WrapExp, Exp

LEMMA FactorTypes ==
  ASSUME a \in Factors, b \in Factors
  PROVE  /\ \A i \in DOMAIN a : a[i].qe \in Exp /\ a[i].te \in Exp /\ a[i].coef \in Coef
         /\ \A m \in DOMAIN b : b[m].qe \in Exp /\ b[m].te \in Exp /\ b[m].coef \in Coef
         /\ DOMAIN a = 1..Len(a) /\ Len(a) \in Nat /\ Len(a) <= Width
         /\ DOMAIN b = 1..Len(b) /\ Len(b) \in Nat /\ Len(b) <= Width
  <1>1. a \in Seq(Triple) /\ b \in Seq(Triple) /\ Len(a) <= Width /\ Len(b) <= Width
    BY FactorAssumption
  <1>2. (\A i \in DOMAIN a : a[i] \in Triple) /\ (\A m \in DOMAIN b : b[m] \in Triple)
    BY <1>1
  <1> QED BY <1>1, <1>2 DEF Triple

LEMMA ZeroType == Zero \in Term /\ Bare(Zero) \in Triple
  <1>1. 0 \in Exp /\ 0 \in Coef
    BY ConstantTypes DEF Exp, Coef
  <1> QED BY <1>1 DEF Zero, Term, Bare, Triple

LEMMA BareType ==
  ASSUME NEW x \in Term
  PROVE  Bare(x) \in Triple
  BY DEF Bare, Term, Triple

LEMMA ProductType ==
  ASSUME a \in Factors, b \in Factors, NEW l \in Lane
  PROVE  Product(l) \in Term
  <1> DEFINE i == (l % Width) + 1
             m == (l \div Width) + 1
  <1>1. CASE i \in DOMAIN a /\ m \in DOMAIN b
    <2>1. /\ a[i].qe \in Exp /\ a[i].te \in Exp /\ a[i].coef \in Coef
          /\ b[m].qe \in Exp /\ b[m].te \in Exp /\ b[m].coef \in Coef
      BY <1>1, FactorTypes
    <2>2. Product(l) = [qe |-> WrapExp(a[i].qe + b[m].qe), te |-> WrapExp(a[i].te + b[m].te),
                        coef |-> WrapCoef(a[i].coef * b[m].coef), valid |-> TRUE]
      BY <1>1 DEF Product
    <2> HIDE DEF i, m
    <2>3. /\ a[i].qe + b[m].qe \in Int /\ a[i].te + b[m].te \in Int
          /\ a[i].coef * b[m].coef \in Int
      <3>1. (\A u, v \in Exp : u + v \in Int) /\ (\A u, v \in Coef : u * v \in Int)
        BY ConstantTypes
      <3> QED BY <2>1, <3>1
    <2>4. /\ WrapExp(a[i].qe + b[m].qe) \in Exp /\ WrapExp(a[i].te + b[m].te) \in Exp
          /\ WrapCoef(a[i].coef * b[m].coef) \in Coef
      BY <2>3, WrapExpType, WrapCoefType
    <2> QED BY <2>2, <2>4 DEF Term
  <1>2. CASE ~(i \in DOMAIN a /\ m \in DOMAIN b)
    <2>1. Product(l) = Zero
      BY <1>2 DEF Product
    <2> QED BY <2>1, ZeroType
  <1> QED BY <1>1, <1>2

LEMMA LoadedType ==
  ASSUME NEW x \in Term
  PROVE  Loaded(x) \in Triple
  <1>1. MaxExp \in Exp /\ 0 \in Coef
    BY ConstantTypes DEF Exp, Coef
  <1>2. Bare(x) \in Triple
    BY BareType
  <1> QED BY <1>1, <1>2 DEF Loaded, Triple

LEMMA StoredType ==
  ASSUME NEW x \in Triple
  PROVE  Stored(x) \in Term /\ Key(Stored(x)) = Key(x)
  BY DEF Stored, Triple, Term, Key

LEMMA RunSum ==
  ASSUME prods \in [Lane -> Term], NEW l \in Lane
  PROVE  /\ IsFiniteSet(Run(l)) /\ Run(l) \subseteq Lane
         /\ \A x \in Run(l) : Coefs[x] \in Int
         /\ Sum(Coefs, Run(l)) \in Int
  <1>1. Run(l) \subseteq l..N - 1 /\ l \in Nat /\ N - 1 \in Int
    BY ConstantTypes DEF Run
  <1>2. IsFiniteSet(l..N - 1) /\ l..N - 1 \subseteq Lane
    BY <1>1, FS_Interval DEF Lane
  <1>3. IsFiniteSet(Run(l)) /\ Run(l) \subseteq Lane
    BY <1>1, <1>2, FS_Subset
  <1>4. \A x \in Run(l) : Coefs[x] \in Int
    <2>1. \A x \in Lane : prods[x].coef \in Int
      BY ConstantTypes DEF Term
    <2> QED BY <1>3, <2>1 DEF Coefs
  <1> QED BY <1>3, <1>4, SumType

LEMMA ReducedType ==
  ASSUME prods \in [Lane -> Term], NEW l \in Lane
  PROVE  Reduced(l) \in Term
  <1>1. CASE IsStart(l)
    <2> DEFINE c == WrapCoef(SumFunctionOnSet(Coefs, Run(l)))
    <2>1. c \in Coef
      BY RunSum, WrapCoefType DEF Sum
    <2>2. Reduced(l) = [prods[l] EXCEPT !.coef = c]
      BY <1>1 DEF Reduced
    <2> HIDE DEF c
    <2>3. prods[l] \in Term
      OBVIOUS
    <2> QED BY <2>1, <2>2, <2>3 DEF Term
  <1>2. CASE ~IsStart(l)
    <2>1. Reduced(l) = Zero
      BY <1>2 DEF Reduced
    <2> QED BY <2>1, ZeroType
  <1> QED BY <1>1, <1>2

LEMMA MultipleOf ==
  ASSUME NEW x \in Nat \ {0}, NEW y \in Nat \ {0}
  PROVE  (x * y) % x = 0 /\ x <= x * y
  OBVIOUS

LEMMA StageFacts ==
  ASSUME TypeOK, NEW p \in Nat \ {0}, NEW r \in Nat \ {0}, k = 2 * j * p, N = k * r
  PROVE  /\ j \in Nat \ {0} /\ k \in Nat \ {0}
         /\ p * r \in Nat \ {0} /\ N = 2 * j * (p * r)
         /\ \A l \in Lane : Other(l) = Pair(l, j)
  <1>1. j \in Nat \ {0} /\ k \in Nat \ {0}
    BY ConstantTypes DEF TypeOK
  <1>2. p * r \in Nat \ {0} /\ N = 2 * j * (p * r)
    BY <1>1
  <1> QED BY <1>1, <1>2 DEF Other, Pair

LEMMA InitSort == Init => SortInvariant
  <1> SUFFICES ASSUME Init PROVE SortInvariant
    OBVIOUS
  <1>1. TypeOK
    <2>1. 2 \in 2..N /\ 1 \in 1..2 - 1
      BY ConstantTypes
    <2>2. <<>> \in Seq(Triple)
      OBVIOUS
    <2> QED BY <2>1, <2>2, ZeroType DEF Init, TypeOK
  <1>2. Stage
    <2>1. PICK h \in Nat \ {0} : N = 2 * h
      <3>1. 2 * 2 = 4 /\ N \in Nat /\ N > 1
        BY ConstantTypes
      <3>2. N \in 2..N /\ N % N = 0
        BY <3>1
      <3>3. N % 2 = 0
        BY <3>2, WidthAssumption DEF PowerOfTwo
      <3>4. N = 2 * (N \div 2) /\ N \div 2 \in Nat
        BY <3>1, <3>3, HalfQuotient
      <3> QED BY <3>1, <3>4
    <2>2. k = 2 * j * 1 /\ N = k * h
      BY <2>1 DEF Init
    <2> QED BY <2>2 DEF Init, Stage
  <1>3. Sorting /\ Permuted /\ SortOrders
    BY DEF Init, Sorting, Permuted, SortOrders
  <1> QED BY <1>1, <1>2, <1>3 DEF SortInvariant

(* Exchanging two terms is a permutation, and any two of them compose.     *)
LEMMA ExchangePermutes ==
  ASSUME NEW f \in Bijection(Lane, Lane), NEW l \in Lane, NEW o \in Lane
  PROVE  [f EXCEPT ![l] = f[o], ![o] = f[l]] \in Bijection(Lane, Lane)
  <1> DEFINE g == [f EXCEPT ![l] = f[o], ![o] = f[l]]
  <1>1. /\ f \in [Lane -> Lane]
        /\ \A x, y \in Lane : f[x] = f[y] => x = y
        /\ \A y \in Lane : \E x \in Lane : f[x] = y
    BY DEF Bijection, Injection, Surjection, IsInjective
  <1>2. /\ g \in [Lane -> Lane]
        /\ \A x \in Lane : g[x] = IF x = o THEN f[l] ELSE IF x = l THEN f[o] ELSE f[x]
    BY <1>1
  <1> HIDE DEF g
  <1>3. \A x, y \in Lane : g[x] = g[y] => x = y
    BY <1>1, <1>2
  <1>4. \A y \in Lane : \E x \in Lane : g[x] = y
    <2> SUFFICES ASSUME NEW y \in Lane PROVE \E x \in Lane : g[x] = y
      OBVIOUS
    <2>1. PICK x \in Lane : f[x] = y
      BY <1>1
    <2>2. CASE x = l
      BY <2>1, <2>2, <1>2
    <2>3. CASE x = o
      BY <2>1, <2>3, <1>2
    <2>4. CASE x # l /\ x # o
      BY <2>1, <2>4, <1>2
    <2> QED BY <2>2, <2>3, <2>4
  <1>5. DOMAIN g = Lane
    BY <1>2
  <1> QED BY <1>2, <1>3, <1>4, <1>5 DEF Bijection, Injection, Surjection, IsInjective, g

(* A comparison in whatever order the lanes come: what the lanes will hold *)
(* at the barrier (Settled) stays the same, and it is a permutation.       *)
LEMMA CompareSort ==
  ASSUME SortInvariant, NEW l \in Lane, Compare(l)
  PROVE  SortInvariant'
  <1>1. PICK p, r \in Nat \ {0} : k = 2 * j * p /\ N = k * r
    BY DEF SortInvariant, Stage
  <1>2. TypeOK
    BY DEF SortInvariant
  <1>3. /\ j \in Nat \ {0} /\ k \in Nat \ {0}
        /\ p * r \in Nat \ {0} /\ N = 2 * j * (p * r)
        /\ \A x \in Lane : Other(x) = Pair(x, j)
    BY <1>1, <1>2, StageFacts
  <1> DEFINE o == Other(l)
  <1>4. \A x \in Lane : /\ Other(x) \in Lane /\ Other(x) # x /\ Other(Other(x)) = x
                        /\ Other(x) > x <=> BitClear(x, j)
    <2> SUFFICES ASSUME NEW x \in Lane
                 PROVE  /\ Other(x) \in Lane /\ Other(x) # x /\ Other(Other(x)) = x
                        /\ Other(x) > x <=> BitClear(x, j)
      OBVIOUS
    <2>1. /\ Pair(x, j) \in Lane /\ Pair(x, j) # x /\ Pair(Pair(x, j), j) = x
          /\ Pair(x, j) > x <=> BitClear(x, j)
      BY <1>3, PairFacts
    <2> QED BY <1>3, <2>1
  <1>5. BitClear(l, j) /\ ~BitClear(o, j) /\ l # o /\ o \in Lane /\ Other(o) = l
    <2>1. BitClear(l, j) /\ o \in Lane /\ Other(o) = l /\ l # o
      BY <1>4 DEF Compare
    <2>2. o > l /\ l \in Nat /\ o \in Nat
      BY <2>1, ConstantTypes DEF Compare
    <2> HIDE DEF o
    <2>3. ~(l > o)
      BY <2>2
    <2> QED BY <2>1, <2>3, <1>4
  <1>6. l \in todo /\ o \in todo
    BY DEF Compare, SortInvariant, Sorting
  <1>7. work \in [Lane -> Triple] /\ todo \subseteq Lane
    BY <1>2 DEF TypeOK
  <1>8. work' = IF Exchange(l) THEN [work EXCEPT ![l] = work[o], ![o] = work[l]] ELSE work
    BY DEF Compare, Swapped
  <1>9. work' \in [Lane -> Triple]
    BY <1>5, <1>7, <1>8
  <1>10. TypeOK'
    BY <1>2, <1>7, <1>9 DEF TypeOK, Compare
  <1>11. Stage'
    BY DEF SortInvariant, Stage, Compare
  <1>12. Sorting'
    <2>1. \A x \in todo' : Other(x)' \in todo'
      <3> SUFFICES ASSUME NEW x \in todo' PROVE Other(x) \in todo'
        BY DEF Compare, Other
      <3>1. x \in todo /\ x # l /\ x # o /\ x \in Lane /\ Other(x) \in todo
        BY <1>7 DEF Compare, SortInvariant, Sorting
      <3>2. Other(x) # l /\ Other(x) # o
        BY <1>4, <1>5, <3>1
      <3> QED BY <3>1, <3>2 DEF Compare
    <2>2. Settled(work', k, j, todo') = Settled(work, k, j, todo)
      <3>1. ASSUME NEW x \in Lane
            PROVE  (IF x \in todo' /\ Swaps(work', k, j, x) THEN work'[Pair(x, j)] ELSE work'[x])
                 = (IF x \in todo /\ Swaps(work, k, j, x) THEN work[Pair(x, j)] ELSE work[x])
        <4>0. Pair(x, j) = Other(x) /\ Other(x) \in Lane
          BY <1>3, <1>4
        <4>1. CASE x = l
          <5>1. Pair(l, j) = o
            BY <1>3
          <5>2. Swaps(work, k, j, l) <=> Exchange(l)
            BY <1>5, <5>1 DEF Swaps, Exchange, Ascending
          <5>3. work'[l] = IF Exchange(l) THEN work[o] ELSE work[l]
            BY <1>5, <1>7, <1>8
          <5> QED BY <4>1, <5>1, <5>2, <5>3, <1>6 DEF Compare
        <4>2. CASE x = o
          <5>1. Pair(o, j) = l
            BY <1>3, <1>5
          <5>2. Swaps(work, k, j, o) <=> Exchange(l)
            BY <1>5, <5>1 DEF Swaps, Exchange, Ascending
          <5>3. work'[o] = IF Exchange(l) THEN work[l] ELSE work[o]
            BY <1>5, <1>7, <1>8
          <5> QED BY <4>2, <5>1, <5>2, <5>3, <1>6 DEF Compare
        <4>3. CASE x # l /\ x # o
          <5>1. Other(x) # l /\ Other(x) # o
            BY <1>4, <1>5, <4>3
          <5>2. work'[x] = work[x] /\ work'[Other(x)] = work[Other(x)]
            BY <1>5, <1>7, <1>8, <4>0, <4>3, <5>1
          <5>3. Swaps(work', k, j, x) <=> Swaps(work, k, j, x)
            BY <4>0, <5>2 DEF Swaps
          <5>4. x \in todo' <=> x \in todo
            BY <4>3 DEF Compare
          <5> QED BY <4>0, <5>2, <5>3, <5>4
        <4> QED BY <4>1, <4>2, <4>3
      <3> QED BY <3>1, Zenon DEF Settled
    <2>3. Network(Settled(work, k, j, todo), k, j)
      BY DEF SortInvariant, Sorting, Compare
    <2>4. Network(Settled(work', k', j', todo'), k', j')
      BY <2>2, <2>3 DEF Compare
    <2> QED BY <2>1, <2>4 DEF Sorting
  <1>13. Permuted'
    <2>1. PICK f \in Bijection(Lane, Lane) : \A x \in Lane : work[x] = Loaded(prods[f[x]])
      BY DEF SortInvariant, Permuted, Compare
    <2>2. CASE Exchange(l)
      <3> DEFINE g == [f EXCEPT ![l] = f[o], ![o] = f[l]]
      <3>1. g \in Bijection(Lane, Lane)
        BY <1>5, ExchangePermutes
      <3>2. f \in [Lane -> Lane]
        BY DEF Bijection, Injection
      <3>3. \A x \in Lane : work'[x] = Loaded(prods[g[x]])
        BY <1>5, <1>7, <1>8, <2>1, <2>2, <3>2
      <3> HIDE DEF g
      <3> QED BY <3>1, <3>3 DEF Permuted, Compare
    <2>3. CASE ~Exchange(l)
      BY <1>8, <2>1, <2>3 DEF Permuted, Compare
    <2> QED BY <2>2, <2>3
  <1>14. SortOrders'
    BY DEF SortOrders, Compare
  <1> QED BY <1>10, <1>11, <1>12, <1>13, <1>14 DEF SortInvariant

LEMMA LoadWorkSort ==
  ASSUME SortInvariant, LoadWork
  PROVE  SortInvariant'
  <1>1. PICK p, r \in Nat \ {0} : k = 2 * j * p /\ N = k * r
    BY DEF SortInvariant, Stage
  <1>2. TypeOK /\ k = 2 /\ j = 1
    BY DEF SortInvariant, Stage, LoadWork
  <1>3. N = 2 * j * r /\ j \in Nat \ {0} /\ 2 * j * 1 = 2 /\ 2 * j = 2
    BY <1>1, <1>2
  <1>4. work' \in [Lane -> Triple]
    BY <1>2, LoadedType DEF TypeOK, LoadWork
  <1>5. TypeOK'
    BY <1>2, <1>4 DEF TypeOK, LoadWork
  <1>6. Stage'
    BY DEF SortInvariant, Stage, LoadWork
  <1>7. Sorting'
    <2>1. \A l \in Lane : Other(l) \in Lane
      BY <1>3, LanePairs DEF Other
    <2>2. \A l \in todo' : Other(l)' \in todo'
      BY <2>1 DEF LoadWork, Other
    <2>3. Network(Settled(work', 2, 1, Lane), 2, 1)
      <3> DEFINE w == work'
      <3>1. w \in [Lane -> Triple]
        BY <1>4
      <3> HIDE DEF w
      <3>2. Network(w, 2, 2)
        BY FirstStage
      <3>3. N = 2 * 1 * r /\ 2 * 1 * 1 = 2 /\ 2 * 1 = 2 /\ 1 \in Nat \ {0}
        BY <1>3, <1>2
      <3>4. Network(w, 2 * 1 * 1, 2 * 1)
        BY <3>2, <3>3, Zenon
      <3>5. Network(Settled(w, 2 * 1 * 1, 1, Lane), 2 * 1 * 1, 1)
        BY <3>1, <3>3, <3>4, StageStep
      <3>6. Network(Settled(w, 2, 1, Lane), 2, 1)
        BY ONLY <3>5, <3>3, Zenon
      <3> QED BY <3>6 DEF w
    <2>4. Network(Settled(work', k', j', todo'), k', j')
      BY <2>3, <1>2 DEF LoadWork
    <2> QED BY <2>2, <2>4 DEF Sorting
  <1>8. Permuted'
    <2> DEFINE id == [l \in Lane |-> l]
    <2>1. id \in Bijection(Lane, Lane)
      BY DEF Bijection, Injection, Surjection, IsInjective
    <2>2. \A l \in Lane : work'[l] = Loaded(prods'[id[l]])
      BY DEF LoadWork
    <2> HIDE DEF id
    <2> QED BY <2>1, <2>2 DEF Permuted
  <1>9. SortOrders'
    BY DEF SortOrders, LoadWork
  <1> QED BY <1>5, <1>6, <1>7, <1>8, <1>9 DEF SortInvariant

(* A barrier enters the next stage: halving blocks of 2 * j, or merging    *)
(* blocks of k.                                                            *)
LEMMA BarrierSort ==
  ASSUME SortInvariant, Barrier
  PROVE  SortInvariant'
  <1>1. PICK p, r \in Nat \ {0} : k = 2 * j * p /\ N = k * r
    BY DEF SortInvariant, Stage
  <1>2. TypeOK
    BY DEF SortInvariant
  <1>3. /\ j \in Nat \ {0} /\ k \in Nat \ {0} /\ N \in Nat /\ N > 1
        /\ p * r \in Nat \ {0} /\ N = 2 * j * (p * r)
    BY <1>1, <1>2, StageFacts, ConstantTypes
  <1>4. work \in [Lane -> Triple] /\ work' = work /\ todo' = Lane
    BY <1>2 DEF TypeOK, Barrier
  <1>5. Network(work, k, j)
    <2>1. Network(Settled(work, k, j, {}), k, j)
      BY DEF Barrier, SortInvariant, Sorting
    <2>2. Settled(work, k, j, {}) = work
      BY <1>4 DEF Settled
    <2> QED BY <2>1, <2>2
  \* In either case the next stage is m, with k' = 2 * m * q.
  <1>6. \E m, q, s \in Nat \ {0} :
          /\ j' = m /\ k' = 2 * m * q /\ N = k' * s
          /\ j' \in 1..k' - 1 /\ k' \in 2..N
          /\ Network(work, k', 2 * m)
    <2>1. CASE j > 1
      <3>1. j \in 2..N /\ N % j = 0
        <4>1. N = j * (2 * (p * r)) /\ 2 * (p * r) \in Nat \ {0}
          BY <1>3
        <4>2. N % j = 0
          BY <4>1, <1>3, MultipleOf
        <4>3. j <= N
          BY <4>1, <1>3, MultipleOf
        <4> QED BY <4>2, <4>3, <2>1, <1>3
      <3>2. j % 2 = 0
        BY <3>1, WidthAssumption DEF PowerOfTwo
      <3> DEFINE m == j \div 2
      <3>3. m \in Nat \ {0} /\ j = 2 * m
        BY <3>2, <1>3, HalfQuotient
      <3>4. j' = m /\ k' = k
        BY <2>1 DEF Barrier
      <3>5. k = 2 * m * (2 * p) /\ 2 * p \in Nat \ {0}
        <4> HIDE DEF m
        <4> QED BY <3>3, <1>1
      <3>6. Network(work, k', 2 * m)
        BY <1>5, <3>3, <3>4
      <3>7. j' \in 1..k' - 1 /\ k' \in 2..N
        <4>1. k \in 2..N /\ j \in 1..k - 1
          BY <1>2 DEF TypeOK
        <4> HIDE DEF m
        <4> QED BY <4>1, <3>3, <3>4, <1>3
      <3> HIDE DEF m
      <3> QED BY <3>3, <3>4, <3>5, <3>6, <3>7, <1>1
    <2>2. CASE j = 1
      <3>1. k' = 2 * k /\ j' = k /\ k < N
        BY <2>2 DEF Barrier
      <3>2. r > 1
        <4>1. r = 1 => N = k
          BY <1>1, <1>3
        <4> QED BY <4>1, <3>1, <1>3
      <3>3. r \in 2..N /\ N % r = 0
        <4>1. N = r * k
          BY <1>1, <1>3
        <4> QED BY <4>1, <3>2, <1>3, MultipleOf
      <3>4. r % 2 = 0
        BY <3>3, WidthAssumption DEF PowerOfTwo
      <3> DEFINE s == r \div 2
      <3>5. s \in Nat \ {0} /\ r = 2 * s
        BY <3>4, <3>2, HalfQuotient
      <3> HIDE DEF s
      <3>6. N = (2 * k) * s /\ 2 * k * 1 = 2 * k
        BY <3>5, <1>1, <1>3
      <3>7. Network(work, 2 * k, 2 * k)
        BY <1>5, <2>2, <1>3, NextMerge
      <3>8. k \in 1..2 * k - 1 /\ 2 * k \in 2..N
        <4>1. 2 * k <= N
          BY <3>6, <3>5, <1>3, MultipleOf
        <4> QED BY <4>1, <1>3
      <3>9. /\ j' = k /\ k' = 2 * k * 1 /\ N = k' * s
            /\ j' \in 1..k' - 1 /\ k' \in 2..N
            /\ Network(work, k', 2 * k)
        BY <3>1, <3>6, <3>7, <3>8
      <3>10. k \in Nat \ {0} /\ 1 \in Nat \ {0} /\ s \in Nat \ {0}
        BY <3>5, <1>3
      <3> QED BY ONLY <3>9, <3>10, Zenon
    <2> QED BY <2>1, <2>2, <1>3
  <1>7. PICK m, q, s \in Nat \ {0} :
          /\ j' = m /\ k' = 2 * m * q /\ N = k' * s
          /\ j' \in 1..k' - 1 /\ k' \in 2..N
          /\ Network(work, k', 2 * m)
    BY <1>6
  <1>8. TypeOK'
    BY <1>2, <1>7 DEF TypeOK, Barrier
  <1>9. Stage'
    BY <1>7 DEF Barrier, Stage
  <1>10. Sorting'
    <2>1. q * s \in Nat \ {0} /\ N = 2 * m * (q * s)
      BY <1>7
    <2>2. Network(Settled(work, 2 * m * q, m, Lane), 2 * m * q, m)
      <3>1. Network(work, 2 * m * q, 2 * m)
        BY <1>7
      <3> QED BY <3>1, <2>1, <1>4, StageStep
    <2>3. Network(Settled(work', k', j', todo'), k', j')
      BY <2>2, <1>7, <1>4
    <2>4. \A l \in todo' : Other(l)' \in todo'
      <3>1. \A l \in Lane : Pair(l, m) \in Lane
        BY <2>1, PairFacts
      <3>2. \A l \in Lane : Other(l)' = Pair(l, m)
        BY <1>7 DEF Other, Pair
      <3> QED BY <3>1, <3>2, <1>4
    <2> QED BY <2>3, <2>4 DEF Sorting
  <1>11. Permuted'
    BY DEF SortInvariant, Permuted, Barrier
  <1>12. SortOrders'
    BY DEF SortOrders, Barrier
  <1> QED BY <1>8, <1>9, <1>10, <1>11, <1>12 DEF SortInvariant

(* The last barrier leaves a sorted buffer.                                *)
LEMMA StoreSort ==
  ASSUME SortInvariant, Store
  PROVE  SortInvariant'
  <1>1. TypeOK
    BY DEF SortInvariant
  <1>2. work \in [Lane -> Triple] /\ \A l \in Lane : prods'[l] = Stored(work[l])
    BY <1>1 DEF TypeOK, Store
  <1>3. TypeOK'
    <2>1. prods' \in [Lane -> Term]
      BY <1>2, StoredType DEF Store
    <2> QED BY <1>1, <2>1 DEF TypeOK, Store
  <1>4. Stage'
    BY DEF SortInvariant, Stage, Store
  <1>5. Network(work, N, 1)
    <2>1. Network(Settled(work, k, j, {}), k, j)
      BY DEF Store, SortInvariant, Sorting
    <2>2. Settled(work, k, j, {}) = work
      BY <1>2 DEF Settled
    <2> QED BY <2>1, <2>2 DEF Store
  <1>6. SortOrders'
    <2> SUFFICES ASSUME NEW l \in Lane \ {0}
                 PROVE  ~KeyLess(Key(prods'[l]), Key(prods'[l - 1]))
      BY DEF SortOrders
    <2>1. l - 1 \in Lane /\ ~KeyLess(Key(work[l]), Key(work[l - 1]))
      BY <1>2, <1>5, LastStage
    <2>2. Key(prods'[l]) = Key(work[l]) /\ Key(prods'[l - 1]) = Key(work[l - 1])
      BY <1>2, <2>1, StoredType
    <2> QED BY <2>1, <2>2
  <1>7. Sorting' /\ Permuted'
    BY DEF Sorting, Permuted, Store
  <1> QED BY <1>3, <1>4, <1>6, <1>7 DEF SortInvariant

LEMMA NextSort == SortInvariant /\ [Next]_laurentVars => SortInvariant'
  <1> SUFFICES ASSUME SortInvariant, [Next]_laurentVars
               PROVE  SortInvariant'
    OBVIOUS
  <1>0. TypeOK
    BY DEF SortInvariant
  <1>1. CASE CheckReference
    <2>1. TypeOK'
      BY <1>0, <1>1 DEF TypeOK, CheckReference
    <2>2. Stage'
      BY <1>1 DEF SortInvariant, Stage, CheckReference
    <2>3. phase' # "sort" /\ phase' # "reduce"
      BY <1>1 DEF CheckReference
    <2> QED BY <2>1, <2>2, <2>3 DEF SortInvariant, Sorting, Permuted, SortOrders
  <1>2. CASE ProductPass
    <2>1. TypeOK'
      <3>1. prods' \in [Lane -> Term]
        BY <1>0, <1>2, ProductType DEF TypeOK, ProductPass
      <3> QED BY <1>0, <1>2, <3>1 DEF TypeOK, ProductPass
    <2>2. Stage'
      BY <1>2 DEF SortInvariant, Stage, ProductPass
    <2>3. phase' # "sort" /\ phase' # "reduce"
      BY <1>2 DEF ProductPass
    <2> QED BY <2>1, <2>2, <2>3 DEF SortInvariant, Sorting, Permuted, SortOrders
  <1>3. CASE LoadWork
    BY <1>3, LoadWorkSort
  <1>4. CASE \E l \in Lane : Compare(l)
    BY <1>4, CompareSort
  <1>5. CASE Barrier
    BY <1>5, BarrierSort
  <1>6. CASE Store
    BY <1>6, StoreSort
  <1>7. CASE ReducePass
    <2>1. TypeOK'
      <3>1. finals' \in [Lane -> Term]
        BY <1>0, <1>7, ReducedType DEF TypeOK, ReducePass
      <3>2. todo' \subseteq Lane
        BY <1>7 DEF ReducePass
      <3> QED BY <1>0, <1>7, <3>1, <3>2 DEF TypeOK, ReducePass
    <2>2. Stage'
      BY <1>7 DEF SortInvariant, Stage, ReducePass
    <2>3. phase' # "sort" /\ phase' # "reduce"
      BY <1>7 DEF ReducePass
    <2> QED BY <2>1, <2>2, <2>3 DEF SortInvariant, Sorting, Permuted, SortOrders
  <1>8. CASE \E l \in Lane : Compact(l)
    <2>0. PICK l \in Lane : Compact(l)
      BY <1>8
    <2>1. TypeOK'
      <3>1. Bare(finals[l]) \in Triple /\ out \in Seq(Triple)
        BY <1>0, BareType DEF TypeOK
      <3>2. out' \in Seq(Triple)
        <4>1. out' = Append(out, Bare(finals[l]))
          BY <2>0 DEF Compact
        <4> QED BY ONLY <3>1, <4>1
      <3>3. todo' \subseteq Lane
        BY <1>0, <2>0 DEF TypeOK, Compact
      <3> QED BY <1>0, <2>0, <3>2, <3>3 DEF TypeOK, Compact
    <2>2. Stage'
      BY <2>0 DEF SortInvariant, Stage, Compact
    <2>3. phase' # "sort" /\ phase' # "reduce"
      BY <2>0 DEF Compact
    <2> QED BY <2>1, <2>2, <2>3 DEF SortInvariant, Sorting, Permuted, SortOrders
  <1>9. CASE \E ok \in BOOLEAN : Return(ok)
    <2>0. PICK ok \in BOOLEAN : Return(ok)
      BY <1>9
    <2>1. TypeOK'
      BY <1>0, <2>0 DEF TypeOK, Return
    <2>2. Stage'
      BY <2>0 DEF SortInvariant, Stage, Return
    <2>3. phase' # "sort" /\ phase' # "reduce"
      BY <2>0 DEF Return
    <2> QED BY <2>1, <2>2, <2>3 DEF SortInvariant, Sorting, Permuted, SortOrders
  <1>10. CASE UNCHANGED laurentVars
    <2>1. TypeOK' /\ Stage'
      BY <1>0, <1>10 DEF SortInvariant, TypeOK, Stage, laurentVars
    <2>2. Sorting' /\ Permuted' /\ SortOrders'
      BY <1>10 DEF SortInvariant, Sorting, Permuted, SortOrders, laurentVars, Other, Key
    <2> QED BY <2>1, <2>2 DEF SortInvariant
  <1> QED
    BY <1>1, <1>2, <1>3, <1>4, <1>5, <1>6, <1>7, <1>8, <1>9, <1>10 DEF Next, Done

(* The invariant of the sort: where its loops are, what the lanes will hold*)
(* at the next barrier, and that they hold a permutation of what they loaded.*)
THEOREM SortSafe == Spec => []SortInvariant
  BY InitSort, NextSort, PTL DEF Spec

(* Every variable keeps its type; the coefficients stay in 32 bits.        *)
THEOREM LaurentTypes == Spec => []TypeOK
  BY SortSafe, PTL DEF SortInvariant

(* The bitonic network of sort_pass sorts, for every power of two of lanes *)
(* and every order of the lanes between two barriers.                      *)
THEOREM SortOrdersAlways == Spec => []SortOrders
  BY SortSafe, PTL DEF SortInvariant

(* It loses and invents no term.                                           *)
THEOREM SortMovesAlways == Spec => []SortMoves
  <1>1. SortInvariant => SortMoves
    <2> SUFFICES ASSUME SortInvariant, phase = "sort", NEW l \in Lane
                 PROVE  Cardinality({m \in Lane : work[m] = work[l]})
                          = Cardinality({m \in Lane : Loaded(prods[m]) = work[l]})
      BY DEF SortMoves
    <2>1. PICK f \in Bijection(Lane, Lane) : \A x \in Lane : work[x] = Loaded(prods[f[x]])
      BY DEF SortInvariant, Permuted
    <2> DEFINE S == {m \in Lane : work[m] = work[l]}
               T == {m \in Lane : Loaded(prods[m]) = work[l]}
               g == [m \in S |-> f[m]]
    <2>2. g \in Bijection(S, T)
      <3>1. /\ f \in [Lane -> Lane]
            /\ \A x, y \in Lane : f[x] = f[y] => x = y
            /\ \A y \in Lane : \E x \in Lane : f[x] = y
        BY DEF Bijection, Injection, Surjection, IsInjective
      <3>2. g \in [S -> T] /\ \A x \in S : g[x] = f[x]
        BY <2>1, <3>1
      <3>3. \A x, y \in S : g[x] = g[y] => x = y
        BY <3>1, <3>2
      <3>4. \A y \in T : \E x \in S : g[x] = y
        <4> SUFFICES ASSUME NEW y \in T PROVE \E x \in S : f[x] = y
          BY <3>2
        <4>1. PICK x \in Lane : f[x] = y
          BY <3>1
        <4>2. x \in S
          BY <2>1, <4>1
        <4> QED BY <4>1, <4>2
      <3> HIDE DEF g, S, T
      <3> QED BY <3>2, <3>3, <3>4 DEF Bijection, Injection, Surjection, IsInjective
    <2>3. IsFiniteSet(S)
      <3>1. IsFiniteSet(Lane)
        BY ConstantTypes, FS_Interval DEF Lane
      <3> QED BY <3>1, FS_Subset
    <2> HIDE DEF g, S, T
    <2>4. Cardinality(T) = Cardinality(S)
      BY <2>2, <2>3, FS_Bijection DEF ExistsBijection
    <2> QED BY <2>4 DEF S, T
  <1> QED BY <1>1, SortSafe, PTL

-----------------------------------------------------------------------------
(* The job.                                                                *)

(* The reference let the job through, and nothing is decided yet.          *)
Underway ==
  phase \in {"product", "load", "sort", "reduce", "compact"} => InDomain /\ verdict = "none"

Multiplied ==
  phase \in {"load", "sort"} => prods = [l \in Lane |-> Product(l)]

(* The sorted buffer holds the products, each of them once.                *)
Gathered ==
  phase = "reduce" => \E f \in Bijection(Lane, Lane) :
                        \A l \in Lane : prods[l] = Stored(Loaded(Product(f[l])))

Live(terms) == {l \in Lane : terms[l].valid /\ terms[l].coef # 0}

(* The terms to compact are the terms of the reference.                    *)
Folded ==
  phase = "compact" /\ Sentinel \notin Keys =>
    [l \in Live(finals) |-> Bare(finals[l])] \in Bijection(Live(finals), Exact)

(* Every place of finalOut is taken by a lane of its own that came by.     *)
Placed ==
  /\ phase \in {"reference", "product", "load", "sort", "reduce"} => out = <<>>
  /\ phase = "compact" =>
       /\ todo \subseteq Live(finals)
       /\ \E h \in Bijection(1..Len(out), Live(finals) \ todo) :
            \A i \in 1..Len(out) : out[i] = Bare(finals[h[i]])

JobInvariant == SortInvariant /\ Underway /\ Multiplied /\ Gathered /\ Folded /\ Placed
                /\ NoFalseMismatch

-----------------------------------------------------------------------------
LEMMA WrapIdentity ==
  /\ \A n \in Exp : WrapExp(n) = n
  /\ \A n \in Coef : WrapCoef(n) = n
  <1>1. ASSUME NEW n \in Exp PROVE WrapExp(n) = n
    <2>1. n \in Nat /\ n <= MaxExp /\ MaxExp \in Nat
      BY ConstantTypes DEF Exp
    <2>2. n % (MaxExp + 1) = n
      BY <2>1
    <2> QED BY <2>2 DEF WrapExp
  <1>2. ASSUME NEW n \in Coef PROVE WrapCoef(n) = n
    <2> DEFINE half == MaxCoef + 1
    <2>1. half \in Nat \ {0} /\ n \in Int /\ -half <= n /\ n < half
      BY ConstantTypes DEF Coef
    <2> HIDE DEF half
    <2>2. ((n + half) % (2 * half)) - half = n
      BY <2>1
    <2> QED BY <2>2 DEF WrapCoef, half
  <1> QED BY <1>1, <1>2

\* The terms that lane l multiplies.
PairOf(l) == <<(l % Width) + 1, (l \div Width) + 1>>

(* The lanes of the product pass enumerate the pairs of terms.             *)
LEMMA PairOfLane ==
  ASSUME a \in Factors, b \in Factors
  PROVE  /\ \A l, x \in Lane : PairOf(l) = PairOf(x) => l = x
         /\ \A p \in Pairs : \E l \in Lane : PairOf(l) = p
  <1>0. Width \in Nat \ {0} /\ N = Width * Width
    BY WidthAssumption DEF N
  <1>1. ASSUME NEW l \in Lane, NEW x \in Lane, PairOf(l) = PairOf(x)
        PROVE  l = x
    <2>1. l \in Nat /\ x \in Nat
      BY ConstantTypes
    <2>2. (l % Width) + 1 = (x % Width) + 1 /\ (l \div Width) + 1 = (x \div Width) + 1
      BY <1>1 DEF PairOf
    <2>3. /\ l % Width \in Nat /\ x % Width \in Nat /\ l \div Width \in Nat /\ x \div Width \in Nat
          /\ l = Width * (l \div Width) + (l % Width)
          /\ x = Width * (x \div Width) + (x % Width)
      BY <1>0, <2>1
    <2>4. l % Width = x % Width /\ l \div Width = x \div Width
      BY <2>2, <2>3
    <2> QED BY ONLY <2>3, <2>4, Zenon
  <1>2. ASSUME NEW p \in Pairs
        PROVE  \E l \in Lane : PairOf(l) = p
    <2>1. /\ p[1] \in Nat /\ p[2] \in Nat /\ p[1] >= 1 /\ p[2] >= 1
          /\ p[1] <= Width /\ p[2] <= Width /\ p = <<p[1], p[2]>>
      BY FactorTypes, <1>0 DEF Pairs
    <2> DEFINE i == p[1] - 1
               m == p[2] - 1
               l == Width * m + i
    <2>2. i \in Nat /\ m \in Nat /\ i < Width /\ m < Width /\ p = <<i + 1, m + 1>>
      BY <2>1, <1>0
    <2> HIDE DEF i, m
    <2>3. l \in Nat /\ l < N
      <3>1. PICK c \in Nat : Width = m + 1 + c
        BY <2>2, <1>0
      <3>2. Width * Width = Width * m + Width + Width * c /\ Width * c \in Nat /\ Width * m \in Nat
        BY <3>1, <2>2, <1>0
      <3> QED BY <3>2, <2>2, <1>0
    <2>4. l \div Width = m
      <3>1. Width * m <= l /\ l < Width * m + Width
        BY <2>2, <1>0
      <3> HIDE DEF l
      <3> QED BY <3>1, <2>2, <2>3, <1>0, QuotientIs
    <2>5. l % Width = i
      <3>1. l = Width * (l \div Width) + (l % Width) /\ l % Width \in Nat
        <4> HIDE DEF l
        <4> QED BY <2>3, <1>0
      <3>2. l = Width * m + (l % Width) /\ l % Width \in Nat
        BY ONLY <3>1, <2>4, Zenon
      <3>3. Width * m \in Nat
        BY <2>2, <1>0
      <3> DEFINE c == l % Width
      <3>4. Width * m + i = Width * m + c /\ c \in Nat
        BY <3>2
      <3> HIDE DEF c
      <3>5. i = c
        BY <3>3, <3>4, <2>2
      <3> QED BY <3>5 DEF c
    <2> HIDE DEF l
    <2>6. l \in Lane
      BY <2>3, ConstantTypes DEF Lane
    <2>7. PairOf(l) = p
      BY <2>2, <2>4, <2>5, Zenon DEF PairOf
    <2> QED BY <2>6, <2>7
  <1> QED BY <1>1, <1>2

(* In the domain of the reference the product pass multiplies exactly.     *)
LEMMA ExactProduct ==
  ASSUME InDomain, NEW l \in Lane
  PROVE  /\ PairOf(l) \in Pairs =>
              /\ Product(l).valid
              /\ Key(Product(l)) = PairKey(PairOf(l))
              /\ Product(l).coef = PairCoef(PairOf(l))
         /\ PairOf(l) \notin Pairs => Product(l) = Zero
  <1> DEFINE i == (l % Width) + 1
             m == (l \div Width) + 1
  <1>1. PairOf(l) \in Pairs <=> i \in DOMAIN a /\ m \in DOMAIN b
    BY DEF PairOf, Pairs
  <1>2. CASE PairOf(l) \in Pairs
    <2> DEFINE p == PairOf(l)
    <2>1. p[1] = i /\ p[2] = m
      BY DEF PairOf
    <2>2. PairKey(p) \in Exp \X Exp /\ PairCoef(p) \in Coef
      BY <1>2 DEF InDomain
    <2>3. /\ a[i].qe + b[m].qe \in Exp /\ a[i].te + b[m].te \in Exp
          /\ a[i].coef * b[m].coef \in Coef
          /\ PairKey(p) = <<a[i].qe + b[m].qe, a[i].te + b[m].te>>
          /\ PairCoef(p) = a[i].coef * b[m].coef
      BY <2>1, <2>2 DEF PairKey, PairCoef
    <2>4. Product(l) = [qe |-> a[i].qe + b[m].qe, te |-> a[i].te + b[m].te,
                        coef |-> a[i].coef * b[m].coef, valid |-> TRUE]
      BY <1>1, <1>2, <2>3, WrapIdentity DEF Product
    <2> HIDE DEF i, m, p
    <2>5. /\ Product(l).valid /\ Key(Product(l)) = PairKey(p) /\ Product(l).coef = PairCoef(p)
      BY <2>3, <2>4 DEF Key
    <2> QED BY <1>2, <2>5 DEF p
  <1>3. CASE PairOf(l) \notin Pairs
    BY <1>1, <1>3 DEF Product
  <1> QED BY <1>2, <1>3

Valid == {l \in Lane : prods[l].valid}
WithKey(key) == {l \in Valid : Key(prods[l]) = key}

(* After the sort a lane is valid if it holds the product of a pair, unless*)
(* that product has the key of the padding.                                *)
LEMMA StoredLoaded ==
  ASSUME InDomain, a \in Factors, b \in Factors, Sentinel \notin Keys, NEW x \in Lane
  PROVE  LET y == Stored(Loaded(Product(x)))
         IN  /\ y.valid <=> PairOf(x) \in Pairs
             /\ PairOf(x) \in Pairs => /\ Key(y) = PairKey(PairOf(x))
                                       /\ y.coef = PairCoef(PairOf(x))
  <1> DEFINE t == Product(x)
             w == Loaded(t)
             y == Stored(w)
  <1>1. t \in Term /\ w \in Triple
    BY ProductType, LoadedType
  <1>2. y.valid <=> Key(w) # Sentinel
    BY DEF Stored
  <1>3. Key(y) = Key(w) /\ y.coef = w.coef
    BY DEF Stored, Key
  <1>4. CASE PairOf(x) \in Pairs
    <2>1. t.valid /\ Key(t) = PairKey(PairOf(x)) /\ t.coef = PairCoef(PairOf(x))
      BY <1>4, ExactProduct
    <2>2. w = [qe |-> t.qe, te |-> t.te, coef |-> t.coef]
      BY <2>1 DEF Loaded, Bare
    <2> HIDE DEF t, w, y
    <2>3. Key(w) = Key(t) /\ w.coef = t.coef
      BY <2>2 DEF Key
    <2>4. PairKey(PairOf(x)) \in Keys
      BY <1>4 DEF Keys
    <2> QED BY <1>2, <1>3, <1>4, <2>1, <2>3, <2>4 DEF y, w, t
  <1>5. CASE PairOf(x) \notin Pairs
    <2>1. t = Zero
      BY <1>5, ExactProduct
    <2>2. w = [qe |-> MaxExp, te |-> MaxExp, coef |-> 0]
      BY <2>1 DEF Loaded, Zero
    <2> HIDE DEF t, w, y
    <2>3. Key(w) = Sentinel
      BY <2>2 DEF Key, Sentinel
    <2> QED BY <1>2, <1>5, <2>3 DEF y, w, t
  <1> QED BY <1>4, <1>5

(* The valid lanes of the sorted buffer stand for the pairs of terms.      *)
LEMMA LanesArePairs ==
  ASSUME JobInvariant, phase = "reduce", Sentinel \notin Keys
  PROVE  /\ \E g \in Bijection(Valid, Pairs) :
              \A l \in Valid : /\ Key(prods[l]) = PairKey(g[l])
                               /\ prods[l].coef = PairCoef(g[l])
         /\ \A l \in Lane : prods[l].valid <=> Key(prods[l]) # Sentinel
  <1>1. InDomain /\ a \in Factors /\ b \in Factors
    BY DEF JobInvariant, Underway, SortInvariant, TypeOK
  <1>2. PICK f \in Bijection(Lane, Lane) :
          \A l \in Lane : prods[l] = Stored(Loaded(Product(f[l])))
    BY DEF JobInvariant, Gathered
  <1>3. /\ f \in [Lane -> Lane]
        /\ \A x, y \in Lane : f[x] = f[y] => x = y
        /\ \A y \in Lane : \E x \in Lane : f[x] = y
    BY DEF Bijection, Injection, Surjection, IsInjective
  <1>4. \A l \in Lane :
          /\ prods[l].valid <=> PairOf(f[l]) \in Pairs
          /\ PairOf(f[l]) \in Pairs => /\ Key(prods[l]) = PairKey(PairOf(f[l]))
                                       /\ prods[l].coef = PairCoef(PairOf(f[l]))
    <2> SUFFICES ASSUME NEW l \in Lane
                 PROVE  /\ prods[l].valid <=> PairOf(f[l]) \in Pairs
                        /\ PairOf(f[l]) \in Pairs => /\ Key(prods[l]) = PairKey(PairOf(f[l]))
                                                     /\ prods[l].coef = PairCoef(PairOf(f[l]))
      OBVIOUS
    <2> DEFINE x == f[l]
               y == Stored(Loaded(Product(x)))
    <2>1. x \in Lane
      BY <1>3
    <2>2. prods[l] = y
      BY <1>2
    <2> HIDE DEF x
    <2>3. /\ y.valid <=> PairOf(x) \in Pairs
          /\ PairOf(x) \in Pairs => Key(y) = PairKey(PairOf(x)) /\ y.coef = PairCoef(PairOf(x))
      BY <1>1, <2>1, StoredLoaded
    <2> HIDE DEF y
    <2> QED BY <2>2, <2>3 DEF x
  <1>5. \A l \in Lane : prods[l].valid <=> Key(prods[l]) # Sentinel
    <2> SUFFICES ASSUME NEW l \in Lane PROVE prods[l].valid <=> Key(prods[l]) # Sentinel
      OBVIOUS
    <2> DEFINE w == Loaded(Product(f[l]))
    <2>1. prods[l] = Stored(w)
      BY <1>2
    <2> HIDE DEF w
    <2>2. Stored(w).valid <=> Key(w) # Sentinel
      BY DEF Stored
    <2>3. Key(Stored(w)) = Key(w)
      BY DEF Stored, Key
    <2> QED BY <2>1, <2>2, <2>3
  <1> DEFINE g == [l \in Valid |-> PairOf(f[l])]
  <1>6. g \in [Valid -> Pairs] /\ \A l \in Valid : g[l] = PairOf(f[l])
    BY <1>4 DEF Valid
  <1>7. \A l, x \in Valid : g[l] = g[x] => l = x
    <2> SUFFICES ASSUME NEW l \in Valid, NEW x \in Valid, g[l] = g[x]
                 PROVE  l = x
      OBVIOUS
    <2>1. PairOf(f[l]) = PairOf(f[x]) /\ l \in Lane /\ x \in Lane
      BY <1>6 DEF Valid
    <2>2. f[l] = f[x]
      BY <2>1, <1>1, <1>3, PairOfLane
    <2> QED BY <2>1, <2>2, <1>3
  <1>8. \A p \in Pairs : \E l \in Valid : g[l] = p
    <2> SUFFICES ASSUME NEW p \in Pairs PROVE \E l \in Valid : g[l] = p
      OBVIOUS
    <2>1. PICK x \in Lane : PairOf(x) = p
      BY <1>1, PairOfLane
    <2>2. PICK l \in Lane : f[l] = x
      BY <1>3
    <2>3. l \in Valid
      BY <1>4, <2>1, <2>2 DEF Valid
    <2> QED BY <1>6, <2>1, <2>2, <2>3
  <1>9. \A l \in Valid : Key(prods[l]) = PairKey(g[l]) /\ prods[l].coef = PairCoef(g[l])
    BY <1>4, <1>6 DEF Valid
  <1> HIDE DEF g
  <1>10. g \in Bijection(Valid, Pairs)
    <2>1. DOMAIN g = Valid
      BY <1>6
    <2> QED BY <1>6, <1>7, <1>8, <2>1 DEF Bijection, Injection, Surjection, IsInjective
  <1> QED BY <1>5, <1>9, <1>10

(* Neighbours in order make the whole buffer ordered.                      *)
LEMMA KeysAscend ==
  ASSUME prods \in [Lane -> Term],
         \A l \in Lane \ {0} : ~KeyLess(Key(prods[l]), Key(prods[l - 1])),
         NEW x \in Lane, NEW y \in Lane, x <= y
  PROVE  ~KeyLess(Key(prods[y]), Key(prods[x]))
  <1> DEFINE D == {d \in Nat : x + d \in Lane => ~KeyLess(Key(prods[x + d]), Key(prods[x]))}
  <1>0. /\ x \in Nat /\ y \in Nat /\ N \in Nat
        /\ \A l \in Lane : Key(prods[l]) \in Exp \X Exp
    BY ConstantTypes DEF Key, Term
  <1>1. 0 \in D
    <2>1. x + 0 = x
      BY <1>0
    <2>2. ~KeyLess(Key(prods[x]), Key(prods[x]))
      BY <1>0, KeyOrder
    <2> QED BY <2>1, <2>2
  <1>2. ASSUME NEW d \in Nat, d \in D PROVE d + 1 \in D
    <2> SUFFICES ASSUME x + (d + 1) \in Lane
                 PROVE  ~KeyLess(Key(prods[x + (d + 1)]), Key(prods[x]))
      OBVIOUS
    <2> DEFINE u == x + d
               v == x + (d + 1)
    <2>1. u \in Lane /\ v \in Lane \ {0} /\ v - 1 = u
      BY <1>0 DEF Lane
    <2>2. ~KeyLess(Key(prods[u]), Key(prods[x]))
      BY <1>2, <2>1
    <2>3. ~KeyLess(Key(prods[v]), Key(prods[u]))
      BY <2>1
    <2> HIDE DEF u, v
    <2>4. /\ Key(prods[u]) \in Exp \X Exp /\ Key(prods[v]) \in Exp \X Exp
          /\ Key(prods[x]) \in Exp \X Exp
      BY <1>0, <2>1
    <2>5. ~KeyLess(Key(prods[v]), Key(prods[x]))
      BY <2>2, <2>3, <2>4, KeyOrder
    <2> QED BY <2>5 DEF v
  <1>3. Nat \subseteq D
    <2> HIDE DEF D
    <2> QED BY <1>1, <1>2, SetOfNaturals
  <1>4. y - x \in Nat /\ x + (y - x) = y
    BY <1>0
  <1> QED BY <1>3, <1>4

LEMMA KeyAntisymmetric ==
  ASSUME NEW x \in Exp \X Exp, NEW y \in Exp \X Exp, ~KeyLess(x, y), ~KeyLess(y, x)
  PROVE  x = y
  <1> x[1] \in Nat /\ x[2] \in Nat /\ y[1] \in Nat /\ y[2] \in Nat
    BY ConstantTypes
  <1> QED BY DEF KeyLess

\* The buffer that the reduction reads: sorted, and valid where the key says so.
Reducible ==
  /\ prods \in [Lane -> Term]
  /\ \A l \in Lane \ {0} : ~KeyLess(Key(prods[l]), Key(prods[l - 1]))
  /\ \A l \in Lane : prods[l].valid <=> Key(prods[l]) # Sentinel

(* A run is all the lanes of its key.                                      *)
LEMMA RunIsWhole ==
  ASSUME Reducible, NEW l \in Lane, IsStart(l)
  PROVE  Run(l) = WithKey(Key(prods[l]))
  <1>0. /\ l \in Nat /\ N \in Nat /\ prods[l].valid
        /\ \A x \in Lane : Key(prods[x]) \in Exp \X Exp
        /\ l # 0 => ~SameRun(l, l - 1)
    BY ConstantTypes DEF Reducible, Key, Term, IsStart
  <1>1. ASSUME NEW m \in Run(l) PROVE m \in WithKey(Key(prods[l]))
    <2>1. m \in Lane /\ l <= m /\ m \in Nat
      BY <1>0 DEF Run, Lane
    <2>2. m \in l..m
      BY <2>1, <1>0
    <2>3. SameRun(l, m)
      BY <2>2 DEF Run
    <2> QED BY <2>1, <2>3 DEF SameRun, WithKey, Valid
  <1>2. ASSUME NEW m \in WithKey(Key(prods[l])) PROVE m \in Run(l)
    <2>1. m \in Lane /\ m \in Nat /\ Key(prods[m]) = Key(prods[l])
      BY ConstantTypes DEF WithKey, Valid
    <2>2. \A x \in Lane : l <= x /\ x <= m => Key(prods[x]) = Key(prods[l])
      <3> SUFFICES ASSUME NEW x \in Lane, l <= x, x <= m PROVE Key(prods[x]) = Key(prods[l])
        OBVIOUS
      <3>1. ~KeyLess(Key(prods[x]), Key(prods[l])) /\ ~KeyLess(Key(prods[m]), Key(prods[x]))
        BY <2>1, KeysAscend DEF Reducible
      <3> QED BY <3>1, <2>1, <1>0, KeyAntisymmetric
    <2>3. l <= m
      <3> SUFFICES ASSUME m < l PROVE FALSE
        BY <2>1, <1>0
      <3>1. l - 1 \in Lane /\ m <= l - 1 /\ l - 1 <= l /\ l # 0
        BY <1>0, <2>1 DEF Lane
      <3> DEFINE x == l - 1
      <3>2. ~KeyLess(Key(prods[l]), Key(prods[x])) /\ ~KeyLess(Key(prods[x]), Key(prods[m]))
        BY <3>1, <2>1, KeysAscend DEF Reducible
      <3>3. Key(prods[x]) = Key(prods[l])
        BY <3>1, <3>2, <2>1, <1>0, KeyAntisymmetric
      <3>4. prods[x].valid
        BY <3>1, <3>3, <1>0 DEF Reducible
      <3> QED BY <3>1, <3>3, <3>4, <1>0 DEF SameRun
    <2>4. \A x \in l..m : SameRun(l, x)
      <3> SUFFICES ASSUME NEW x \in l..m PROVE SameRun(l, x)
        OBVIOUS
      <3>1. x \in Lane /\ l <= x /\ x <= m
        BY <1>0, <2>1 DEF Lane
      <3>2. Key(prods[x]) = Key(prods[l])
        BY <2>2, <3>1
      <3>3. prods[x].valid
        BY <3>1, <3>2, <1>0 DEF Reducible
      <3> QED BY <3>2, <3>3 DEF SameRun
    <2>5. m \in l..N - 1
      BY <2>1, <2>3, <1>0 DEF Lane
    <2> QED BY <2>4, <2>5 DEF Run
  <1> QED BY <1>1, <1>2

(* Every key has a first lane, and only one.                               *)
LEMMA StartOfKey ==
  ASSUME Reducible, NEW m \in Valid
  PROVE  \E l \in Lane : IsStart(l) /\ Key(prods[l]) = Key(prods[m])
  <1> DEFINE S == WithKey(Key(prods[m]))
  <1>1. S \subseteq Lane /\ S # {} /\ S \subseteq Nat
    BY ConstantTypes DEF WithKey, Valid
  <1>2. PICK l \in S : \A x \in S : ~(x < l)
    <2> HIDE DEF S
    <2> QED BY <1>1, LeastOf
  <1>3. l \in Lane /\ prods[l].valid /\ Key(prods[l]) = Key(prods[m]) /\ l \in Nat
    BY <1>1 DEF WithKey, Valid
  <1>4. ASSUME l # 0, SameRun(l, l - 1) PROVE FALSE
    <2>1. l - 1 \in Lane /\ l - 1 < l
      BY <1>3, <1>4, ConstantTypes DEF Lane
    <2>2. l - 1 \in S
      BY <2>1, <1>3, <1>4 DEF SameRun, WithKey, Valid
    <2> QED BY <2>1, <2>2, <1>2
  <1> QED BY <1>3, <1>4 DEF IsStart

LEMMA StartIsUnique ==
  ASSUME Reducible, NEW l \in Lane, NEW x \in Lane, IsStart(l), IsStart(x),
         Key(prods[l]) = Key(prods[x])
  PROVE  l = x
  <1>1. l \in WithKey(Key(prods[x])) /\ x \in WithKey(Key(prods[l]))
    BY DEF IsStart, WithKey, Valid
  <1>2. l \in Run(x) /\ x \in Run(l)
    BY <1>1, RunIsWhole
  <1>3. x <= l /\ l <= x
    BY <1>2, ConstantTypes DEF Run
  <1> QED BY <1>3, ConstantTypes

(* The reduction folds the products of a key to what the reference totals. *)
LEMMA RunTotal ==
  ASSUME Reducible, NEW g \in Bijection(Valid, Pairs),
         \A l \in Valid : Key(prods[l]) = PairKey(g[l]) /\ prods[l].coef = PairCoef(g[l]),
         NEW l \in Lane, IsStart(l)
  PROVE  Sum(Coefs, Run(l)) = Total(Key(prods[l]))
  <1> DEFINE key == Key(prods[l])
             S == WithKey(key)
             T == {p \in Pairs : PairKey(p) = key}
             h == [m \in S |-> g[m]]
             c == [p \in Pairs |-> PairCoef(p)]
  <1>1. /\ g \in [Valid -> Pairs]
        /\ \A x, y \in Valid : g[x] = g[y] => x = y
        /\ \A p \in Pairs : \E x \in Valid : g[x] = p
    BY DEF Bijection, Injection, Surjection, IsInjective
  <1>2. h \in [S -> T] /\ \A m \in S : h[m] = g[m]
    BY <1>1 DEF WithKey
  <1>3. \A x, y \in S : h[x] = h[y] => x = y
    BY <1>1, <1>2 DEF WithKey
  <1>4. \A p \in T : \E x \in S : h[x] = p
    <2> SUFFICES ASSUME NEW p \in T PROVE \E x \in S : g[x] = p
      BY <1>2
    <2>1. PICK x \in Valid : g[x] = p
      BY <1>1
    <2>2. x \in S
      BY <2>1 DEF WithKey
    <2> QED BY <2>1, <2>2
  <1>5. Run(l) = S
    BY RunIsWhole
  <1>6. IsFiniteSet(S) /\ \A x \in S : Coefs[x] \in Int
    BY <1>5, RunSum DEF Reducible
  <1>7. \A x \in S : Coefs[x] = c[h[x]]
    BY <1>1, <1>2 DEF WithKey, Valid, Coefs
  <1>8. Total(key) = Sum(c, T)
    BY DEF Total, Sum
  <1> HIDE DEF h, c, S, T, key
  <1>9. h \in Bijection(S, T)
    <2>1. DOMAIN h = S
      BY <1>2
    <2> QED BY <1>2, <1>3, <1>4, <2>1 DEF Bijection, Injection, Surjection, IsInjective
  <1>10. Sum(Coefs, S) = Sum(c, T)
    BY <1>6, <1>7, <1>9, SumReindexed
  <1> QED BY <1>5, <1>8, <1>10 DEF key

(* What the reduction leaves, without the zeros, is the answer of the      *)
(* reference, each term of it at one lane.                                 *)
LEMMA ReduceFolds ==
  ASSUME JobInvariant, ReducePass, Sentinel \notin Keys
  PROVE  LET terms == [l \in Lane |-> Reduced(l)]
         IN  [l \in Live(terms) |-> Bare(terms[l])] \in Bijection(Live(terms), Exact)
  <1> DEFINE terms == [l \in Lane |-> Reduced(l)]
             L == Live(terms)
             e == [l \in L |-> Bare(terms[l])]
  <1>1. phase = "reduce" /\ InDomain /\ prods \in [Lane -> Term]
    BY DEF ReducePass, JobInvariant, Underway, SortInvariant, TypeOK
  <1>2. PICK g \in Bijection(Valid, Pairs) :
          \A l \in Valid : Key(prods[l]) = PairKey(g[l]) /\ prods[l].coef = PairCoef(g[l])
    BY <1>1, LanesArePairs
  <1>3. Reducible
    BY <1>1, LanesArePairs DEF Reducible, JobInvariant, SortInvariant, SortOrders
  <1>4. g \in [Valid -> Pairs] /\ \A p \in Pairs : \E x \in Valid : g[x] = p
    BY DEF Bijection, Injection, Surjection
  \* What a start leaves is its key with the total of the reference.
  <1>5. ASSUME NEW l \in Lane, IsStart(l)
        PROVE  /\ Key(prods[l]) \in Keys
               /\ Reduced(l).valid /\ Reduced(l).coef = Total(Key(prods[l]))
               /\ Bare(Reduced(l)) = [qe |-> prods[l].qe, te |-> prods[l].te,
                                      coef |-> Total(Key(prods[l]))]
    <2>1. l \in Valid /\ prods[l].valid
      BY <1>5 DEF IsStart, Valid
    <2>2. Key(prods[l]) \in Keys
      BY <1>2, <1>4, <2>1 DEF Keys
    <2> DEFINE c == Total(Key(prods[l]))
    <2>3. c \in Coef
      BY <1>1, <2>2 DEF InDomain
    <2>4. WrapCoef(Sum(Coefs, Run(l))) = c
      BY <1>2, <1>3, <1>5, <2>3, RunTotal, WrapIdentity
    <2>5. Reduced(l) = [prods[l] EXCEPT !.coef = c]
      BY <1>5, <2>4 DEF Reduced, Sum
    <2> HIDE DEF c
    <2>6. prods[l] \in Term
      BY <1>1
    <2>7. Reduced(l).valid /\ Reduced(l).coef = c /\ Reduced(l).qe = prods[l].qe
          /\ Reduced(l).te = prods[l].te
      BY <2>1, <2>5, <2>6 DEF Term
    <2> QED BY <2>2, <2>7 DEF Bare, c
  <1>6. \A l \in Lane : l \in L <=> IsStart(l) /\ Total(Key(prods[l])) # 0
    <2> SUFFICES ASSUME NEW l \in Lane
                 PROVE  l \in L <=> IsStart(l) /\ Total(Key(prods[l])) # 0
      OBVIOUS
    <2>1. l \in L <=> Reduced(l).valid /\ Reduced(l).coef # 0
      BY DEF Live
    <2>2. ~IsStart(l) => ~Reduced(l).valid
      BY DEF Reduced, Zero
    <2> QED BY <2>1, <2>2, <1>5
  <1>7. \A l \in L : l \in Lane /\ e[l] = Bare(Reduced(l))
    BY DEF Live
  <1> HIDE DEF L, e
  <1>8. \A l \in L : /\ e[l] = [qe |-> prods[l].qe, te |-> prods[l].te,
                                coef |-> Total(Key(prods[l]))]
                     /\ e[l] \in Exact
    <2> SUFFICES ASSUME NEW l \in L
                 PROVE  /\ e[l] = [qe |-> prods[l].qe, te |-> prods[l].te,
                                   coef |-> Total(Key(prods[l]))]
                        /\ e[l] \in Exact
      OBVIOUS
    <2> DEFINE key == Key(prods[l])
    <2>1. l \in Lane /\ IsStart(l) /\ Total(key) # 0
      BY <1>6, <1>7
    <2>2. e[l] = [qe |-> prods[l].qe, te |-> prods[l].te, coef |-> Total(key)] /\ key \in Keys
      BY <2>1, <1>5, <1>7
    <2>3. key[1] = prods[l].qe /\ key[2] = prods[l].te
      BY DEF Key
    <2> HIDE DEF key
    <2>4. e[l] = [qe |-> key[1], te |-> key[2], coef |-> Total(key)]
      BY <2>2, <2>3
    <2>5. e[l] \in Exact
      BY <2>1, <2>2, <2>4 DEF Exact
    <2> QED BY <2>2, <2>5 DEF key
  <1>9. \A l, x \in L : e[l] = e[x] => l = x
    <2> SUFFICES ASSUME NEW l \in L, NEW x \in L, e[l] = e[x] PROVE l = x
      OBVIOUS
    <2>1. prods[l].qe = prods[x].qe /\ prods[l].te = prods[x].te
      <3>1. /\ e[l].qe = prods[l].qe /\ e[l].te = prods[l].te
            /\ e[x].qe = prods[x].qe /\ e[x].te = prods[x].te
        <4> DEFINE Tot(z) == Total(Key(prods[z]))
        <4>1. /\ e[l] = [qe |-> prods[l].qe, te |-> prods[l].te, coef |-> Tot(l)]
              /\ e[x] = [qe |-> prods[x].qe, te |-> prods[x].te, coef |-> Tot(x)]
          BY <1>8
        <4> HIDE DEF Tot
        <4> QED BY ONLY <4>1
      <3> QED BY <3>1
    <2>2. Key(prods[l]) = Key(prods[x])
      BY <2>1 DEF Key
    <2> QED BY <2>2, <1>3, <1>6, <1>7, StartIsUnique
  <1>10. \A y \in Exact : \E l \in L : e[l] = y
    <2> SUFFICES ASSUME NEW y \in Exact PROVE \E l \in L : e[l] = y
      OBVIOUS
    <2>1. PICK key \in Keys : /\ Total(key) # 0
                              /\ y = [qe |-> key[1], te |-> key[2], coef |-> Total(key)]
      BY DEF Exact
    <2>2. PICK p \in Pairs : key = PairKey(p)
      BY DEF Keys
    <2>3. PICK m \in Valid : g[m] = p
      BY <1>4
    <2>4. Key(prods[m]) = key
      BY <1>2, <2>2, <2>3
    <2>5. PICK l \in Lane : IsStart(l) /\ Key(prods[l]) = key
      BY <1>3, <2>4, StartOfKey
    <2>6. l \in L
      BY <1>6, <2>1, <2>5
    <2>7. key[1] = prods[l].qe /\ key[2] = prods[l].te
      BY <2>5 DEF Key
    <2>8. e[l] = y
      BY <1>8, <2>1, <2>5, <2>6, <2>7
    <2> QED BY <2>6, <2>8
  <1>11. e \in Bijection(L, Exact)
    <2>1. DOMAIN e = L
      BY DEF e
    <2>2. e \in [L -> Exact]
      BY <1>8, <2>1 DEF e
    <2> QED BY <1>9, <1>10, <2>1, <2>2 DEF Bijection, Injection, Surjection, IsInjective
  <1> QED BY <1>11 DEF e, L

LEMMA InitJob == Init => JobInvariant
  <1> SUFFICES ASSUME Init PROVE JobInvariant
    OBVIOUS
  <1>1. SortInvariant
    BY InitSort
  <1>2. Underway /\ Multiplied /\ Gathered /\ Folded /\ Placed /\ NoFalseMismatch
    BY DEF Init, Underway, Multiplied, Gathered, Folded, Placed, NoFalseMismatch
  <1> QED BY <1>1, <1>2 DEF JobInvariant

(* What the reference says is a function of the factors.                   *)
LEMMA SameFactors ==
  ASSUME a' = a, b' = b
  PROVE  InDomain' = InDomain /\ Keys' = Keys /\ Exact' = Exact
         /\ \A l : Product(l)' = Product(l)
  BY DEF InDomain, Keys, Exact, Total, Pairs, PairKey, PairCoef, Product

(* A lane draws a place that no other lane has.                            *)
LEMMA CompactJob ==
  ASSUME JobInvariant, NEW l \in Lane, Compact(l)
  PROVE  Placed'
  <1>1. /\ phase = "compact" /\ l \in todo /\ out' = Append(out, Bare(finals[l]))
        /\ todo' = todo \ {l} /\ finals' = finals /\ phase' = "compact"
    BY DEF Compact
  <1>2. todo \subseteq Live(finals) /\ out \in Seq(Triple)
    BY <1>1 DEF JobInvariant, Placed, SortInvariant, TypeOK
  <1>3. PICK h \in Bijection(1..Len(out), Live(finals) \ todo) :
          \A i \in 1..Len(out) : out[i] = Bare(finals[h[i]])
    BY <1>1 DEF JobInvariant, Placed
  <1> DEFINE n == Len(out)
             S == Live(finals) \ todo
             T == Live(finals) \ todo'
             g == [i \in 1..n + 1 |-> IF i = n + 1 THEN l ELSE h[i]]
  <1>4. /\ h \in [1..n -> S]
        /\ \A x, y \in 1..n : h[x] = h[y] => x = y
        /\ \A y \in S : \E x \in 1..n : h[x] = y
    BY DEF Bijection, Injection, Surjection, IsInjective
  <1>5. n \in Nat /\ T = S \cup {l} /\ l \notin S
    BY <1>1, <1>2
  <1>6. /\ Len(out') = n + 1 /\ out'[n + 1] = Bare(finals[l])
        /\ \A i \in 1..n : out'[i] = out[i]
    <2>1. Bare(finals[l]) \in Triple
      BY BareType DEF JobInvariant, SortInvariant, TypeOK
    <2> QED BY ONLY <1>1, <1>2, <2>1
  <1> HIDE DEF n, S, T
  <1>7. DOMAIN g = 1..n + 1 /\ g[n + 1] = l /\ \A i \in 1..n : g[i] = h[i]
    BY <1>5
  <1> HIDE DEF g
  <1>8. g \in [1..n + 1 -> T]
    <2>1. \A i \in 1..n + 1 : g[i] \in T
      BY <1>4, <1>5, <1>7
    <2>2. g = [i \in 1..n + 1 |-> g[i]]
      BY DEF g
    <2> QED BY <2>1, <2>2
  <1>9. \A x, y \in 1..n + 1 : g[x] = g[y] => x = y
    <2> SUFFICES ASSUME NEW x \in 1..n + 1, NEW y \in 1..n + 1, g[x] = g[y] PROVE x = y
      OBVIOUS
    <2>1. \A z \in 1..n + 1 : z = n + 1 \/ z \in 1..n
      BY <1>5
    <2>2. \A z \in 1..n : g[z] \in S /\ g[z] = h[z]
      BY <1>4, <1>7
    <2> QED BY <2>1, <2>2, <1>4, <1>5, <1>7
  <1>10. \A y \in T : \E x \in 1..n + 1 : g[x] = y
    <2>1. \A z \in 1..n : z \in 1..n + 1
      BY <1>5
    <2>2. n + 1 \in 1..n + 1
      BY <1>5
    <2> QED BY <2>1, <2>2, <1>4, <1>5, <1>7
  <1>11. g \in Bijection(1..Len(out'), T)
    BY <1>6, <1>7, <1>8, <1>9, <1>10 DEF Bijection, Injection, Surjection, IsInjective
  <1>12. \A i \in 1..Len(out') : out'[i] = Bare(finals[g[i]])
    <2>1. \A z \in 1..n + 1 : z = n + 1 \/ z \in 1..n
      BY <1>5
    <2>2. \A i \in 1..n : out'[i] = Bare(finals[h[i]])
      BY <1>3, <1>6 DEF n
    <2> QED BY <2>1, <2>2, <1>6, <1>7
  <1>13. todo' \subseteq Live(finals)
    BY <1>1, <1>2
  <1> QED BY <1>1, <1>11, <1>12, <1>13 DEF Placed, T

(* Once every lane has come by, the answers agree.                         *)
LEMMA ReturnJob ==
  ASSUME JobInvariant, NEW ok \in BOOLEAN, Return(ok)
  PROVE  NoFalseMismatch'
  <1> SUFFICES ASSUME Sentinel \notin Keys, ok PROVE Agrees
    BY SameFactors DEF Return, NoFalseMismatch
  <1> DEFINE L == Live(finals)
             n == Len(out)
             e == [l \in L |-> Bare(finals[l])]
             g == [i \in 1..n |-> out[i]]
  <1>1. e \in Bijection(L, Exact)
    BY DEF JobInvariant, Folded, Return
  <1>2. PICK h \in Bijection(1..n, L \ todo) : \A i \in 1..n : out[i] = Bare(finals[h[i]])
    BY DEF JobInvariant, Placed, Return
  <1>3. L \ todo = L /\ out \in Seq(Triple)
    BY DEF Return, JobInvariant, SortInvariant, TypeOK
  <1>4. n \in Nat /\ DOMAIN out = 1..n
    BY <1>3
  <1>5. /\ e \in [L -> Exact] /\ \A l \in L : e[l] = Bare(finals[l])
        /\ \A x, y \in L : e[x] = e[y] => x = y
        /\ \A y \in Exact : \E x \in L : e[x] = y
    BY <1>1 DEF Bijection, Injection, Surjection, IsInjective
  <1> HIDE DEF L, n, e
  <1>6. /\ h \in [1..n -> L]
        /\ \A x, y \in 1..n : h[x] = h[y] => x = y
        /\ \A y \in L : \E x \in 1..n : h[x] = y
    BY <1>3 DEF Bijection, Injection, Surjection, IsInjective
  <1>7. \A i \in 1..n : g[i] = out[i] /\ g[i] = e[h[i]] /\ g[i] \in Exact
    BY <1>2, <1>5, <1>6
  <1>8. \A y \in Exact : \E i \in 1..n : g[i] = y
    <2> SUFFICES ASSUME NEW y \in Exact PROVE \E i \in 1..n : g[i] = y
      OBVIOUS
    <2>1. PICK x \in L : e[x] = y
      BY <1>5
    <2>2. PICK i \in 1..n : h[i] = x
      BY <1>6
    <2> QED BY <2>1, <2>2, <1>7
  <1>9. \A x, y \in 1..n : g[x] = g[y] => x = y
    BY <1>5, <1>6, <1>7
  <1>10. g \in Bijection(1..n, Exact)
    <2>1. DOMAIN g = 1..n /\ g \in [1..n -> Exact]
      BY <1>7
    <2> HIDE DEF g
    <2> QED BY <2>1, <1>8, <1>9 DEF Bijection, Injection, Surjection, IsInjective
  <1>11. Cardinality(Exact) = n
    <2> HIDE DEF g
    <2>1. IsFiniteSet(1..n) /\ Cardinality(1..n) = n
      BY <1>4, FS_Interval
    <2>2. ExistsBijection(1..n, Exact)
      BY <1>10 DEF ExistsBijection
    <2> QED BY <2>1, <2>2, FS_Bijection
  <1>12. {out[i] : i \in DOMAIN out} = Exact
    BY <1>4, <1>7, <1>8
  <1> QED BY <1>11, <1>12 DEF Agrees, n

LEMMA NextJob == JobInvariant /\ [Next]_laurentVars => JobInvariant'
  <1> SUFFICES ASSUME JobInvariant, [Next]_laurentVars
               PROVE  JobInvariant'
    OBVIOUS
  <1>0. SortInvariant'
    BY NextSort DEF JobInvariant
  <1>a. a' = a /\ b' = b
    BY DEF Next, CheckReference, ProductPass, LoadWork, Compare, Barrier, Store, ReducePass,
           Compact, Return, Done, laurentVars
  <1>b. InDomain' = InDomain /\ Keys' = Keys /\ Exact' = Exact /\ \A l : Product(l)' = Product(l)
    BY <1>a, SameFactors
  <1>1. Underway'
    BY <1>b DEF JobInvariant, Underway, Next, CheckReference, ProductPass, LoadWork, Compare,
                Barrier, Store, ReducePass, Compact, Return, Done, laurentVars
  <1>2. Multiplied'
    <2>1. CASE ProductPass
      BY <2>1, <1>b DEF Multiplied, ProductPass
    <2>2. CASE ~ProductPass
      <3>1. phase' \in {"load", "sort"} => prods' = prods /\ phase \in {"load", "sort"}
        BY <2>2 DEF Next, CheckReference, LoadWork, Compare, Barrier, Store, ReducePass,
                    Compact, Return, Done, laurentVars
      <3> QED BY <3>1, <1>b DEF JobInvariant, Multiplied
    <2> QED BY <2>1, <2>2
  <1>3. Gathered'
    <2>1. CASE Store
      <3>1. PICK f \in Bijection(Lane, Lane) : \A l \in Lane : work[l] = Loaded(prods[f[l]])
        BY <2>1 DEF JobInvariant, SortInvariant, Permuted, Store
      <3>2. \A l \in Lane : prods[l] = Product(l)
        BY <2>1 DEF JobInvariant, Multiplied, Store
      <3>3. f \in [Lane -> Lane]
        BY DEF Bijection, Injection
      <3>4. \A l \in Lane : prods'[l] = Stored(Loaded(Product(f[l])))
        BY <2>1, <3>1, <3>2, <3>3 DEF Store
      <3> QED BY <3>4, <1>b DEF Gathered
    <2>2. CASE ~Store
      <3>1. phase' = "reduce" => prods' = prods /\ phase = "reduce"
        BY <2>2 DEF Next, CheckReference, ProductPass, LoadWork, Compare, Barrier, ReducePass,
                    Compact, Return, Done, laurentVars
      <3> QED BY <3>1, <1>b DEF JobInvariant, Gathered
    <2> QED BY <2>1, <2>2
  <1>4. Folded'
    <2>1. CASE ReducePass
      <3>1. finals' = [l \in Lane |-> Reduced(l)]
        BY <2>1 DEF ReducePass
      <3>2. Sentinel \notin Keys =>
              [l \in Live(finals') |-> Bare(finals'[l])] \in Bijection(Live(finals'), Exact)
        BY <2>1, <3>1, ReduceFolds
      <3> QED BY <3>2, <1>b DEF Folded, Live
    <2>2. CASE ~ReducePass
      <3>1. phase' = "compact" => finals' = finals /\ phase = "compact"
        BY <2>2 DEF Next, CheckReference, ProductPass, LoadWork, Compare, Barrier, Store,
                    Compact, Return, Done, laurentVars
      <3> QED BY <3>1, <1>b DEF JobInvariant, Folded, Live
    <2> QED BY <2>1, <2>2
  <1>5. Placed'
    <2>1. CASE ReducePass
      <3>1. phase' = "compact" /\ out' = <<>> /\ todo' = Live(finals')
        BY <2>1 DEF ReducePass, JobInvariant, Placed, Live
      <3> DEFINE h == [i \in 1..0 |-> 0]
                 L == Live(finals')
      <3>2. Len(out') = 0 /\ 1..0 = {} /\ L \ todo' = {}
        BY <3>1
      <3>3. h \in Bijection(1..0, {})
        BY DEF Bijection, Injection, Surjection, IsInjective
      <3> HIDE DEF h
      <3>4. h \in Bijection(1..Len(out'), Live(finals') \ todo')
        BY <3>2, <3>3
      <3>5. \A i \in 1..Len(out') : out'[i] = Bare(finals'[h[i]])
        BY <3>2
      <3> QED BY <3>1, <3>4, <3>5 DEF Placed
    <2>2. CASE \E l \in Lane : Compact(l)
      BY <2>2, CompactJob
    <2>3. CASE ~ReducePass /\ ~\E l \in Lane : Compact(l)
      <3>1. /\ phase' = "compact" => /\ finals' = finals /\ todo' = todo /\ out' = out
                                     /\ phase = "compact"
            /\ phase' \in {"reference", "product", "load", "sort", "reduce"} =>
                 out' = out /\ phase \in {"reference", "product", "load", "sort", "reduce"}
        BY <2>3 DEF Next, CheckReference, ProductPass, LoadWork, Compare, Barrier, Store,
                    Return, Done, laurentVars
      <3> QED BY <3>1 DEF JobInvariant, Placed, Live
    <2> QED BY <2>1, <2>2, <2>3
  <1>6. NoFalseMismatch'
    <2>1. CASE \E ok \in BOOLEAN : Return(ok)
      BY <2>1, ReturnJob
    <2>2. CASE ~\E ok \in BOOLEAN : Return(ok)
      <3>1. verdict' = "mismatch" => verdict = "mismatch"
        BY <2>2 DEF Next, CheckReference, ProductPass, LoadWork, Compare, Barrier, Store,
                    ReducePass, Compact, Done, laurentVars
      <3> QED BY <3>1, <1>b DEF JobInvariant, NoFalseMismatch
    <2> QED BY <2>1, <2>2
  <1> QED BY <1>0, <1>1, <1>2, <1>3, <1>4, <1>5, <1>6 DEF JobInvariant

(* The invariant of a job: what each pass leaves for the next one.         *)
THEOREM JobSafe == Spec => []JobInvariant
  BY InitJob, NextJob, PTL DEF Spec

(* A job in the domain of the reference without a product at the sentinel  *)
(* key is never answered by "GPU/CPU exactness mismatch".                  *)
THEOREM NoFalseMismatchAlways == Spec => []NoFalseMismatch
  BY JobSafe, PTL DEF JobInvariant

(* compact_pass never draws a place beyond the N of finalOut.              *)
THEOREM OutFits == Spec => [](phase = "compact" => Len(out) <= N)
  <1>1. JobInvariant => (phase = "compact" => Len(out) <= N)
    <2> SUFFICES ASSUME JobInvariant, phase = "compact" PROVE Len(out) <= N
      OBVIOUS
    <2> DEFINE S == Live(finals) \ todo
               n == Len(out)
    <2>1. \E h : h \in Bijection(1..n, S)
      BY DEF JobInvariant, Placed
    <2>2. n \in Nat
      BY DEF JobInvariant, SortInvariant, TypeOK
    <2>3. S \subseteq Lane
      BY DEF Live
    <2> HIDE DEF S, n
    <2>4. IsFiniteSet(1..n) /\ Cardinality(1..n) = n /\ IsFiniteSet(0..N - 1)
          /\ Cardinality(0..N - 1) = N
      BY <2>2, FS_Interval, ConstantTypes
    <2>5. Cardinality(S) = n
      BY <2>1, <2>4, FS_Bijection DEF ExistsBijection
    <2>6. Cardinality(S) <= Cardinality(Lane)
      BY <2>3, <2>4, FS_Subset DEF Lane
    <2> QED BY <2>4, <2>5, <2>6 DEF Lane, n
  <1> QED BY <1>1, JobSafe, PTL
=============================================================================
