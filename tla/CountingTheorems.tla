-------------------------- MODULE CountingTheorems --------------------------
(***************************************************************************)
(* What a sum does when one of its terms changes, for every finite domain, *)
(* and what a subsequence holds.                                           *)
(***************************************************************************)
EXTENDS Sums, Subsequences, Functions, FiniteSetTheorems, TLAPS

\* The units of the keys other than u.
OtherUnits(f, u) == {p \in Units(f) : p[1] # u}

\* A pair is a unit of f exactly when its number is within its key's value.
LEMMA UnitsElements ==
  ASSUME NEW S, NEW f \in [S -> Nat]
  PROVE  Units(f) = {p \in S \X (Nat \ {0}) : p[2] <= f[p[1]]}
<1>1. ASSUME NEW p \in Units(f)
      PROVE  p \in S \X (Nat \ {0}) /\ p[2] <= f[p[1]]
  <2>1. PICK u \in S : p \in {u} \X (1 .. f[u])
    BY DEF Units, UnitsOf
  <2> QED
    BY <2>1
<1>2. ASSUME NEW p \in S \X (Nat \ {0}), p[2] <= f[p[1]]
      PROVE  p \in Units(f)
  <2>1. p \in {p[1]} \X (1 .. f[p[1]])
    BY <1>2
  <2> QED
    BY <2>1 DEF Units, UnitsOf
<1> QED
  BY <1>1, <1>2

\* A function on a finite domain has finitely many units.
LEMMA UnitsFinite ==
  ASSUME NEW S, IsFiniteSet(S), NEW f \in [S -> Nat]
  PROVE  IsFiniteSet(Units(f))
<1> DEFINE Parts == {UnitsOf(f, u) : u \in S}
           part  == [u \in S |-> UnitsOf(f, u)]
<1>1. IsFiniteSet(Parts)
  <2>1. /\ part \in [S -> Parts]
        /\ \A T \in Parts : \E u \in S : part[u] = T
    OBVIOUS
  <2> HIDE DEF part, Parts
  <2>2. part \in Surjection(S, Parts)
    BY <2>1 DEF Surjection
  <2> QED
    BY <2>2, FS_Surjection
<1>2. ASSUME NEW u \in S PROVE IsFiniteSet(UnitsOf(f, u))
  <2>1. IsFiniteSet({u})
    BY FS_Singleton
  <2>2. f[u] \in Int
    OBVIOUS
  <2>3. IsFiniteSet(1 .. f[u])
    BY <2>2, FS_Interval
  <2> QED
    BY <2>1, <2>3, FS_Product DEF UnitsOf
<1>3. \A T \in Parts : IsFiniteSet(T)
  BY <1>2
<1>4. Units(f) = UNION Parts
  BY DEF Units
<1> QED
  BY <1>1, <1>3, <1>4, FS_UNION

\* A sum is one of its terms and the units of the other keys.
LEMMA TotalSplit ==
  ASSUME NEW S, IsFiniteSet(S), NEW f \in [S -> Nat], NEW u \in S
  PROVE  /\ Total(f) \in Nat
         /\ Cardinality(OtherUnits(f, u)) \in Nat
         /\ Total(f) = Cardinality(OtherUnits(f, u)) + f[u]
<1>1. IsFiniteSet(Units(f))
  BY UnitsFinite
<1>2. IsFiniteSet(OtherUnits(f, u)) /\ OtherUnits(f, u) \subseteq Units(f)
  BY <1>1, FS_Subset DEF OtherUnits
<1>3. IsFiniteSet(UnitsOf(f, u)) /\ Cardinality(UnitsOf(f, u)) = f[u]
  <2>1. IsFiniteSet({u}) /\ Cardinality({u}) = 1
    BY FS_Singleton
  <2>2. f[u] \in Nat
    OBVIOUS
  <2>3. IsFiniteSet(1 .. f[u]) /\ Cardinality(1 .. f[u]) = f[u]
    BY <2>2, FS_Interval
  <2>4. Cardinality({u} \X (1 .. f[u])) = 1 * f[u] /\ IsFiniteSet({u} \X (1 .. f[u]))
    <3>1. IsFiniteSet({u} \X (1 .. f[u]))
            /\ Cardinality({u} \X (1 .. f[u])) = Cardinality({u}) * Cardinality(1 .. f[u])
      BY <2>1, <2>3, FS_Product
    <3> QED
      BY <2>1, <2>3, <3>1
  <2> QED
    BY <2>2, <2>4 DEF UnitsOf
<1>4. /\ Units(f) = OtherUnits(f, u) \cup UnitsOf(f, u)
      /\ OtherUnits(f, u) \cap UnitsOf(f, u) = {}
  <2>1. OtherUnits(f, u) \cap UnitsOf(f, u) = {}
    BY DEF OtherUnits, UnitsOf
  <2>2. UnitsOf(f, u) \subseteq Units(f)
    BY DEF Units
  <2>3. ASSUME NEW p \in Units(f), p[1] = u PROVE p \in UnitsOf(f, u)
    BY <2>3, UnitsElements DEF UnitsOf
  <2> QED
    BY <2>1, <2>2, <2>3 DEF OtherUnits
<1>5. Cardinality(Units(f)) = Cardinality(OtherUnits(f, u)) + Cardinality(UnitsOf(f, u))
                                - Cardinality({})
  BY <1>2, <1>3, <1>4, FS_Union
<1>6. Cardinality(Units(f)) \in Nat /\ Cardinality(OtherUnits(f, u)) \in Nat
  BY <1>1, <1>2, FS_CardinalityType
<1> QED
  BY <1>3, <1>5, <1>6, FS_EmptySet DEF Total

\* A term is never more than the sum.
LEMMA TermInTotal ==
  ASSUME NEW S, IsFiniteSet(S), NEW f \in [S -> Nat], NEW u \in S
  PROVE  Total(f) \in Nat /\ f[u] <= Total(f)
BY TotalSplit

\* Changing one term changes the sum by as much.
LEMMA TotalChange ==
  ASSUME NEW S, IsFiniteSet(S), NEW f \in [S -> Nat], NEW g \in [S -> Nat],
         NEW u \in S, \A w \in S \ {u} : g[w] = f[w]
  PROVE  /\ Total(f) \in Nat /\ Total(g) \in Nat
         /\ Total(g) = Total(f) + g[u] - f[u]
<1>1. OtherUnits(g, u) = OtherUnits(f, u)
  BY UnitsElements DEF OtherUnits
<1>2. f[u] \in Nat /\ g[u] \in Nat
  OBVIOUS
<1> QED
  BY <1>1, <1>2, TotalSplit

\* The sum of zeros is zero.
LEMMA TotalZero ==
  ASSUME NEW S, NEW f \in [S -> Nat], \A u \in S : f[u] = 0
  PROVE  Total(f) = 0
<1>1. Units(f) = {}
  BY UnitsElements
<1> QED
  BY <1>1, FS_EmptySet DEF Total

\* A sum of terms none of which is less is not less.
LEMMA TotalMonotone ==
  ASSUME NEW S, IsFiniteSet(S), NEW f \in [S -> Nat], NEW g \in [S -> Nat],
         \A u \in S : f[u] <= g[u]
  PROVE  Total(f) \in Nat /\ Total(g) \in Nat /\ Total(f) <= Total(g)
<1>1. Units(f) \subseteq Units(g)
  <2>1. ASSUME NEW p \in S \X (Nat \ {0}), p[2] <= f[p[1]] PROVE p[2] <= g[p[1]]
    <3>1. p[1] \in S /\ p[2] \in Nat /\ f[p[1]] \in Nat /\ g[p[1]] \in Nat
      OBVIOUS
    <3> QED
      BY <2>1, <3>1
  <2> QED
    BY <2>1, UnitsElements
<1>2. IsFiniteSet(Units(f)) /\ IsFiniteSet(Units(g))
  BY UnitsFinite
<1> QED
  BY <1>1, <1>2, FS_Subset, FS_CardinalityType DEF Total

----------------------------------------------------------------------------
(* Subsequences.                                                           *)

\* Each place among the members of a finite set of numbers is taken by exactly
\* one of them.
LEMMA NthElement ==
  ASSUME NEW I \in SUBSET Int, IsFiniteSet(I)
  PROVE  /\ Cardinality(I) \in Nat
         /\ \A n \in 1 .. Cardinality(I) : Nth(I, n) \in I /\ Rank(I, Nth(I, n)) = n
         /\ \A i \in I : Rank(I, i) \in 1 .. Cardinality(I) /\ Nth(I, Rank(I, i)) = i
<1> DEFINE upTo(i) == {j \in I : j <= i}
           rank == [i \in I |-> Rank(I, i)]
           image == {rank[i] : i \in I}
           count == Cardinality(I)
<1>1. /\ count \in Nat
      /\ \A i \in I : /\ IsFiniteSet(upTo(i)) /\ Cardinality(upTo(i)) \in Nat
                      /\ Cardinality(upTo(i)) <= count /\ Cardinality(upTo(i)) >= 1
  <2>1. count \in Nat
    BY FS_CardinalityType
  <2>2. ASSUME NEW i \in I
        PROVE  /\ IsFiniteSet(upTo(i)) /\ Cardinality(upTo(i)) \in Nat
               /\ Cardinality(upTo(i)) <= count /\ Cardinality(upTo(i)) >= 1
    <3>1. upTo(i) \subseteq I /\ {i} \subseteq upTo(i)
      OBVIOUS
    <3>2. /\ IsFiniteSet(upTo(i)) /\ Cardinality(upTo(i)) <= count
          /\ Cardinality(upTo(i)) \in Nat
      BY <3>1, FS_Subset, FS_CardinalityType
    <3>3. Cardinality({i}) <= Cardinality(upTo(i)) /\ Cardinality({i}) = 1
      BY <3>1, <3>2, FS_Subset, FS_Singleton
    <3> QED
      BY <3>2, <3>3
  <2> QED
    BY <2>1, <2>2
<1>2. \A i \in I : /\ Rank(I, i) = Cardinality(upTo(i))
                   /\ Rank(I, i) \in Int /\ Rank(I, i) \in 1 .. count
  BY <1>1 DEF Rank
<1>3. ASSUME NEW i \in I, NEW k \in I, i < k PROVE Rank(I, i) < Rank(I, k)
  <2>1. upTo(i) \subseteq upTo(k) /\ k \in upTo(k) /\ k \notin upTo(i)
    <3>1. i \in Int /\ k \in Int /\ \A j \in I : j \in Int
      OBVIOUS
    <3>2. \A j \in I : j <= i => j <= k
      BY <1>3, <3>1
    <3>3. k <= k /\ ~(k <= i)
      BY <1>3, <3>1
    <3> QED
      BY <3>2, <3>3
  <2>2. upTo(i) # upTo(k)
    BY <2>1
  <2>3. Cardinality(upTo(i)) <= Cardinality(upTo(k))
    BY <1>1, <2>1, FS_Subset
  <2>4. Cardinality(upTo(i)) # Cardinality(upTo(k))
    BY <1>1, <2>1, <2>2, FS_Subset
  <2> HIDE DEF upTo
  <2> QED
    BY <1>1, <1>2, <2>3, <2>4
<1>4. \A i, k \in I : Rank(I, i) = Rank(I, k) => i = k
  <2>1. ASSUME NEW i \in I, NEW k \in I, Rank(I, i) = Rank(I, k) PROVE i = k
    <3>1. Rank(I, i) \in Int /\ Rank(I, k) \in Int
      BY <1>2
    <3>2. ~(i < k) /\ ~(k < i)
      BY <1>3, <2>1, <3>1
    <3> QED
      BY <3>2
  <2> QED
    BY <2>1
<1>5. image = 1 .. count
  <2>1. rank \in Bijection(I, image)
    <3>1. /\ rank \in [I -> image]
          /\ \A i, k \in I : rank[i] = rank[k] => i = k
          /\ \A n \in image : \E i \in I : rank[i] = n
      BY <1>4
    <3> HIDE DEF rank, image
    <3> QED
      BY <3>1 DEF Bijection, Injection, Surjection, IsInjective
  <2>2. image \subseteq 1 .. count
    BY <1>2
  <2>3. IsFiniteSet(1 .. count) /\ Cardinality(1 .. count) = count
    BY <1>1, FS_Interval
  <2> HIDE DEF rank, image
  <2>4. IsFiniteSet(image) /\ Cardinality(image) = count
    BY <2>1, FS_Bijection DEF ExistsBijection
  <2> QED
    BY <2>2, <2>3, <2>4, FS_Subset
<1>6. ASSUME NEW n \in 1 .. count PROVE Nth(I, n) \in I /\ Rank(I, Nth(I, n)) = n
  <2>1. \E i \in I : Rank(I, i) = n
    BY <1>5
  <2> QED
    BY <2>1 DEF Nth
<1>7. ASSUME NEW i \in I PROVE Nth(I, Rank(I, i)) = i
  BY <1>2, <1>4, <1>6, <1>7
<1> QED
  BY <1>1, <1>2, <1>6, <1>7

\* A subsequence consists of the elements at its positions.
LEMMA SubsequenceElements ==
  ASSUME NEW S, NEW s \in Seq(S), NEW I \in SUBSET DOMAIN s
  PROVE  /\ Subsequence(s, I) \in Seq(S)
         /\ Len(Subsequence(s, I)) = Cardinality(I)
         /\ \A n \in 1 .. Len(Subsequence(s, I)) :
              \E i \in I : Subsequence(s, I)[n] = s[i]
         /\ \A i \in I :
              \E n \in 1 .. Len(Subsequence(s, I)) : Subsequence(s, I)[n] = s[i]
<1> DEFINE t == Subsequence(s, I)
           count == Cardinality(I)
<1>1. Len(s) \in Nat /\ DOMAIN s = 1 .. Len(s) /\ IsFiniteSet(DOMAIN s)
  BY FS_Interval
<1>2. IsFiniteSet(I) /\ I \in SUBSET Int
  BY <1>1, FS_Subset
<1>3. /\ count \in Nat
      /\ \A n \in 1 .. count : Nth(I, n) \in I
      /\ \A i \in I : Rank(I, i) \in 1 .. count /\ Nth(I, Rank(I, i)) = i
  BY <1>2, NthElement
<1>4. t = [n \in 1 .. count |-> s[Nth(I, n)]]
  BY DEF Subsequence
<1> HIDE DEF t, count
<1>5. \A n \in 1 .. count : t[n] = s[Nth(I, n)] /\ t[n] \in S
  BY <1>1, <1>3, <1>4
<1>6. t \in Seq(S) /\ Len(t) = count
  BY <1>3, <1>4, <1>5
<1>7. \A i \in I : t[Rank(I, i)] = s[i]
  BY <1>3, <1>5
<1> QED
  BY <1>3, <1>5, <1>6, <1>7 DEF t, count
=============================================================================
