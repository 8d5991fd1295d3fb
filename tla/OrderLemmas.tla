----------------------------- MODULE OrderLemmas -----------------------------
(***************************************************************************)
(* Least and greatest elements, and the i-th of a finite set: what the     *)
(* proofs about sorted data and about loops use in place of induction.     *)
(***************************************************************************)
EXTENDS Integers, FiniteSets, FiniteSetTheorems, WellFoundedInduction, TLAPS

\* Every set of numbers has a least one.
LEMMA LeastNumber ==
    ASSUME NEW T \in SUBSET Nat, T # {}
    PROVE  \E n \in T : \A m \in T : n <= m
<1>1. IsWellFoundedOn(OpToRel(<, Nat), Nat)
  BY NatLessThanWellFounded
<1>2. \E n \in T : \A m \in T : ~(<<m, n>> \in OpToRel(<, Nat))
  BY <1>1, WFMin
<1>3. PICK n \in T : \A m \in T : ~(<<m, n>> \in OpToRel(<, Nat))
  BY <1>2
<1>4. ASSUME NEW m \in T
      PROVE  n <= m
  <2>1. ~(m < n)
    BY <1>3 DEF OpToRel
  <2>2. QED
    BY <2>1
<1>5. QED
  BY <1>4

\* Induction up to a number, on the set of those that have been reached.
LEMMA Reached ==
    ASSUME NEW L \in Nat, NEW T, 0 \in T, \A n \in 0..L : n \in T /\ n < L => n + 1 \in T
    PROVE  0..L \subseteq T
<1> DEFINE U == (0..L) \ T
<1>1. ASSUME U # {}
      PROVE  FALSE
  <2>1. U \in SUBSET Nat
    OBVIOUS
  <2>2. PICK n \in U : \A m \in U : n <= m
    BY <1>1, <2>1, LeastNumber
  <2>3. n \in 1..L /\ n - 1 \notin U
    BY <2>1, <2>2
  <2>4. n - 1 \in T /\ n - 1 \in 0..L /\ n - 1 < L
    BY <2>3
  <2>5. QED
    BY <2>2, <2>3, <2>4
<1>2. QED
  BY <1>1

\* A part of a finite set is finite and has no more elements.
LEMMA Fewer ==
    ASSUME NEW T, IsFiniteSet(T), NEW S \in SUBSET T
    PROVE  /\ IsFiniteSet(S) /\ Cardinality(S) \in Nat /\ Cardinality(T) \in Nat
           /\ Cardinality(S) <= Cardinality(T)
           /\ S # T => Cardinality(S) < Cardinality(T)
BY FS_Subset, FS_CardinalityType

\* A finite set has an element with the greatest value.
LEMMA Greatest ==
    ASSUME NEW D, IsFiniteSet(D), D # {}, NEW v, \A j \in D : v[j] \in Int
    PROVE  \E j \in D : \A k \in D : v[k] <= v[j]
<1> DEFINE Above(j) == {k \in D : v[k] > v[j]}
           T == {Cardinality(Above(j)) : j \in D}
<1>1. \A j \in D : Above(j) \in SUBSET D
  OBVIOUS
<1>2. ASSUME NEW j \in D, NEW k \in D, v[k] > v[j]
      PROVE  Above(k) \in SUBSET Above(j) /\ Above(k) # Above(j)
  BY <1>2
<1> HIDE DEF Above
<1>3. T \in SUBSET Nat /\ T # {}
  BY <1>1, Fewer
<1>4. PICK n \in T : \A m \in T : n <= m
  BY <1>3, LeastNumber
<1>5. PICK j \in D : n = Cardinality(Above(j))
  BY <1>4
<1>6. ASSUME NEW k \in D, ~(v[k] <= v[j])
      PROVE  FALSE
  <2>1. Cardinality(Above(k)) < Cardinality(Above(j))
    <3>1. v[k] > v[j]
      BY <1>6
    <3>2. IsFiniteSet(Above(j))
      BY <1>1, Fewer
    <3>3. QED
      BY <1>2, <3>1, <3>2, Fewer
  <2>2. Cardinality(Above(k)) \in T
    OBVIOUS
  <2>3. QED
    BY <1>1, <1>4, <1>5, <2>1, <2>2, Fewer
<1>7. QED
  BY <1>6

\* The members of D whose value is below that of x, and those up to it.
Under(D, v, x) == {j \in D : v[j] < v[x]}
UpTo(D, v, x) == {j \in D : v[j] <= v[x]}

\* A finite set has an i-th element in the order of their values.
LEMMA Ranked ==
    ASSUME NEW D, IsFiniteSet(D), NEW v, \A j \in D : v[j] \in Int,
           NEW i \in 1..Cardinality(D)
    PROVE  \E x \in D : Cardinality(Under(D, v, x)) < i /\ i <= Cardinality(UpTo(D, v, x))
<1> DEFINE Upto(x) == UpTo(D, v, x)
           Below(x) == Under(D, v, x)
           E == {x \in D : i <= Cardinality(Upto(x))}
           T == {Cardinality(Upto(x)) : x \in E}
<1> USE DEF UpTo, Under
<1>1. \A x \in D : Upto(x) \in SUBSET D /\ Below(x) \in SUBSET D
  OBVIOUS
<1>2. \A x \in D : Below(x) \in SUBSET Upto(x) /\ Below(x) # Upto(x)
  OBVIOUS
<1>3. Cardinality(D) \in Nat /\ D # {}
  BY FS_CardinalityType, FS_EmptySet
<1>4. E # {}
  <2>1. PICK m \in D : \A k \in D : v[k] <= v[m]
    BY <1>3, Greatest
  <2>2. Upto(m) = D
    BY <2>1
  <2>3. QED
    BY <1>3, <2>2
<1>5. T \in SUBSET Nat /\ T # {}
  <2> HIDE DEF Upto
  <2>1. QED
    BY <1>1, <1>4, Fewer
<1>6. PICK n \in T : \A m \in T : n <= m
  BY <1>5, LeastNumber
<1>7. PICK x \in E : n = Cardinality(Upto(x))
  BY <1>6
<1>8. ASSUME ~(Cardinality(Below(x)) < i)
      PROVE  FALSE
  <2>1. x \in D /\ Cardinality(Below(x)) \in Nat /\ IsFiniteSet(Below(x))
    <3> HIDE DEF Below, Upto
    <3>1. QED
      BY <1>1, Fewer
  <2>2. Below(x) # {}
    BY <1>8, <2>1, FS_EmptySet
  <2>3. PICK y \in Below(x) : \A k \in Below(x) : v[k] <= v[y]
    <3>1. \A j \in Below(x) : v[j] \in Int
      OBVIOUS
    <3> HIDE DEF Below
    <3>2. QED
      BY <2>1, <2>2, <3>1, Greatest
  <2>4. Upto(y) = Below(x) /\ y \in D
    BY <2>1, <2>3
  <2> HIDE DEF Upto, Below
  <2>5. y \in E
    BY <1>8, <2>1, <2>4
  <2>6. Cardinality(Upto(x)) <= Cardinality(Below(x))
    BY <1>6, <1>7, <2>4, <2>5
  <2>7. Cardinality(Below(x)) < Cardinality(Upto(x))
    BY <1>1, <1>2, <2>1, Fewer
  <2>8. QED
    BY <2>1, <2>6, <2>7, <1>1, Fewer
<1>9. QED
  BY <1>7, <1>8

\* When no two have the same value, it is the only one.
LEMMA RankedAt ==
    ASSUME NEW D, IsFiniteSet(D), NEW v, \A j \in D : v[j] \in Int,
           \A j, k \in D : v[j] = v[k] => j = k,
           NEW i \in 1..Cardinality(D)
    PROVE  \E x \in D : Cardinality(UpTo(D, v, x)) = i
<1>1. PICK x \in D : Cardinality(Under(D, v, x)) < i /\ i <= Cardinality(UpTo(D, v, x))
  BY Ranked
<1>2. /\ UpTo(D, v, x) = Under(D, v, x) \cup {x} /\ x \notin Under(D, v, x)
      /\ Under(D, v, x) \in SUBSET D
  BY DEF UpTo, Under
<1>3. IsFiniteSet(Under(D, v, x)) /\ Cardinality(Under(D, v, x)) \in Nat
  BY <1>2, Fewer
<1>4. Cardinality(UpTo(D, v, x)) = Cardinality(Under(D, v, x)) + 1
  BY <1>2, <1>3, FS_AddElement
<1>5. QED
  BY <1>1, <1>3, <1>4
=============================================================================
