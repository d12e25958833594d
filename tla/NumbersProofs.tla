---------------------------- MODULE NumbersProofs ----------------------------
(* Facts about sets of numbers that the proofs of several components need. *)
EXTENDS Numbers, Sequences, FiniteSetTheorems, TLAPS

(* The smaller of two numbers, as a relation, is well founded: every set   *)
(* of numbers has a least one.                                             *)
Smaller == {p \in Nat \X Nat : p[1] < p[2]}

LEMMA LeastNumber ==
  ASSUME NEW S, S \subseteq Nat, S # {}
  PROVE  \E m \in S : \A n \in S : m <= n
<1>1. OpToRel(<, Nat) = Smaller
  BY DEF OpToRel, Smaller
<1>2. PICK m \in S : \A n \in S : <<n, m>> \notin Smaller
  BY <1>1, NatLessThanWellFounded, WFMin
<1>3. \A n \in S : n < m => <<n, m>> \in Nat \X Nat /\ <<n, m>>[1] < <<n, m>>[2]
  OBVIOUS
<1>4. \A n \in S : ~(n < m)
  BY <1>2, <1>3 DEF Smaller
<1> QED BY <1>4

(* How many of a set of positions are at or before i.                      *)
RankIn(positions, i) == Cardinality({j \in positions : j <= i})

(* The rank of a member is between 1 and the size of the set, and ranks    *)
(* are ordered as their positions are.                                     *)
LEMMA RankBounds ==
  ASSUME NEW S \in SUBSET Nat, IsFiniteSet(S), NEW i \in S
  PROVE  RankIn(S, i) \in 1 .. Cardinality(S)
<1> DEFINE upto == {j \in S : j <= i}
<1>1. upto \in SUBSET S /\ {i} \in SUBSET upto
  OBVIOUS
<1>2. /\ IsFiniteSet(upto) /\ Cardinality(upto) <= Cardinality(S)
      /\ Cardinality(upto) \in Nat /\ Cardinality(S) \in Nat
  BY <1>1, FS_Subset, FS_CardinalityType
<1>3. Cardinality(upto) # 0
  BY <1>1, <1>2, FS_EmptySet
<1> QED BY <1>2, <1>3 DEF RankIn

LEMMA RankGrows ==
  ASSUME NEW S \in SUBSET Nat, IsFiniteSet(S), NEW i \in S, NEW j \in S, i < j
  PROVE  RankIn(S, i) < RankIn(S, j)
<1> DEFINE upto(k) == {m \in S : m <= k}
<1>1. upto(i) \in SUBSET upto(j) /\ upto(j) \in SUBSET S
  <2>1. \A m \in S : m \in Nat
    OBVIOUS
  <2>2. \A m \in S : m <= i => m <= j
    BY <2>1
  <2> QED BY <2>2
<1>2. j \in upto(j) /\ j \notin upto(i)
  OBVIOUS
<1>3. IsFiniteSet(upto(j)) /\ IsFiniteSet(upto(i))
  BY <1>1, FS_Subset
<1>4. Cardinality(upto(j)) \in Nat /\ Cardinality(upto(i)) \in Nat
  BY <1>3, FS_CardinalityType
<1> HIDE DEF upto
<1>5. /\ Cardinality(upto(i)) <= Cardinality(upto(j))
      /\ Cardinality(upto(j)) = Cardinality(upto(i)) => upto(j) = upto(i)
  BY <1>1, <1>3, FS_Subset
<1>6. Cardinality(upto(i)) < Cardinality(upto(j))
  BY <1>2, <1>4, <1>5
<1> QED BY <1>6 DEF RankIn, upto

(* Nth finds the member of a rank, and there is one for each.              *)
LEMMA NthIs ==
  ASSUME NEW S \in SUBSET Nat, IsFiniteSet(S), NEW i \in S
  PROVE  Nth(S, RankIn(S, i)) = i
<1>1. ASSUME NEW m \in S, RankIn(S, m) = RankIn(S, i) PROVE m = i
  <2>1. RankIn(S, i) \in Nat
    BY RankBounds
  <2>2. ~(m < i) /\ ~(i < m)
    BY <1>1, <2>1, RankGrows
  <2> QED BY <2>2
<1>2. Nth(S, RankIn(S, i)) = CHOOSE m \in S : RankIn(S, m) = RankIn(S, i)
  BY DEF Nth, RankIn
<1> QED BY <1>1, <1>2

LEMMA NthExists ==
  ASSUME NEW S \in SUBSET Nat, IsFiniteSet(S), NEW k \in 1 .. Cardinality(S)
  PROVE  Nth(S, k) \in S /\ RankIn(S, Nth(S, k)) = k
<1> DEFINE rank == [i \in S |-> RankIn(S, i)]
           ranks == 1 .. Cardinality(S)
<1>1. Cardinality(S) \in Nat
  BY FS_CardinalityType
<1>2. IsFiniteSet(ranks) /\ Cardinality(ranks) = Cardinality(S)
  BY <1>1, FS_Interval
<1>3. rank \in [S -> ranks]
  BY RankBounds
<1>4. ASSUME NEW i \in S, NEW j \in S, rank[i] = rank[j] PROVE i = j
  <2>1. Nth(S, RankIn(S, i)) = i /\ Nth(S, RankIn(S, j)) = j
    BY NthIs
  <2> QED BY <1>4, <2>1
<1>5. rank \in Injection(S, ranks)
  BY <1>3, <1>4 DEF Injection, IsInjective
<1>6. rank \in Surjection(S, ranks)
  <2> HIDE DEF rank, ranks
  <2> QED BY <1>2, <1>5, FS_Injection
<1>7. PICK i \in S : rank[i] = k
  BY <1>6 DEF Surjection
<1>8. Nth(S, k) = i
  BY <1>7, NthIs
<1> QED BY <1>7, <1>8

(* Ascending(S) is a sequence of the numbers of S, each once, in order.    *)
LEMMA AscendingIsSorted ==
  ASSUME NEW S, S \subseteq Nat, IsFiniteSet(S)
  PROVE  /\ Ascending(S) \in Seq(S) /\ Len(Ascending(S)) = Cardinality(S)
         /\ Cardinality(S) \in Nat
         /\ \A i \in S : \E k \in 1 .. Cardinality(S) : Ascending(S)[k] = i
         /\ \A k, l \in 1 .. Cardinality(S) : k < l => Ascending(S)[k] < Ascending(S)[l]
<1> DEFINE n == Cardinality(S)
<1>1. n \in Nat /\ S \in SUBSET Nat
  BY FS_CardinalityType
<1>2. \A k \in 1 .. n : Nth(S, k) \in S /\ RankIn(S, Nth(S, k)) = k
  BY <1>1, NthExists
<1>3. Ascending(S) = [k \in 1 .. n |-> Nth(S, k)]
  BY DEF Ascending
<1> HIDE DEF n
<1>4. /\ Ascending(S) \in [1 .. n -> S]
      /\ \A k \in 1 .. n : Ascending(S)[k] = Nth(S, k)
  BY <1>2, <1>3
<1>5. Ascending(S) \in Seq(S) /\ Len(Ascending(S)) = n
  BY <1>1, <1>3, <1>4
<1>6. ASSUME NEW i \in S PROVE \E k \in 1 .. n : Ascending(S)[k] = i
  <2>1. RankIn(S, i) \in 1 .. n /\ Nth(S, RankIn(S, i)) = i
    BY <1>1, RankBounds, NthIs DEF n
  <2> QED BY <1>4, <2>1
<1>7. ASSUME NEW k \in 1 .. n, NEW l \in 1 .. n, k < l
      PROVE  Ascending(S)[k] < Ascending(S)[l]
  <2> DEFINE i == Nth(S, k)
             j == Nth(S, l)
  <2>1. i \in S /\ j \in S /\ RankIn(S, i) = k /\ RankIn(S, j) = l
    BY <1>2
  <2> HIDE DEF i, j
  <2>2. i # j /\ ~(j < i)
    BY <1>1, <1>7, <2>1, RankGrows
  <2>3. i < j
    BY <1>1, <2>1, <2>2
  <2> QED BY <1>4, <2>3 DEF i, j
<1> QED BY <1>1, <1>5, <1>6, <1>7 DEF n

(* A set of positions continued by another, n places further on.           *)
Shifted(n, T) == {n + i : i \in T}

LEMMA ShiftedSize ==
  ASSUME NEW n \in Nat, NEW T \in SUBSET Nat, IsFiniteSet(T)
  PROVE  IsFiniteSet(Shifted(n, T)) /\ Cardinality(Shifted(n, T)) = Cardinality(T)
<1> DEFINE shift == [i \in T |-> n + i]
<1>1. shift \in Bijection(T, Shifted(n, T))
  <2>1. shift \in [T -> Shifted(n, T)]
    BY DEF Shifted
  <2>2. \A i, j \in T : shift[i] = shift[j] => i = j
    OBVIOUS
  <2>3. \A j \in Shifted(n, T) : \E i \in T : shift[i] = j
    BY DEF Shifted
  <2> QED BY <2>1, <2>2, <2>3 DEF Bijection, Injection, IsInjective, Surjection
<1>2. ExistsBijection(T, Shifted(n, T))
  BY <1>1 DEF ExistsBijection
<1> QED BY <1>2, FS_Bijection

LEMMA NthContinued ==
  ASSUME NEW n \in Nat, NEW S \in SUBSET (1 .. n),
         NEW T \in SUBSET (Nat \ {0}), IsFiniteSet(T)
  PROVE  LET U == S \cup Shifted(n, T)
         IN /\ U \in SUBSET Nat /\ IsFiniteSet(U) /\ IsFiniteSet(S)
            /\ Cardinality(U) = Cardinality(S) + Cardinality(T)
            /\ \A k \in 1 .. Cardinality(S) : Nth(U, k) = Nth(S, k)
            /\ \A k \in 1 .. Cardinality(T) :
                 Nth(U, Cardinality(S) + k) = n + Nth(T, k)
<1> DEFINE U == S \cup Shifted(n, T)
<1>1. S \in SUBSET Nat /\ IsFiniteSet(S) /\ Cardinality(S) \in Nat
  <2>1. IsFiniteSet(1 .. n)
    BY FS_Interval
  <2>2. IsFiniteSet(S)
    BY <2>1, FS_Subset
  <2> QED BY <2>2, FS_CardinalityType
<1>2. Cardinality(T) \in Nat
  BY FS_CardinalityType
<1>3. \A R \in SUBSET T : /\ IsFiniteSet(R) /\ IsFiniteSet(Shifted(n, R))
                          /\ S \cap Shifted(n, R) = {}
                          /\ IsFiniteSet(S \cup Shifted(n, R))
                          /\ Cardinality(S \cup Shifted(n, R))
                               = Cardinality(S) + Cardinality(R)
  <2> SUFFICES ASSUME NEW R \in SUBSET T
      PROVE  /\ IsFiniteSet(R) /\ IsFiniteSet(Shifted(n, R))
             /\ S \cap Shifted(n, R) = {}
             /\ IsFiniteSet(S \cup Shifted(n, R))
             /\ Cardinality(S \cup Shifted(n, R)) = Cardinality(S) + Cardinality(R)
    OBVIOUS
  <2>1. IsFiniteSet(R) /\ R \in SUBSET Nat /\ Cardinality(R) \in Nat
    BY FS_Subset, FS_CardinalityType
  <2>2. IsFiniteSet(Shifted(n, R)) /\ Cardinality(Shifted(n, R)) = Cardinality(R)
    BY <2>1, ShiftedSize
  <2>3. S \cap Shifted(n, R) = {}
    BY DEF Shifted
  <2>4. Cardinality(S \cap Shifted(n, R)) = 0
    BY <2>3, FS_EmptySet
  <2> QED BY <1>1, <2>1, <2>2, <2>3, <2>4, FS_Union
<1>4. U \in SUBSET Nat
  <2>1. \A j \in Shifted(n, T) : j \in Nat /\ j > n
    BY DEF Shifted
  <2> QED BY <1>1, <2>1
<1>5. IsFiniteSet(U) /\ Cardinality(U) = Cardinality(S) + Cardinality(T)
  BY <1>3
<1>6. ASSUME NEW k \in 1 .. Cardinality(S) PROVE Nth(U, k) = Nth(S, k)
  <2> DEFINE i == Nth(S, k)
  <2>1. i \in S /\ RankIn(S, i) = k
    BY <1>1, NthExists
  <2>2. {j \in U : j <= i} = {j \in S : j <= i}
    <3>1. i \in 1 .. n
      BY <2>1
    <3> HIDE DEF i
    <3>2. \A j \in Shifted(n, T) : ~(j <= i)
      BY <3>1 DEF Shifted
    <3> QED BY <3>2
  <2>3. RankIn(U, i) = k
    BY <2>1, <2>2 DEF RankIn
  <2> HIDE DEF i, U
  <2>4. i \in U
    BY <2>1 DEF U
  <2>5. Nth(U, k) = i
    BY <1>4, <1>5, <2>3, <2>4, NthIs
  <2> QED BY <2>5 DEF i
<1>7. ASSUME NEW k \in 1 .. Cardinality(T)
      PROVE  Nth(U, Cardinality(S) + k) = n + Nth(T, k)
  <2> DEFINE i == Nth(T, k)
             upto == {j \in T : j <= i}
  <2>1. i \in T /\ RankIn(T, i) = k
    BY NthExists
  <2> HIDE DEF i
  <2>2. {j \in U : j <= n + i} = S \cup Shifted(n, upto)
    <3>1. \A j \in S : j \in Nat /\ j <= n
      OBVIOUS
    <3>2. i \in Nat /\ n + i >= n
      BY <2>1
    <3>3. \A j : j \in Shifted(n, T) /\ j <= n + i <=> j \in Shifted(n, upto)
      BY <3>2 DEF Shifted
    <3>4. \A j \in S : j <= n + i
      BY <3>1, <3>2
    <3>5. \A j : j \in Shifted(n, upto) => j \in Shifted(n, T)
      BY DEF Shifted
    <3> HIDE DEF upto
    <3> QED BY <3>3, <3>4, <3>5
  <2>3. RankIn(U, n + i) = Cardinality(S) + k
    BY <1>3, <2>1, <2>2 DEF RankIn
  <2>4. n + i \in U
    BY <2>1 DEF Shifted
  <2> HIDE DEF U
  <2>5. Nth(U, RankIn(U, n + i)) = n + i
    BY <1>4, <1>5, <2>4, NthIs
  <2> QED BY <2>3, <2>5 DEF i
<1> QED BY <1>1, <1>4, <1>5, <1>6, <1>7
=============================================================================
