---------------------------- MODULE Ordering_proofs ----------------------------
(***************************************************************************)
(* Lemmas about Ordering, and what stands in for induction: of any set of  *)
(* natural numbers that has a member, one is the least.                    *)
(***************************************************************************)
EXTENDS Ordering, FiniteSetTheorems, WellFoundedInduction, TLAPS

\* The counterexample of an induction: a nonempty set of numbers has a least one.
LEMMA LeastNumber ==
  ASSUME NEW T \in SUBSET Nat, T # {}
  PROVE  \E m \in T : \A n \in T : m <= n
<1>1. \E m \in T : \A n \in T : <<n, m>> \notin OpToRel(<, Nat)
  BY NatLessThanWellFounded, WFMin
<1>2. \A n, m \in T : <<n, m>> \in OpToRel(<, Nat) <=> n < m
  BY DEF OpToRel
<1>3. PICK m \in T : \A n \in T : ~ (n < m)
  BY <1>1, <1>2
<1> QED BY <1>3

\* A set of numbers with 0 and the successor of each of its members below a
\* bound has every number up to the bound.
LEMMA UpTo ==
  ASSUME NEW n \in Nat, NEW S, 0 \in S, \A k \in 0 .. n - 1 : k \in S => k + 1 \in S
  PROVE  0 .. n \subseteq S
<1> SUFFICES ASSUME NEW x \in (0 .. n) \ S PROVE FALSE
  OBVIOUS
<1> DEFINE T == (0 .. n) \ S
<1>1. T \in SUBSET Nat /\ T # {}
  OBVIOUS
<1>2. PICK m \in T : \A k \in T : m <= k
  BY <1>1, LeastNumber
<1>3. m - 1 \in 0 .. n - 1
  OBVIOUS
<1>4. m - 1 \in S
  BY <1>2, <1>3
<1>5. (m - 1) + 1 \in S
  BY <1>3, <1>4
<1> QED BY <1>5
-----------------------------------------------------------------------------
(* Ranks *)

LEMMA RankType ==
  ASSUME NEW I \in SUBSET Nat, IsFiniteSet(I), NEW i \in I
  PROVE  Rank(I, i) \in 1 .. Cardinality(I)
<1> DEFINE S == {j \in I : j <= i}
<1>1. S \in SUBSET I /\ i \in S
  OBVIOUS
<1>2. IsFiniteSet(S) /\ Cardinality(S) <= Cardinality(I)
  BY <1>1, FS_Subset
<1>3. Cardinality(S) \in Nat /\ Cardinality(I) \in Nat /\ Cardinality(S) # 0
  BY <1>1, <1>2, FS_CardinalityType, FS_EmptySet
<1> HIDE DEF S
<1>4. Cardinality(S) \in 1 .. Cardinality(I)
  BY <1>2, <1>3
<1> QED BY <1>4 DEF Rank, S

LEMMA RankGrows ==
  ASSUME NEW I \in SUBSET Nat, IsFiniteSet(I), NEW i \in I, NEW k \in I, i < k
  PROVE  Rank(I, i) < Rank(I, k)
<1> DEFINE S == {j \in I : j <= i}
           T == {j \in I : j <= k}
<1>1. S \in SUBSET T /\ S # T /\ T \in SUBSET I
  <2>1. k \in T /\ k \notin S
    OBVIOUS
  <2>2. \A j \in I : j <= i => j <= k
    OBVIOUS
  <2> QED BY <2>1, <2>2
<1>2. IsFiniteSet(T)
  BY <1>1, FS_Subset
<1>3. Cardinality(S) <= Cardinality(T) /\ Cardinality(S) # Cardinality(T) /\ IsFiniteSet(S)
  BY <1>1, <1>2, FS_Subset
<1>4. Cardinality(S) \in Nat /\ Cardinality(T) \in Nat
  BY <1>2, <1>3, FS_CardinalityType
<1> HIDE DEF S, T
<1>5. Cardinality(S) < Cardinality(T)
  BY <1>3, <1>4
<1> QED BY <1>5 DEF Rank, S, T

\* Nth and Rank are inverse to each other.
LEMMA NthOfRank ==
  ASSUME NEW I \in SUBSET Nat, IsFiniteSet(I), NEW i \in I
  PROVE  Nth(I, Rank(I, i)) = i
<1> DEFINE k == Nth(I, Rank(I, i))
<1>1. k \in I /\ Rank(I, k) = Rank(I, i)
  BY DEF Nth
<1> HIDE DEF k
<1>2. ~ (i < k) /\ ~ (k < i)
  <2>1. ASSUME NEW x \in I, NEW y \in I, x < y PROVE Rank(I, x) # Rank(I, y)
    <3>1. Rank(I, x) \in Nat /\ Rank(I, y) \in Nat
      BY RankType
    <3> QED BY <2>1, <3>1, RankGrows
  <2> QED BY <1>1, <2>1
<1>3. i \in Nat /\ k \in Nat
  BY <1>1
<1> QED BY <1>2, <1>3 DEF k

LEMMA RankOfNth ==
  ASSUME NEW I \in SUBSET Nat, IsFiniteSet(I), NEW n \in 1 .. Cardinality(I)
  PROVE  Nth(I, n) \in I /\ Rank(I, Nth(I, n)) = n
<1> DEFINE N == 1 .. Cardinality(I)
           rank == [i \in I |-> Rank(I, i)]
<1>1. Cardinality(I) \in Nat
  BY FS_CardinalityType
<1>2. IsFiniteSet(N) /\ Cardinality(N) = Cardinality(I)
  BY <1>1, FS_Interval
<1>3. rank \in Injection(I, N)
  <2>1. rank \in [I -> N]
    BY RankType
  <2>2. ASSUME NEW x \in I, NEW y \in I, rank[x] = rank[y] PROVE x = y
    BY <2>2, NthOfRank
  <2> QED BY <2>1, <2>2 DEF Injection, IsInjective
<1>4. rank \in Surjection(I, N)
  BY <1>2, <1>3, FS_Injection
<1>5. \E i \in I : Rank(I, i) = n
  BY <1>4 DEF Surjection
<1> QED BY <1>5 DEF Nth
-----------------------------------------------------------------------------
(* Taking one member out *)

LEMMA RankWithout ==
  ASSUME NEW I \in SUBSET Nat, IsFiniteSet(I), NEW k \in I, NEW i \in I \ {k}
  PROVE  Rank(I \ {k}, i) = IF i < k THEN Rank(I, i) ELSE Rank(I, i) - 1
<1> DEFINE S == {j \in I : j <= i}
           T == {j \in I \ {k} : j <= i}
<1>1. IsFiniteSet(S)
  BY FS_Subset
<1>2. CASE i < k
  <2>1. S = T
    BY <1>2
  <2> QED BY <1>2, <2>1 DEF Rank
<1>3. CASE ~ (i < k)
  <2>1. T = S \ {k} /\ k \in S
    BY <1>3
  <2>2. Cardinality(T) = Cardinality(S) - 1
    BY <1>1, <2>1, FS_RemoveElement
  <2> QED BY <1>3, <2>2 DEF Rank
<1> QED BY <1>2, <1>3

\* Without its member k, the members after k move up by one.
LEMMA NthWithout ==
  ASSUME NEW I \in SUBSET Nat, IsFiniteSet(I), NEW k \in I
  PROVE  /\ IsFiniteSet(I \ {k}) /\ Cardinality(I \ {k}) = Cardinality(I) - 1
         /\ \A n \in 1 .. Cardinality(I) - 1 :
              Nth(I \ {k}, n) = IF n < Rank(I, k) THEN Nth(I, n) ELSE Nth(I, n + 1)
<1>1. IsFiniteSet(I \ {k}) /\ Cardinality(I \ {k}) = Cardinality(I) - 1
  BY FS_RemoveElement
<1>2. Cardinality(I) \in Nat /\ Rank(I, k) \in 1 .. Cardinality(I)
  BY FS_CardinalityType, RankType
<1>3. ASSUME NEW n \in 1 .. Cardinality(I) - 1
      PROVE  Nth(I \ {k}, n) = IF n < Rank(I, k) THEN Nth(I, n) ELSE Nth(I, n + 1)
  <2> DEFINE m == IF n < Rank(I, k) THEN n ELSE n + 1
             i == Nth(I, m)
  <2>1. m \in 1 .. Cardinality(I)
    BY <1>2
  <2>2. i \in I /\ Rank(I, i) = m
    BY <2>1, RankOfNth
  <2>3. m # Rank(I, k) /\ (m < Rank(I, k) <=> n < Rank(I, k))
    BY <1>2
  <2> HIDE DEF i
  <2>4. i # k
    BY <2>2, <2>3
  <2>5. i < k <=> n < Rank(I, k)
    <3>1. i \in Nat /\ k \in Nat
      BY <2>2
    <3>2. i < k => m < Rank(I, k)
      BY <2>2, RankGrows
    <3>3. k < i => Rank(I, k) < m
      BY <2>2, RankGrows
    <3>4. Rank(I, k) < m => ~ (m < Rank(I, k))
      BY <1>2, <2>1
    <3> QED BY <2>3, <2>4, <3>1, <3>2, <3>3, <3>4
  <2>6. Rank(I \ {k}, i) = n
    <3>1. Rank(I \ {k}, i) = IF i < k THEN m ELSE m - 1
      BY <2>2, <2>4, RankWithout
    <3>2. m = IF i < k THEN n ELSE n + 1
      BY <2>5
    <3> QED BY <3>1, <3>2
  <2>7. Nth(I \ {k}, n) = i
    BY <1>1, <2>2, <2>4, <2>6, NthOfRank
  <2> QED BY <2>7 DEF i
<1> QED BY <1>1, <1>3
-----------------------------------------------------------------------------
(* Putting one member in, above or below all others *)

LEMMA NthWithLargest ==
  ASSUME NEW I \in SUBSET Nat, IsFiniteSet(I), NEW m \in Nat, \A i \in I : i < m
  PROVE  /\ IsFiniteSet(I \cup {m}) /\ Cardinality(I \cup {m}) = Cardinality(I) + 1
         /\ Nth(I \cup {m}, Cardinality(I) + 1) = m
         /\ \A n \in 1 .. Cardinality(I) : Nth(I \cup {m}, n) = Nth(I, n)
<1> DEFINE J == I \cup {m}
<1>1. m \notin I /\ J \in SUBSET Nat /\ m \in J /\ J \ {m} = I
  OBVIOUS
<1>2. IsFiniteSet(J) /\ Cardinality(J) = Cardinality(I) + 1 /\ Cardinality(I) \in Nat
  BY <1>1, FS_AddElement, FS_CardinalityType
<1>3. Rank(J, m) = Cardinality(I) + 1
  <2>1. \A j \in J : j <= m
    OBVIOUS
  <2>2. {j \in J : j <= m} = J
    BY <2>1
  <2> QED BY <1>2, <2>2 DEF Rank
<1> HIDE DEF J
<1>4. Nth(J, Cardinality(I) + 1) = m
  BY <1>1, <1>2, <1>3, NthOfRank
<1>5. \A n \in 1 .. Cardinality(J) - 1 :
        Nth(J \ {m}, n) = IF n < Rank(J, m) THEN Nth(J, n) ELSE Nth(J, n + 1)
  BY <1>1, <1>2, NthWithout
<1>6. \A n \in 1 .. Cardinality(I) : Nth(J, n) = Nth(I, n)
  BY <1>1, <1>2, <1>3, <1>5
<1> QED BY <1>2, <1>4, <1>6 DEF J

LEMMA NthWithSmallest ==
  ASSUME NEW I \in SUBSET Nat, IsFiniteSet(I), NEW m \in Nat, \A i \in I : m < i
  PROVE  /\ IsFiniteSet(I \cup {m}) /\ Cardinality(I \cup {m}) = Cardinality(I) + 1
         /\ Nth(I \cup {m}, 1) = m
         /\ \A n \in 1 .. Cardinality(I) : Nth(I \cup {m}, n + 1) = Nth(I, n)
<1> DEFINE J == I \cup {m}
<1>1. m \notin I /\ J \in SUBSET Nat /\ m \in J /\ J \ {m} = I
  OBVIOUS
<1>2. IsFiniteSet(J) /\ Cardinality(J) = Cardinality(I) + 1 /\ Cardinality(I) \in Nat
  BY <1>1, FS_AddElement, FS_CardinalityType
<1>3. Rank(J, m) = 1
  <2>1. \A j \in J : j <= m <=> j = m
    OBVIOUS
  <2>2. {j \in J : j <= m} = {m}
    BY <1>1, <2>1
  <2> QED BY <2>2, FS_Singleton DEF Rank
<1> HIDE DEF J
<1>4. Nth(J, 1) = m
  BY <1>1, <1>2, <1>3, NthOfRank
<1>5. \A n \in 1 .. Cardinality(J) - 1 :
        Nth(J \ {m}, n) = IF n < Rank(J, m) THEN Nth(J, n) ELSE Nth(J, n + 1)
  BY <1>1, <1>2, NthWithout
<1>6. \A n \in 1 .. Cardinality(I) : Nth(J, n + 1) = Nth(I, n)
  BY <1>1, <1>2, <1>3, <1>5
<1> QED BY <1>2, <1>4, <1>6 DEF J

\* The members of an interval in order.
LEMMA NthOfInterval ==
  ASSUME NEW a \in Nat, NEW b \in Nat, a <= b, NEW n \in 1 .. b - a
  PROVE  Nth(a + 1 .. b, n) = a + n
<1> DEFINE I == a + 1 .. b
<1>1. I \in SUBSET Nat /\ IsFiniteSet(I) /\ a + n \in I
  BY FS_Interval
<1>2. {j \in I : j <= a + n} = a + 1 .. a + n
  OBVIOUS
<1>3. Cardinality(a + 1 .. a + n) = n
  BY FS_Interval
<1>4. Rank(I, a + n) = n
  BY <1>2, <1>3 DEF Rank
<1> HIDE DEF I
<1>5. Nth(I, n) = a + n
  BY <1>1, <1>4, NthOfRank
<1> QED BY <1>5 DEF I
-----------------------------------------------------------------------------
(* The newest ones *)

LEMMA NewestOfInterval ==
  ASSUME NEW a \in Nat, NEW b \in Nat, NEW n \in Nat, a <= b
  PROVE  Newest(a + 1 .. b, n) = (IF n <= b - a THEN b - n ELSE a) + 1 .. b
<1> SUFFICES ASSUME NEW i \in a + 1 .. b
             PROVE  Cardinality({j \in a + 1 .. b : j > i}) = b - i
  <2>1. ASSUME \A i \in a + 1 .. b : Cardinality({j \in a + 1 .. b : j > i}) = b - i
        PROVE  Newest(a + 1 .. b, n) = {i \in a + 1 .. b : b - i < n}
    BY <2>1 DEF Newest
  <2>2. {i \in a + 1 .. b : b - i < n} = (IF n <= b - a THEN b - n ELSE a) + 1 .. b
    OBVIOUS
  <2> QED BY <2>1, <2>2
<1>1. {j \in a + 1 .. b : j > i} = i + 1 .. b
  OBVIOUS
<1>2. Cardinality(i + 1 .. b) = b - i
  BY FS_Interval
<1> QED BY <1>1, <1>2

LEMMA NewestType ==
  ASSUME NEW I \in SUBSET Nat, IsFiniteSet(I), NEW n \in Nat
  PROVE  /\ Newest(I, n) \in SUBSET I /\ IsFiniteSet(Newest(I, n))
         /\ Cardinality(I) < n => Newest(I, n) = I
         /\ Cardinality(Newest(I, n)) < n => Cardinality(I) < n
<1>1. Newest(I, n) \in SUBSET I /\ IsFiniteSet(Newest(I, n))
  BY FS_Subset DEF Newest
<1>2. ASSUME NEW i \in I
      PROVE  /\ Cardinality({j \in I : j > i}) \in Nat
             /\ Cardinality({j \in I : j > i}) + Rank(I, i) = Cardinality(I)
  <2> DEFINE S == {j \in I : j > i}
             T == {j \in I : j <= i}
  <2>1. S \cup T = I /\ S \cap T = {} /\ IsFiniteSet(S) /\ IsFiniteSet(T)
    <3>1. S \in SUBSET I /\ T \in SUBSET I
      OBVIOUS
    <3>2. \A j \in I : j > i <=> ~ (j <= i)
      OBVIOUS
    <3>3. S \cup T = I /\ S \cap T = {}
      BY <3>2
    <3> QED BY <3>1, <3>3, FS_Subset
  <2>2. Cardinality(S) \in Nat /\ Cardinality(T) \in Nat
    BY <2>1, FS_CardinalityType
  <2>3. Cardinality(S \cup T) = Cardinality(S) + Cardinality(T) - Cardinality(S \cap T)
    BY <2>1, FS_Union
  <2>4. Cardinality(I) = Cardinality(S) + Cardinality(T)
    BY <2>1, <2>2, <2>3, FS_EmptySet
  <2> QED BY <2>2, <2>4 DEF Rank
<1>3. Cardinality(I) \in Nat /\ \A i \in I : Rank(I, i) \in 1 .. Cardinality(I)
  BY FS_CardinalityType, RankType
<1>4. Cardinality(I) < n => Newest(I, n) = I
  <2> SUFFICES ASSUME Cardinality(I) < n, NEW i \in I
               PROVE  Cardinality({j \in I : j > i}) < n
    BY DEF Newest
  <2> QED BY <1>2, <1>3
<1>5. ASSUME n <= Cardinality(I) PROVE n <= Cardinality(Newest(I, n))
  <2> DEFINE c == Cardinality(I) - n
             last == [m \in 1 .. n |-> Nth(I, c + m)]
  <2>1. c \in Nat /\ \A m \in 1 .. n : c + m \in 1 .. Cardinality(I)
    BY <1>3, <1>5
  <2>2. \A m \in 1 .. n : last[m] \in I /\ Rank(I, last[m]) = c + m
    BY <2>1, RankOfNth
  <2>3. last \in Injection(1 .. n, Newest(I, n))
    <3>1. ASSUME NEW m \in 1 .. n PROVE last[m] \in Newest(I, n)
      <4>1. Cardinality({j \in I : j > last[m]}) + (c + m) = Cardinality(I)
        BY <1>2, <2>2
      <4>2. Cardinality({j \in I : j > last[m]}) \in Nat
        BY <1>2, <2>2
      <4>3. Cardinality({j \in I : j > last[m]}) < n
        BY <1>3, <4>1, <4>2
      <4> QED BY <2>2, <4>3 DEF Newest
    <3>2. ASSUME NEW x \in 1 .. n, NEW y \in 1 .. n, last[x] = last[y] PROVE x = y
      <4>1. c + x = c + y
        BY <2>2, <3>2
      <4> HIDE DEF c
      <4> QED BY <2>1, <4>1
    <3> QED BY <3>1, <3>2 DEF Injection, IsInjective
  <2>4. Cardinality(1 .. n) <= Cardinality(Newest(I, n))
    BY <1>1, <2>3, FS_Injection
  <2>5. Cardinality(1 .. n) = n
    BY FS_Interval
  <2> QED BY <2>4, <2>5
<1>6. Cardinality(Newest(I, n)) \in Nat
  BY <1>1, FS_CardinalityType
<1> QED BY <1>1, <1>3, <1>4, <1>5, <1>6

\* Putting in a member below all others.
LEMMA NewestWithSmallest ==
  ASSUME NEW I \in SUBSET Nat, IsFiniteSet(I), NEW m \in Nat, \A i \in I : m < i, NEW n \in Nat
  PROVE  Newest(I \cup {m}, n) =
           IF Cardinality(I) < n THEN Newest(I, n) \cup {m} ELSE Newest(I, n)
<1>1. {j \in I \cup {m} : j > m} = I
  <2>1. \A j \in I \cup {m} : j > m <=> j \in I
    OBVIOUS
  <2> QED BY <2>1
<1>2. \A i \in I : {j \in I \cup {m} : j > i} = {j \in I : j > i}
  OBVIOUS
<1>3. m \notin I
  OBVIOUS
<1> DEFINE J == I \cup {m}
<1>4. \A i \in I : i \in Newest(J, n) <=> i \in Newest(I, n)
  BY <1>2 DEF Newest
<1>5. m \in Newest(J, n) <=> Cardinality(I) < n
  BY <1>1 DEF Newest
<1>6. Newest(J, n) \subseteq I \cup {m} /\ Newest(I, n) \subseteq I
  BY DEF Newest
<1> HIDE DEF J
<1>7. CASE Cardinality(I) < n
  <2>1. ASSUME NEW i PROVE i \in Newest(J, n) <=> i \in Newest(I, n) \cup {m}
    BY <1>3, <1>4, <1>5, <1>6, <1>7, Zenon
  <2> QED BY <1>7, <2>1, Zenon DEF J
<1>8. CASE ~ (Cardinality(I) < n)
  <2>1. ASSUME NEW i PROVE i \in Newest(J, n) <=> i \in Newest(I, n)
    BY <1>3, <1>4, <1>5, <1>6, <1>8, Zenon
  <2> QED BY <1>8, <2>1, Zenon DEF J
<1> QED BY <1>7, <1>8
=============================================================================
