---------------------------- MODULE FilteredProofs ----------------------------
(***************************************************************************)
(* What the n-th index and the remaining list are, of any list and filter. *)
(***************************************************************************)
EXTENDS Filtered, FiniteSetTheorems, TLAPS

Rank(left, j) == Cardinality({k \in left : k < j})

(***************************************************************************)
(* The number of smaller indices numbers the indices that are left, from 0 *)
(* and without a gap: a larger index has a larger number, and there are as *)
(* many numbers as indices.                                                *)
(***************************************************************************)
LEMMA RankBijection ==
    ASSUME NEW left \in SUBSET Nat, IsFiniteSet(left)
    PROVE  /\ \A h, j \in left : h < j => Rank(left, h) < Rank(left, j)
           /\ \A j \in left : Rank(left, j) \in 0..(Cardinality(left) - 1)
           /\ \A n \in 0..(Cardinality(left) - 1) : \E j \in left : Rank(left, j) = n
<1> DEFINE Below(j) == {k \in left : k < j}
           size == Cardinality(left)
           rank == [j \in left |-> Cardinality(Below(j))]
<1>1. ASSUME NEW j \in left
      PROVE  /\ IsFiniteSet(Below(j)) /\ Cardinality(Below(j)) \in Nat
             /\ IsFiniteSet(Below(j) \cup {j})
             /\ Cardinality(Below(j) \cup {j}) = Cardinality(Below(j)) + 1
  <2>1. Below(j) \in SUBSET left /\ j \notin Below(j)
    OBVIOUS
  <2>2. IsFiniteSet(Below(j)) /\ Cardinality(Below(j)) \in Nat
    BY <2>1, FS_Subset, FS_CardinalityType
  <2> QED
    BY <2>1, <2>2, FS_AddElement
<1>2. ASSUME NEW h \in left, NEW j \in left, h < j
      PROVE  Cardinality(Below(h)) < Cardinality(Below(j))
  <2>1. \A k \in left : k \in Nat
    OBVIOUS
  <2>2. Below(h) \cup {h} \in SUBSET Below(j)
    <3>1. \A k \in left : k < h => k < j
      BY <1>2, <2>1
    <3> QED
      BY <1>2, <3>1
  <2>3. IsFiniteSet(Below(j))
    BY <1>1
  <2>4. Cardinality(Below(h) \cup {h}) <= Cardinality(Below(j))
    BY <2>2, <2>3, FS_Subset
  <2>5. /\ Cardinality(Below(h)) \in Nat /\ Cardinality(Below(j)) \in Nat
        /\ Cardinality(Below(h) \cup {h}) = Cardinality(Below(h)) + 1
    BY <1>1
  <2> HIDE DEF Below
  <2> QED
    BY <2>4, <2>5
<1>3. ASSUME NEW j \in left PROVE Cardinality(Below(j)) \in 0..(size - 1)
  <2>1. Below(j) \cup {j} \in SUBSET left
    OBVIOUS
  <2>2. Cardinality(Below(j) \cup {j}) <= size
    BY <2>1, FS_Subset
  <2> QED
    BY <1>1, <2>2, FS_CardinalityType
<1>4. rank \in Injection(left, 0..(size - 1))
  <2>1. rank \in [left -> 0..(size - 1)]
    BY <1>3
  <2>2. ASSUME NEW h \in left, NEW j \in left, rank[h] = rank[j] PROVE h = j
    <3>1. Cardinality(Below(h)) = Cardinality(Below(j)) /\ Cardinality(Below(h)) \in Nat
      BY <1>1, <2>2
    <3>2. /\ ~(Cardinality(Below(h)) < Cardinality(Below(j)))
          /\ ~(Cardinality(Below(j)) < Cardinality(Below(h)))
      BY <3>1
    <3>3. ~(h < j) /\ ~(j < h)
      BY <1>2, <3>2
    <3>4. h \in Nat /\ j \in Nat
      OBVIOUS
    <3> QED
      BY <3>3, <3>4
  <2> QED
    BY <2>1, <2>2 DEF Injection, IsInjective
<1>5. IsFiniteSet(0..(size - 1)) /\ Cardinality(0..(size - 1)) = size
  <2>1. size \in Nat
    BY FS_CardinalityType
  <2>2. 0 \in Int /\ size - 1 \in Int
    BY <2>1
  <2> QED
    BY <2>1, <2>2, FS_Interval
<1>6. rank \in Surjection(left, 0..(size - 1))
  BY <1>4, <1>5, FS_Injection
<1>7. \A n \in 0..(size - 1) : \E j \in left : rank[j] = n
  BY <1>6 DEF Surjection
<1> QED
  BY <1>2, <1>3, <1>7 DEF Rank

(***************************************************************************)
(* filteredIndices()[n] is the visible candidate with n others before it.  *)
(***************************************************************************)
LEMMA NthProperties ==
    ASSUME NEW left \in SUBSET Nat, IsFiniteSet(left)
    PROVE  /\ \A n \in 0..(Cardinality(left) - 1) :
                Nth(left, n) \in left /\ Rank(left, Nth(left, n)) = n
           /\ \A j \in left : \E n \in 0..(Cardinality(left) - 1) : Nth(left, n) = j
<1>1. \A n \in 0..(Cardinality(left) - 1) :
        Nth(left, n) \in left /\ Rank(left, Nth(left, n)) = n
  BY RankBijection DEF Nth, Rank
<1>2. ASSUME NEW j \in left
      PROVE  \E n \in 0..(Cardinality(left) - 1) : Nth(left, n) = j
  <2>1. Rank(left, j) \in 0..(Cardinality(left) - 1)
    BY RankBijection
  <2> DEFINE h == Nth(left, Rank(left, j))
  <2>2. h \in left /\ Rank(left, h) = Rank(left, j)
    BY <1>1, <2>1
  <2> HIDE DEF h
  <2>3. ~(h < j) /\ ~(j < h)
    <3>1. Rank(left, j) \in Nat
      BY <2>1
    <3>2. ~(Rank(left, h) < Rank(left, j)) /\ ~(Rank(left, j) < Rank(left, h))
      BY <2>2, <3>1
    <3> QED
      BY <2>2, <3>2, RankBijection
  <2>4. h = j
    <3>1. h \in Nat /\ j \in Nat
      BY <2>2
    <3> QED
      BY <2>3, <3>1
  <2> QED
    BY <2>1, <2>4 DEF h
<1> QED
  BY <1>1, <1>2

(***************************************************************************)
(* The remaining list is made of the entries that are left, each once.     *)
(***************************************************************************)
LEMMA RemainingProperties ==
    ASSUME NEW S, NEW s \in Seq(S), NEW left \in SUBSET DOMAIN s
    PROVE  LET r == Remaining(s, left)
           IN  /\ IsFiniteSet(left)
               /\ r \in Seq(S) /\ Len(r) = Cardinality(left)
               /\ DOMAIN r = 1..Cardinality(left)
               /\ \A n \in DOMAIN r : Nth(left, n - 1) \in left /\ r[n] = s[Nth(left, n - 1)]
               /\ \A n, m \in DOMAIN r : Nth(left, n - 1) = Nth(left, m - 1) => n = m
               /\ \A j \in left : \E n \in DOMAIN r : Nth(left, n - 1) = j /\ r[n] = s[j]
<1> DEFINE r == Remaining(s, left)
<1>1. left \in SUBSET Nat /\ IsFiniteSet(left)
  <2>1. DOMAIN s = 1..Len(s) /\ Len(s) \in Nat
    OBVIOUS
  <2>2. IsFiniteSet(1..Len(s))
    <3>1. 1 \in Int /\ Len(s) \in Int
      BY <2>1
    <3> QED
      BY <3>1, FS_Interval
  <2> QED
    BY <2>1, <2>2, FS_Subset
<1>2. Cardinality(left) \in Nat
  BY <1>1, FS_CardinalityType
<1>3. DOMAIN r = 1..Cardinality(left)
  BY DEF Remaining
<1>4. \A n \in 1..Cardinality(left) : n - 1 \in 0..(Cardinality(left) - 1)
  BY <1>2
<1>5. \A n \in 1..Cardinality(left) :
        Nth(left, n - 1) \in left /\ r[n] = s[Nth(left, n - 1)] /\ r[n] \in S
  BY <1>1, <1>4, NthProperties DEF Remaining
<1>6. r \in Seq(S) /\ Len(r) = Cardinality(left)
  BY <1>2, <1>3, <1>5 DEF Remaining
<1>7. ASSUME NEW n \in DOMAIN r, NEW m \in DOMAIN r,
             Nth(left, n - 1) = Nth(left, m - 1)
      PROVE  n = m
  <2>1. n - 1 = m - 1
    BY <1>1, <1>3, <1>4, <1>7, NthProperties
  <2> QED
    BY <2>1, <1>3, <1>2
<1>8. ASSUME NEW j \in left PROVE \E n \in DOMAIN r : Nth(left, n - 1) = j /\ r[n] = s[j]
  <2>1. PICK k \in 0..(Cardinality(left) - 1) : Nth(left, k) = j
    BY <1>1, NthProperties
  <2>2. k + 1 \in 1..Cardinality(left) /\ (k + 1) - 1 = k
    BY <1>2
  <2>3. Nth(left, (k + 1) - 1) = j /\ r[k + 1] = s[j]
    BY <1>5, <2>1, <2>2
  <2> QED
    BY <1>3, <2>2, <2>3
<1> QED
  BY <1>1, <1>3, <1>5, <1>6, <1>7, <1>8

(***************************************************************************)
(* Of indices that are left there is a first.                              *)
(***************************************************************************)
LEMMA FirstExists ==
    ASSUME NEW left \in SUBSET Nat, IsFiniteSet(left), left # {}
    PROVE  \E n \in left : \A m \in left : n <= m
<1>1. Cardinality(left) \in Nat /\ Cardinality(left) # 0
  BY FS_CardinalityType, FS_EmptySet
<1>2. 0 \in 0..(Cardinality(left) - 1)
  BY <1>1
<1>3. Nth(left, 0) \in left /\ Rank(left, Nth(left, 0)) = 0
  BY <1>2, NthProperties
<1> DEFINE j == Nth(left, 0)
           below == {k \in left : k < j}
<1>4. IsFiniteSet(below)
  <2>1. below \in SUBSET left
    OBVIOUS
  <2> QED
    BY <2>1, FS_Subset
<1>5. below = {}
  BY <1>3, <1>4, FS_EmptySet DEF Rank
<1>6. \A m \in left : ~(m < j) /\ m \in Nat
  BY <1>5
<1> HIDE DEF j
<1>7. j \in left /\ j \in Nat
  BY <1>3 DEF j
<1>8. \A m \in left : j <= m
  BY <1>6, <1>7
<1> QED
  BY <1>7, <1>8

(***************************************************************************)
(* And of indices up to n there is a last.                                 *)
(***************************************************************************)
LEMMA LastExists ==
    ASSUME NEW n \in Nat, NEW left \in SUBSET (1..n), left # {}
    PROVE  \E j \in left : \A m \in left : m <= j
<1> DEFINE mirrored == {k \in 0..n : n - k \in left}
<1>1. mirrored \in SUBSET Nat /\ mirrored \in SUBSET (0..n)
  OBVIOUS
<1>2. IsFiniteSet(mirrored)
  <2>1. 0 \in Int /\ n \in Int
    OBVIOUS
  <2>2. IsFiniteSet(0..n)
    BY <2>1, FS_Interval
  <2> QED
    BY <1>1, <2>2, FS_Subset
<1>3. \A j \in left : n - j \in mirrored
  <2> SUFFICES ASSUME NEW j \in left PROVE n - j \in 0..n /\ n - (n - j) \in left
    OBVIOUS
  <2>1. j \in 1..n
    OBVIOUS
  <2>2. n - (n - j) = j /\ n - j \in 0..n
    BY <2>1
  <2> QED
    BY <2>2
<1>4. PICK k \in mirrored : \A m \in mirrored : k <= m
  <2>1. mirrored # {}
    BY <1>3
  <2> QED
    BY <1>1, <1>2, <2>1, FirstExists
<1>5. \A m \in left : k <= n - m
  BY <1>3, <1>4
<1>6. k \in 0..n /\ n - k \in left
  BY <1>4
<1>7. \A m \in left : m \in 1..n
  OBVIOUS
<1> HIDE DEF mirrored
<1>8. \A m \in left : m <= n - k
  BY <1>5, <1>6, <1>7
<1> QED
  BY <1>6, <1>8
===============================================================================
