---------------------------- MODULE ArraysProofs ----------------------------
(***************************************************************************)
(* Lemmas about the arrays of the console: what filtering and sorting      *)
(* return, for arrays of any length.                                       *)
(***************************************************************************)
EXTENDS Arrays, FiniteSetTheorems, SequenceTheorems, TLAPS

\* R orders P: of two positions one is ahead of the other.
Orders(R, P) ==
  /\ \A k \in P : <<k, k>> \notin R
  /\ \A j, k \in P : j # k => <<j, k>> \in R \/ <<k, j>> \in R
  /\ \A j, k, l \in P : <<j, k>> \in R /\ <<k, l>> \in R => <<j, l>> \in R

\* Every position is ranked once, and in order.
LEMMA RankingIsOrdered ==
  ASSUME NEW P, IsFiniteSet(P), NEW R, Orders(R, P)
  PROVE  /\ Cardinality(P) \in Nat
         /\ \A r \in 1 .. Cardinality(P) : Ranking(P, R)[r] \in P
         /\ \A k \in P : \E r \in 1 .. Cardinality(P) : Ranking(P, R)[r] = k
         /\ \A q, r \in 1 .. Cardinality(P) : q < r => <<Ranking(P, R)[q], Ranking(P, R)[r]>> \in R
<1> DEFINE n == Cardinality(P)
           ahead(k) == {l \in P : <<l, k>> \in R}
           rank == [k \in P |-> Cardinality(ahead(k)) + 1]
<1>0. n \in Nat
  BY FS_CardinalityType
<1>1. \A k \in P : IsFiniteSet(ahead(k)) /\ Cardinality(ahead(k)) \in Nat
  BY FS_Subset, FS_CardinalityType
<1>2. ASSUME NEW k \in P
      PROVE  rank[k] \in 1 .. n
  <2>1. ahead(k) \in SUBSET (P \ {k})
    BY DEF Orders
  <2>2. IsFiniteSet(P \ {k}) /\ Cardinality(P \ {k}) = n - 1
    BY FS_RemoveElement
  <2>3. Cardinality(ahead(k)) <= Cardinality(P \ {k})
    BY <2>1, <2>2, FS_Subset
  <2>4. QED
    BY <1>0, <1>1, <2>2, <2>3
<1>3. ASSUME NEW j \in P, NEW k \in P, <<j, k>> \in R
      PROVE  rank[j] < rank[k]
  <2>1. j \notin ahead(j) /\ ahead(j) \cup {j} \subseteq ahead(k)
    BY <1>3 DEF Orders
  <2>2. IsFiniteSet(ahead(j) \cup {j}) /\ Cardinality(ahead(j) \cup {j}) = Cardinality(ahead(j)) + 1
    BY <1>1, <2>1, FS_AddElement
  <2>3. Cardinality(ahead(j) \cup {j}) <= Cardinality(ahead(k))
    BY <1>1, <2>1, FS_Subset
  <2>4. QED
    BY <1>1, <2>2, <2>3
<1>4. \A j, k \in P : rank[j] = rank[k] => j = k
  <2> SUFFICES ASSUME NEW j \in P, NEW k \in P, rank[j] = rank[k], j # k
               PROVE  FALSE
    OBVIOUS
  <2>1. rank[j] < rank[k] \/ rank[k] < rank[j]
    BY <1>3 DEF Orders
  <2>2. rank[j] \in Nat /\ rank[k] \in Nat
    BY <1>2
  <2>3. QED
    BY <2>1, <2>2
<1>5. \A r \in 1 .. n : \E k \in P : rank[k] = r
  <2>1. rank \in Injection(P, 1 .. n)
    BY <1>2, <1>4 DEF Injection, IsInjective
  <2>2. IsFiniteSet(1 .. n) /\ Cardinality(1 .. n) = n
    BY <1>0, FS_Interval
  <2>3. rank \in Surjection(P, 1 .. n)
    BY <2>1, <2>2, FS_Injection
  <2>4. QED
    BY <2>3 DEF Surjection
<1>6. ASSUME NEW r \in 1 .. n
      PROVE  Ranking(P, R)[r] \in P /\ rank[Ranking(P, R)[r]] = r
  <2>1. Ranking(P, R)[r] = CHOOSE k \in P : Cardinality(ahead(k)) = r - 1
    BY DEF Ranking
  <2>2. PICK k \in P : Cardinality(ahead(k)) = r - 1
    BY <1>5, <1>1, <1>0
  <2>3. Ranking(P, R)[r] \in P /\ Cardinality(ahead(Ranking(P, R)[r])) = r - 1
    BY <2>1, <2>2
  <2>4. QED
    BY <2>3
<1> HIDE DEF rank
<1>7. ASSUME NEW k \in P
      PROVE  \E r \in 1 .. n : Ranking(P, R)[r] = k
  BY <1>2, <1>4, <1>6
<1>8. ASSUME NEW q \in 1 .. n, NEW r \in 1 .. n, q < r
      PROVE  <<Ranking(P, R)[q], Ranking(P, R)[r]>> \in R
  <2>1. rank[Ranking(P, R)[q]] = q /\ rank[Ranking(P, R)[r]] = r
        /\ Ranking(P, R)[q] \in P /\ Ranking(P, R)[r] \in P
    BY <1>6
  <2>2. Ranking(P, R)[q] # Ranking(P, R)[r]
    BY <1>0, <1>8, <2>1
  <2>3. ~ <<Ranking(P, R)[r], Ranking(P, R)[q]>> \in R
    BY <1>0, <1>3, <1>8, <2>1
  <2>4. QED
    BY <2>1, <2>2, <2>3 DEF Orders
<1>9. QED
  BY <1>0, <1>6, <1>7, <1>8

\* Positions are ranked by what they are.
LEMMA PositionsAscend ==
  ASSUME NEW n \in Nat, NEW P \in SUBSET (1 .. n)
  PROVE  /\ IsFiniteSet(P) /\ Cardinality(P) \in Nat
         /\ \A r \in 1 .. Cardinality(P) : Positions(P)[r] \in P
         /\ \A k \in P : \E r \in 1 .. Cardinality(P) : Positions(P)[r] = k
         /\ \A q, r \in 1 .. Cardinality(P) : q < r => Positions(P)[q] < Positions(P)[r]
<1>0. IsFiniteSet(1 .. n)
  BY FS_Interval
<1>1. IsFiniteSet(P)
  BY <1>0, FS_Subset
<1>2. \A k \in P : k \in Int
  OBVIOUS
<1>3. Orders(Ascending(P), P)
  BY <1>2 DEF Orders, Ascending
<1>4. /\ Cardinality(P) \in Nat
      /\ \A r \in 1 .. Cardinality(P) : Positions(P)[r] \in P
      /\ \A k \in P : \E r \in 1 .. Cardinality(P) : Positions(P)[r] = k
      /\ \A q, r \in 1 .. Cardinality(P) : q < r => <<Positions(P)[q], Positions(P)[r]>> \in Ascending(P)
  BY <1>1, <1>3, RankingIsOrdered DEF Positions
<1>5. \A q, r \in 1 .. Cardinality(P) : q < r => Positions(P)[q] < Positions(P)[r]
  BY <1>4 DEF Ascending
<1>6. QED
  BY <1>1, <1>4, <1>5

\* What is chosen from an array is an array of its elements.
LEMMA SublistType ==
  ASSUME NEW S, NEW s \in Seq(S), NEW P \in SUBSET (1 .. Len(s))
  PROVE  /\ Sublist(s, P) \in Seq(S)
         /\ Len(Sublist(s, P)) = Cardinality(P)
         /\ \A r \in 1 .. Cardinality(P) : Sublist(s, P)[r] = s[Positions(P)[r]]
<1>0. Len(s) \in Nat
  OBVIOUS
<1>1. Cardinality(P) \in Nat /\ \A r \in 1 .. Cardinality(P) : Positions(P)[r] \in 1 .. Len(s)
  BY <1>0, PositionsAscend
<1>2. \A r \in 1 .. Cardinality(P) : s[Positions(P)[r]] \in S
  BY <1>1
<1>3. QED
  BY <1>1, <1>2 DEF Sublist

\* An element is in what is chosen when its position is.
LEMMA SublistElements ==
  ASSUME NEW S, NEW s \in Seq(S), NEW P \in SUBSET (1 .. Len(s))
  PROVE  /\ \A r \in 1 .. Len(Sublist(s, P)) : \E k \in P : Sublist(s, P)[r] = s[k]
         /\ \A k \in P : \E r \in 1 .. Len(Sublist(s, P)) : Sublist(s, P)[r] = s[k]
         /\ Sublist(s, P) = <<>> <=> P = {}
<1>0. Len(s) \in Nat
  OBVIOUS
<1>1. /\ \A r \in 1 .. Cardinality(P) : Positions(P)[r] \in P
      /\ \A k \in P : \E r \in 1 .. Cardinality(P) : Positions(P)[r] = k
      /\ Cardinality(P) \in Nat /\ IsFiniteSet(P)
  BY <1>0, PositionsAscend
<1>2. /\ Sublist(s, P) \in Seq(S)
      /\ Len(Sublist(s, P)) = Cardinality(P)
      /\ \A r \in 1 .. Cardinality(P) : Sublist(s, P)[r] = s[Positions(P)[r]]
  BY SublistType
<1>3. Cardinality(P) = 0 <=> P = {}
  BY <1>1, FS_EmptySet
<1>4. Sublist(s, P) = <<>> <=> P = {}
  BY <1>1, <1>2, <1>3, EmptySeq
<1>5. \A r \in 1 .. Cardinality(P) : \E k \in P : Sublist(s, P)[r] = s[k]
  BY <1>1, <1>2
<1>6. \A k \in P : \E r \in 1 .. Cardinality(P) : Sublist(s, P)[r] = s[k]
  BY <1>1, <1>2
<1>7. QED
  BY <1>2, <1>4, <1>5, <1>6

\* The first of what is chosen.
LEMMA SublistFirst ==
  ASSUME NEW S, NEW s \in Seq(S), NEW P \in SUBSET (1 .. Len(s)),
         NEW k \in P, \A l \in P : k <= l
  PROVE  Sublist(s, P) # <<>> /\ Sublist(s, P)[1] = s[k]
<1>0. Len(s) \in Nat
  OBVIOUS
<1>1. /\ Cardinality(P) \in Nat
      /\ \A r \in 1 .. Cardinality(P) : Positions(P)[r] \in P
      /\ \A q, r \in 1 .. Cardinality(P) : q < r => Positions(P)[q] < Positions(P)[r]
  BY <1>0, PositionsAscend
<1>2. PICK r \in 1 .. Cardinality(P) : Positions(P)[r] = k
  BY <1>0, PositionsAscend
<1>3. 1 \in 1 .. Cardinality(P) /\ Positions(P)[1] \in P
  BY <1>1, <1>2
<1>4. \A l \in P : l \in Nat
  BY <1>0
<1>5. Positions(P)[1] = k
  <2>1. Positions(P)[1] \in Nat /\ k \in Nat /\ k <= Positions(P)[1]
    BY <1>3, <1>4
  <2>2. 1 < r => Positions(P)[1] < k
    BY <1>1, <1>2, <1>3
  <2>3. r = 1 \/ 1 < r
    BY <1>1
  <2>4. QED
    BY <1>2, <2>1, <2>2, <2>3
<1>6. QED
  BY <1>3, <1>5, SublistType, SublistElements

\* The position of rank r has r - 1 before it.
LEMMA RankCounts ==
  ASSUME NEW n \in Nat, NEW P \in SUBSET (1 .. n), NEW r \in 1 .. Cardinality(P)
  PROVE  Cardinality({l \in P : l < Positions(P)[r]}) = r - 1
<1> DEFINE S == {l \in P : l < Positions(P)[r]}
           f == [q \in 1 .. r - 1 |-> Positions(P)[q]]
<1>1. /\ Cardinality(P) \in Nat
      /\ \A q \in 1 .. Cardinality(P) : Positions(P)[q] \in P
      /\ \A k \in P : \E q \in 1 .. Cardinality(P) : Positions(P)[q] = k
      /\ \A p, q \in 1 .. Cardinality(P) : p < q => Positions(P)[p] < Positions(P)[q]
  BY PositionsAscend
<1>2. r - 1 \in Nat /\ r \in Nat /\ \A q \in 1 .. r - 1 : q \in 1 .. Cardinality(P) /\ q < r
  BY <1>1
<1>3. \A l \in P : l \in Nat
  OBVIOUS
<1>4. f \in [1 .. r - 1 -> S]
  BY <1>1, <1>2
<1>5. \A p, q \in 1 .. r - 1 : f[p] = f[q] => p = q
  <2> SUFFICES ASSUME NEW p \in 1 .. r - 1, NEW q \in 1 .. r - 1, p < q
               PROVE  f[p] # f[q]
    BY <1>2
  <2>1. Positions(P)[p] < Positions(P)[q] /\ Positions(P)[p] \in Nat /\ Positions(P)[q] \in Nat
    BY <1>1, <1>2, <1>3
  <2>2. QED
    BY <2>1
<1>6. ASSUME NEW l \in S
      PROVE  \E q \in 1 .. r - 1 : f[q] = l
  <2>1. PICK q \in 1 .. Cardinality(P) : Positions(P)[q] = l
    BY <1>1
  <2>2. l < Positions(P)[r] /\ l \in Nat /\ Positions(P)[r] \in Nat
    BY <1>1, <1>3
  <2>3. ~ r < q /\ q # r
    <3>1. r < q => Positions(P)[r] < l
      BY <1>1, <2>1
    <3>2. QED
      BY <2>1, <2>2, <3>1
  <2>4. q \in 1 .. r - 1
    BY <1>1, <2>3
  <2>5. QED
    BY <2>1, <2>4
<1>7. f \in Bijection(1 .. r - 1, S)
  BY <1>4, <1>5, <1>6 DEF Bijection, Injection, Surjection, IsInjective
<1>8. QED
  BY <1>2, <1>7, FS_CountingElements DEF ExistsBijection

\* What stands before position m is ranked whatever comes after it.
LEMMA PositionsOfPrefix ==
  ASSUME NEW m \in Nat, NEW n \in Nat, m <= n, NEW P \in SUBSET (1 .. m), NEW Q \in SUBSET (1 .. n),
         P = Q \cap (1 .. m)
  PROVE  /\ Cardinality(P) <= Cardinality(Q)
         /\ \A r \in 1 .. Cardinality(P) : Positions(Q)[r] = Positions(P)[r]
<1>1. /\ Cardinality(P) \in Nat
      /\ \A r \in 1 .. Cardinality(P) : Positions(P)[r] \in P
  BY PositionsAscend
<1>2. /\ IsFiniteSet(Q) /\ Cardinality(Q) \in Nat
      /\ \A k \in Q : \E r \in 1 .. Cardinality(Q) : Positions(Q)[r] = k
  BY PositionsAscend
<1>3. Cardinality(P) <= Cardinality(Q)
  <2>1. P \in SUBSET Q
    OBVIOUS
  <2>2. QED
    BY <1>2, <2>1, FS_Subset
<1>4. ASSUME NEW r \in 1 .. Cardinality(P)
      PROVE  Positions(Q)[r] = Positions(P)[r]
  <2>1. Positions(P)[r] \in P /\ Positions(P)[r] \in Q
    BY <1>1
  <2>2. PICK q \in 1 .. Cardinality(Q) : Positions(Q)[q] = Positions(P)[r]
    BY <1>2, <2>1
  <2>3. {l \in P : l < Positions(P)[r]} = {l \in Q : l < Positions(Q)[q]}
    <3>1. \A x \in 1 .. m : {l \in P : l < x} = {l \in Q : l < x}
      <4> SUFFICES ASSUME NEW x \in 1 .. m, NEW l \in Q, l < x
                   PROVE  l \in P
        OBVIOUS
      <4>1. QED
        OBVIOUS
    <3>2. QED
      BY <2>1, <2>2, <3>1
  <2>4. Cardinality({l \in P : l < Positions(P)[r]}) = r - 1
    BY RankCounts
  <2>5. Cardinality({l \in Q : l < Positions(Q)[q]}) = q - 1
    BY RankCounts
  <2>6. q - 1 = r - 1
    BY <2>3, <2>4, <2>5, Zenon
  <2>7. q = r
    BY <1>1, <1>2, <2>6
  <2>8. QED
    BY <2>2, <2>7
<1>5. QED
  BY <1>3, <1>4

\* What is chosen from the first part of an array comes first.
LEMMA SublistOfPrefix ==
  ASSUME NEW S, NEW s \in Seq(S), NEW t \in Seq(S), NEW P \in SUBSET (1 .. Len(s)),
         NEW Q \in SUBSET (1 .. Len(s \o t)), P = Q \cap (1 .. Len(s))
  PROVE  /\ Len(Sublist(s, P)) <= Len(Sublist(s \o t, Q))
         /\ \A r \in 1 .. Len(Sublist(s, P)) : Sublist(s \o t, Q)[r] = Sublist(s, P)[r]
<1>1. /\ s \o t \in Seq(S) /\ Len(s) \in Nat /\ Len(s \o t) \in Nat /\ Len(s) <= Len(s \o t)
      /\ \A k \in 1 .. Len(s) : (s \o t)[k] = s[k]
  OBVIOUS
<1>2. /\ Cardinality(P) <= Cardinality(Q)
      /\ \A r \in 1 .. Cardinality(P) : Positions(Q)[r] = Positions(P)[r]
  BY <1>1, PositionsOfPrefix
<1>3. /\ Cardinality(P) \in Nat /\ \A r \in 1 .. Cardinality(P) : Positions(P)[r] \in P
  BY <1>1, PositionsAscend
<1>4. Cardinality(Q) \in Nat
  BY <1>1, PositionsAscend
<1>5. /\ Len(Sublist(s, P)) = Cardinality(P)
      /\ \A r \in 1 .. Cardinality(P) : Sublist(s, P)[r] = s[Positions(P)[r]]
  BY SublistType
<1>6. /\ Len(Sublist(s \o t, Q)) = Cardinality(Q)
      /\ \A r \in 1 .. Cardinality(Q) : Sublist(s \o t, Q)[r] = (s \o t)[Positions(Q)[r]]
  BY <1>1, SublistType
<1>7. ASSUME NEW r \in 1 .. Cardinality(P)
      PROVE  Sublist(s \o t, Q)[r] = Sublist(s, P)[r]
  <2>1. r \in 1 .. Cardinality(Q)
    BY <1>2, <1>3, <1>4
  <2>2. Positions(P)[r] \in 1 .. Len(s)
    BY <1>3
  <2>3. Positions(Q)[r] = Positions(P)[r]
    BY <1>2
  <2>4. (s \o t)[Positions(P)[r]] = s[Positions(P)[r]]
    BY <1>1, <2>2
  <2>5. QED
    BY <1>5, <1>6, <2>1, <2>3, <2>4
<1>8. QED
  BY <1>2, <1>5, <1>6, <1>7

\* What is chosen from an array without duplicates has none, and is no longer.
LEMMA SublistDistinct ==
  ASSUME NEW S, NEW s \in Seq(S), NEW P \in SUBSET (1 .. Len(s)),
         \A j, k \in 1 .. Len(s) : s[j] = s[k] => j = k
  PROVE  /\ Len(Sublist(s, P)) <= Len(s)
         /\ \A q, r \in 1 .. Len(Sublist(s, P)) : Sublist(s, P)[q] = Sublist(s, P)[r] => q = r
<1>0. Len(s) \in Nat
  OBVIOUS
<1>1. /\ Cardinality(P) \in Nat
      /\ \A r \in 1 .. Cardinality(P) : Positions(P)[r] \in P
      /\ \A q, r \in 1 .. Cardinality(P) : q < r => Positions(P)[q] < Positions(P)[r]
  BY <1>0, PositionsAscend
<1>2. /\ Len(Sublist(s, P)) = Cardinality(P)
      /\ \A r \in 1 .. Cardinality(P) : Sublist(s, P)[r] = s[Positions(P)[r]]
  BY SublistType
<1>3. Cardinality(P) <= Len(s)
  <2>1. IsFiniteSet(1 .. Len(s)) /\ Cardinality(1 .. Len(s)) = Len(s)
    BY <1>0, FS_Interval
  <2>2. P \in SUBSET (1 .. Len(s))
    OBVIOUS
  <2>3. Cardinality(P) <= Cardinality(1 .. Len(s))
    BY <2>1, <2>2, FS_Subset
  <2>4. QED
    BY <2>1, <2>3
<1>4. ASSUME NEW q \in 1 .. Cardinality(P), NEW r \in 1 .. Cardinality(P), q < r
      PROVE  Sublist(s, P)[q] # Sublist(s, P)[r]
  <2>1. Positions(P)[q] < Positions(P)[r]
    BY <1>1, <1>4
  <2>2. Positions(P)[q] \in 1 .. Len(s) /\ Positions(P)[r] \in 1 .. Len(s)
    BY <1>1
  <2>3. Positions(P)[q] # Positions(P)[r]
    BY <2>1, <2>2
  <2>4. QED
    BY <1>2, <2>2, <2>3
<1>5. \A q, r \in 1 .. Cardinality(P) : Sublist(s, P)[q] = Sublist(s, P)[r] => q = r
  <2> SUFFICES ASSUME NEW q \in 1 .. Cardinality(P), NEW r \in 1 .. Cardinality(P), q # r
               PROVE  Sublist(s, P)[q] # Sublist(s, P)[r]
    OBVIOUS
  <2>1. q < r \/ r < q
    BY <1>1
  <2>2. QED
    BY <1>4, <2>1
<1>6. QED
  BY <1>2, <1>3, <1>5

\* Comparing keys, and positions when the keys are equal, orders all positions.
ByKey(K, n) ==
  {e \in (1 .. n) \X (1 .. n) : K[e[1]] < K[e[2]] \/ (~ K[e[2]] < K[e[1]] /\ e[1] < e[2])}

LEMMA KeysOrder ==
  ASSUME NEW n \in Nat, NEW K \in [1 .. n -> Int]
  PROVE  Orders(ByKey(K, n), 1 .. n)
<1>1. \A j, k \in 1 .. n :
        <<j, k>> \in ByKey(K, n) <=> K[j] < K[k] \/ (~ K[k] < K[j] /\ j < k)
  BY DEF ByKey
<1>2. \A k \in 1 .. n : K[k] \in Int /\ k \in Int
  OBVIOUS
<1>3. QED
  BY <1>1, <1>2 DEF Orders

\* Arranging an array permutes it: each position is one of the array, and each of
\* the array comes at one rank.
LEMMA ArrangedPermutes ==
  ASSUME NEW S, NEW s \in Seq(S), NEW R, Orders(R, 1 .. Len(s))
  PROVE  /\ Arranged(s, R) \in Seq(S) /\ Len(Arranged(s, R)) = Len(s)
         /\ \A r \in 1 .. Len(s) : /\ Ranking(1 .. Len(s), R)[r] \in 1 .. Len(s)
                                   /\ Arranged(s, R)[r] = s[Ranking(1 .. Len(s), R)[r]]
         /\ \A k \in 1 .. Len(s) : \E r \in 1 .. Len(s) : Ranking(1 .. Len(s), R)[r] = k
         /\ \A q, r \in 1 .. Len(s) :
              q < r => <<Ranking(1 .. Len(s), R)[q], Ranking(1 .. Len(s), R)[r]>> \in R
<1> DEFINE n == Len(s)
           P == 1 .. n
<1>1. n \in Nat /\ Orders(R, P) /\ \A k \in 1 .. n : s[k] \in S
  OBVIOUS
<1>3. Arranged(s, R) = [r \in 1 .. n |-> s[Ranking(P, R)[r]]]
  BY DEF Arranged
<1> HIDE DEF n
<1>2. IsFiniteSet(P) /\ Cardinality(P) = n
  BY <1>1, FS_Interval
<1> HIDE DEF P
<1>4. /\ \A r \in 1 .. n : Ranking(P, R)[r] \in P
      /\ \A k \in P : \E r \in 1 .. n : Ranking(P, R)[r] = k
      /\ \A q, r \in 1 .. n : q < r => <<Ranking(P, R)[q], Ranking(P, R)[r]>> \in R
  BY <1>1, <1>2, RankingIsOrdered
<1>6. \A r \in 1 .. n : s[Ranking(P, R)[r]] \in S
  BY <1>1, <1>4 DEF P
<1>7. Arranged(s, R) \in Seq(S) /\ Len(Arranged(s, R)) = n
  BY <1>1, <1>3, <1>6
<1>8. QED
  BY <1>3, <1>4, <1>7 DEF n, P

\* Arranging changes no count: what an element is chosen by does not depend on
\* where it comes.
LEMMA ArrangedCounts ==
  ASSUME NEW S, NEW s \in Seq(S), NEW R, Orders(R, 1 .. Len(s)),
         NEW A \in SUBSET (1 .. Len(s)), NEW B \in SUBSET (1 .. Len(s)),
         \A r \in 1 .. Len(s) : r \in A <=> Ranking(1 .. Len(s), R)[r] \in B
  PROVE  Cardinality(A) = Cardinality(B)
<1> DEFINE f == [r \in A |-> Ranking(1 .. Len(s), R)[r]]
<1>1. /\ \A r \in 1 .. Len(s) : /\ Ranking(1 .. Len(s), R)[r] \in 1 .. Len(s)
                                /\ Arranged(s, R)[r] = s[Ranking(1 .. Len(s), R)[r]]
      /\ \A k \in 1 .. Len(s) : \E r \in 1 .. Len(s) : Ranking(1 .. Len(s), R)[r] = k
      /\ \A q, r \in 1 .. Len(s) :
           q < r => <<Ranking(1 .. Len(s), R)[q], Ranking(1 .. Len(s), R)[r]>> \in R
  BY ArrangedPermutes
<1>2. Len(s) \in Nat
  OBVIOUS
<1>4. \A q, r \in 1 .. Len(s) : Ranking(1 .. Len(s), R)[q] = Ranking(1 .. Len(s), R)[r] => q = r
  <2> SUFFICES ASSUME NEW q \in 1 .. Len(s), NEW r \in 1 .. Len(s), q < r
               PROVE  Ranking(1 .. Len(s), R)[q] # Ranking(1 .. Len(s), R)[r]
    BY <1>2
  <2>1. QED
    BY <1>1 DEF Orders
<1>6. f \in [A -> B]
  OBVIOUS
<1>7. \A q, r \in A : f[q] = f[r] => q = r
  BY <1>4
<1>8. \A k \in B : \E r \in A : f[r] = k
  BY <1>1
<1>9. f \in Bijection(A, B)
  BY <1>6, <1>7, <1>8 DEF Bijection, Injection, Surjection, IsInjective
<1>10. IsFiniteSet(A) /\ IsFiniteSet(B)
  <2>1. IsFiniteSet(1 .. Len(s))
    BY <1>2, FS_Interval
  <2>2. A \in SUBSET (1 .. Len(s)) /\ B \in SUBSET (1 .. Len(s))
    OBVIOUS
  <2>3. QED
    BY <2>1, <2>2, FS_Subset
<1>11. QED
  BY <1>9, <1>10, FS_Bijection DEF ExistsBijection

\* All of an array is the array.
LEMMA SublistOfAll ==
  ASSUME NEW S, NEW s \in Seq(S)
  PROVE  Sublist(s, 1 .. Len(s)) = s
<1> DEFINE P == 1 .. Len(s)
<1>1. Len(s) \in Nat /\ P \in SUBSET (1 .. Len(s))
  OBVIOUS
<1>2. Cardinality(P) = Len(s)
  BY <1>1, FS_Interval
<1>3. ASSUME NEW r \in 1 .. Len(s)
      PROVE  Positions(P)[r] = r
  <2>1. Positions(P)[r] \in 1 .. Len(s)
    BY <1>1, <1>2, PositionsAscend
  <2>2. Cardinality({l \in P : l < Positions(P)[r]}) = r - 1
    BY <1>1, <1>2, RankCounts
  <2> DEFINE k == Positions(P)[r]
  <2>3. {l \in P : l < k} = 1 .. (k - 1)
    BY <1>1, <2>1
  <2>4. Cardinality(1 .. (k - 1)) = k - 1
    BY <2>1, FS_Interval
  <2>5. k - 1 = r - 1
    BY <2>2, <2>3, <2>4
  <2> HIDE DEF k
  <2>6. k \in Int /\ r \in Int
    BY <1>1, <2>1 DEF k
  <2>7. QED
    BY <2>5, <2>6 DEF k
<1> HIDE DEF P
<1>4. /\ Sublist(s, P) \in Seq(S) /\ Len(Sublist(s, P)) = Len(s)
      /\ \A r \in 1 .. Len(s) : Sublist(s, P)[r] = s[r]
  BY <1>1, <1>2, <1>3, SublistType
<1>5. Sublist(s, P) = s
  BY <1>4
<1>6. QED
  BY <1>5 DEF P

\* An array that has the elements of two others, one behind the other.
LEMMA Joined ==
  ASSUME NEW S, NEW a \in Seq(S), NEW b \in Seq(S), NEW c \in Seq(S),
         Len(c) = Len(a) + Len(b),
         \A r \in 1 .. Len(a) : c[r] = a[r],
         \A r \in 1 .. Len(b) : c[Len(a) + r] = b[r]
  PROVE  a \o b = c
<1>1. Len(a) \in Nat /\ Len(b) \in Nat
  OBVIOUS
<1>2. a \o b \in Seq(S) /\ Len(a \o b) = Len(a) + Len(b)
  OBVIOUS
<1>3. ASSUME NEW i \in 1 .. Len(a) + Len(b)
      PROVE  (a \o b)[i] = c[i]
  <2>1. CASE i <= Len(a)
    BY <1>1, <2>1
  <2>2. CASE Len(a) < i
    <3>1. i - Len(a) \in 1 .. Len(b) /\ Len(a) + (i - Len(a)) = i
      BY <1>1, <2>2
    <3>2. (a \o b)[i] = b[i - Len(a)]
      BY <1>1, <2>2
    <3>3. c[Len(a) + (i - Len(a))] = b[i - Len(a)]
      BY <3>1
    <3>4. QED
      BY <3>1, <3>2, <3>3
  <2>3. QED
    BY <1>1, <2>1, <2>2
<1>4. QED
  BY <1>2, <1>3

\* What is chosen from two parts of an array, one behind the other.
LEMMA SublistJoins ==
  ASSUME NEW S, NEW s \in Seq(S), NEW P \in SUBSET (1 .. Len(s)), NEW Q \in SUBSET (1 .. Len(s)),
         \A p \in P, q \in Q : p < q
  PROVE  Sublist(s, P) \o Sublist(s, Q) = Sublist(s, P \cup Q)
<1> DEFINE U == P \cup Q
           m == Cardinality(P)
           n == Cardinality(Q)
<1>1. Len(s) \in Nat /\ U \in SUBSET (1 .. Len(s))
  OBVIOUS
<1>2. /\ m \in Nat /\ IsFiniteSet(P)
      /\ \A r \in 1 .. m : Positions(P)[r] \in P
  BY <1>1, PositionsAscend
<1>3. /\ n \in Nat /\ IsFiniteSet(Q)
      /\ \A r \in 1 .. n : Positions(Q)[r] \in Q
  BY <1>1, PositionsAscend
<1>4. /\ Cardinality(U) \in Nat
      /\ \A k \in U : \E r \in 1 .. Cardinality(U) : Positions(U)[r] = k
  BY <1>1, PositionsAscend
<1>d. \A p \in P, q \in Q : p \in Int /\ q \in Int /\ p < q
  BY <1>1
<1>i. \A k \in U : k \in Int
  BY <1>1
<1>5. P \cap Q = {}
  BY <1>d
<1>6. Cardinality(U) = m + n
  <2>1. Cardinality(P \cup Q) = m + n - Cardinality(P \cap Q)
    BY <1>2, <1>3, FS_Union
  <2>2. Cardinality(P \cap Q) = 0
    BY <1>5, FS_EmptySet
  <2>3. QED
    BY <1>2, <1>3, <2>1, <2>2
\* The rank of a position is one more than what stands before it.
<1>7. \A k \in U, i \in Nat : Cardinality({l \in U : l < k}) = i => Positions(U)[i + 1] = k
  <2> SUFFICES ASSUME NEW k \in U, NEW i \in Nat, Cardinality({l \in U : l < k}) = i
               PROVE  Positions(U)[i + 1] = k
    OBVIOUS
  <2>1. PICK r \in 1 .. Cardinality(U) : Positions(U)[r] = k
    BY <1>4
  <2>2. Cardinality({l \in U : l < Positions(U)[r]}) = r - 1
    BY <1>1, RankCounts
  <2>3. i = r - 1
    BY <2>1, <2>2
  <2>4. r = i + 1
    BY <1>4, <2>3
  <2>5. QED
    BY <2>1, <2>4
<1>8. ASSUME NEW r \in 1 .. m
      PROVE  Positions(U)[r] = Positions(P)[r]
  <2> DEFINE k == Positions(P)[r]
  <2>1. k \in P /\ k \in Int
    <3>1. k \in P
      BY <1>2
    <3>2. QED
      BY <1>i, <3>1
  <2>3. Cardinality({l \in P : l < k}) = r - 1
    BY <1>1, RankCounts
  <2> HIDE DEF k
  <2>2. {l \in U : l < k} = {l \in P : l < k}
    <3>1. \A l \in Q : ~ l < k
      BY <1>d, <2>1
    <3>2. QED
      BY <3>1
  <2>4. r - 1 \in Nat /\ r - 1 + 1 = r
    BY <1>2
  <2>5. Positions(U)[r - 1 + 1] = k
    BY <1>7, <2>1, <2>2, <2>3, <2>4
  <2>6. QED
    BY <2>4, <2>5 DEF k
<1>9. ASSUME NEW r \in 1 .. n
      PROVE  Positions(U)[m + r] = Positions(Q)[r]
  <2> DEFINE k == Positions(Q)[r]
             B == {l \in Q : l < k}
  <2>1. k \in Q /\ k \in Int
    <3>1. k \in Q
      BY <1>3
    <3>2. QED
      BY <1>i, <3>1
  <2>2. {l \in U : l < k} = P \cup B
    BY <1>d, <2>1
  <2>3. Cardinality(B) = r - 1
    BY <1>1, RankCounts
  <2>4. IsFiniteSet(B) /\ P \cap B = {}
    BY <1>3, <1>5, FS_Subset
  <2> HIDE DEF k, B
  <2>5. Cardinality(P \cup B) = m + (r - 1)
    <3>1. Cardinality(P \cup B) = Cardinality(P) + Cardinality(B) - Cardinality(P \cap B)
      BY <1>2, <2>4, FS_Union
    <3>2. Cardinality(P \cap B) = 0
      BY <2>4, FS_EmptySet
    <3>3. QED
      BY <1>2, <1>3, <2>3, <3>1, <3>2
  <2>6. m + (r - 1) \in Nat /\ m + (r - 1) + 1 = m + r
    BY <1>2, <1>3
  <2>7. Positions(U)[m + (r - 1) + 1] = k
    BY <1>7, <2>1, <2>2, <2>5, <2>6
  <2>8. QED
    BY <2>6, <2>7 DEF k
<1>10. /\ Sublist(s, P) \in Seq(S) /\ Len(Sublist(s, P)) = m
       /\ \A r \in 1 .. m : Sublist(s, P)[r] = s[Positions(P)[r]]
  BY SublistType
<1>11. /\ Sublist(s, Q) \in Seq(S) /\ Len(Sublist(s, Q)) = n
       /\ \A r \in 1 .. n : Sublist(s, Q)[r] = s[Positions(Q)[r]]
  BY SublistType
<1>a. /\ Sublist(s, U) \in Seq(S) /\ Len(Sublist(s, U)) = Cardinality(U)
      /\ \A r \in 1 .. Cardinality(U) : Sublist(s, U)[r] = s[Positions(U)[r]]
  BY <1>1, SublistType
<1> DEFINE a == Sublist(s, P)
           b == Sublist(s, Q)
           c == Sublist(s, U)
<1> HIDE DEF U, m, n
<1>12. \A r \in 1 .. m + n : Sublist(s, U)[r] = s[Positions(U)[r]]
  BY <1>6, <1>a
<1>13. \A r \in 1 .. m : c[r] = a[r]
  BY <1>2, <1>3, <1>8, <1>10, <1>12
<1>14. \A r \in 1 .. n : c[m + r] = b[r]
  <2> SUFFICES ASSUME NEW r \in 1 .. n
               PROVE  c[m + r] = b[r]
    OBVIOUS
  <2>1. m + r \in 1 .. m + n
    BY <1>2, <1>3
  <2>2. c[m + r] = s[Positions(U)[m + r]]
    BY <1>12, <2>1
  <2>3. QED
    BY <1>9, <1>11, <2>2
<1>15. a \in Seq(S) /\ b \in Seq(S) /\ c \in Seq(S) /\ Len(a) = m /\ Len(b) = n /\ Len(c) = m + n
  BY <1>6, <1>10, <1>11, <1>a
<1> HIDE DEF a, b, c
<1>16. a \o b = c
  BY <1>13, <1>14, <1>15, Joined
<1>17. QED
  BY <1>16 DEF a, b, c, U

\* Positions of two sets without a common one are counted separately.
LEMMA CountsAdd ==
  ASSUME NEW n \in Nat, NEW A \in SUBSET (1 .. n), NEW B \in SUBSET (1 .. n), A \cap B = {}
  PROVE  /\ Cardinality(A) \in Nat /\ Cardinality(B) \in Nat
         /\ Cardinality(A \cup B) = Cardinality(A) + Cardinality(B)
<1>1. /\ IsFiniteSet(A) /\ Cardinality(A) \in Nat
      /\ IsFiniteSet(B) /\ Cardinality(B) \in Nat
  BY PositionsAscend
<1>2. Cardinality(A \cup B) = Cardinality(A) + Cardinality(B) - Cardinality(A \cap B)
  BY <1>1, FS_Union
<1>3. Cardinality(A \cap B) = 0
  BY FS_EmptySet
<1>4. QED
  BY <1>1, <1>2, <1>3
=============================================================================
