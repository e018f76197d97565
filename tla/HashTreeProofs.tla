--------------------------- MODULE HashTreeProofs ---------------------------
(***************************************************************************)
(* What hash trees are for every sequence of hashes: their shape, that     *)
(* they tell apart what they are made from, and that the order of these    *)
(* does not count.                                                         *)
(***************************************************************************)
EXTENDS HashTree, FiniteSetTheorems, SequenceTheorems, Recursion

\* The hashes of strings, which is what the leaves are.
Leaf == { <<k>> : k \in Nat }

-----------------------------------------------------------------------------
(* The loop that doubles.                                                  *)

\* The count of leaves is one, and twice as much at each turn.
LEMMA LeafCountIs ==
  /\ LeafCount \in [Nat -> Nat]
  /\ LeafCount[0] = 1
  /\ \A i \in Nat : LeafCount[i + 1] = 2 * LeafCount[i]
<1> DEFINE twice == [p \in Nat \X Nat |-> 2 * p[2]]
           def(f) == [turns \in Nat |-> IF turns = 0 THEN 1 ELSE 2 * f[turns - 1]]
           one == 1
<1>1. twice \in [Nat \X Nat -> Nat] /\ one \in Nat
  OBVIOUS
<1>2. PICK f \in [Nat -> Nat] :
        /\ f[0] = one
        /\ \A i \in Nat \ {0} : f[i] = twice[<<i, f[i - 1]>>]
  <2> DEFINE N == Nat
  <2>1. twice \in [Nat \X N -> N] /\ one \in N
    BY <1>1
  <2> HIDE DEF one, twice, N
  <2>2. PICK f : IsEndlessRunOf(f, N, one, twice)
    BY <2>1, EndlessRunExists
  <2> QED BY <2>2 DEF N, IsEndlessRunOf
<1>3. ASSUME NEW i \in Nat PROVE f[i] = def(f)[i]
  <2>1. CASE i = 0
    BY <1>2, <2>1
  <2>2. CASE i # 0
    <3>1. i - 1 \in Nat /\ f[i - 1] \in Nat
      BY <1>2, <2>2
    <3>2. f[i] = 2 * f[i - 1]
      BY <1>2, <2>2, <3>1
    <3> QED BY <2>2, <3>2
  <2> QED BY <2>1, <2>2
<1>4. f = def(f)
  BY <1>2, <1>3
<1>5. LeafCount = CHOOSE h : h = def(h)
  BY DEF LeafCount
<1>6. LeafCount = def(LeafCount)
  <2> HIDE DEF def
  <2> QED BY <1>4, <1>5
<1>7. /\ LeafCount[0] = 1
      /\ \A i \in Nat \ {0} : LeafCount[i] = 2 * LeafCount[i - 1]
      /\ LeafCount = [i \in Nat |-> LeafCount[i]]
  <2> HIDE DEF def
  <2>1. \A h, i : i \in Nat => def(h)[i] = IF i = 0 THEN 1 ELSE 2 * h[i - 1]
    BY DEF def
  <2>2. \A h : def(h) = [i \in Nat |-> def(h)[i]]
    BY DEF def
  <2> QED BY <1>6, <2>1, <2>2
<1> DEFINE H == { i \in Nat : LeafCount[i] \in Nat }
<1>8. ASSUME NEW n \in Nat PROVE LeafCount[n] \in Nat
  <2>1. 0 \in H
    BY <1>7
  <2>2. ASSUME NEW i \in 1 .. n, i - 1 \in H
        PROVE  i \in H
    <3>1. i \in Nat \ {0} /\ LeafCount[i - 1] \in Nat
      BY <2>2
    <3>2. LeafCount[i] = 2 * LeafCount[i - 1]
      BY <1>7, <3>1
    <3> QED BY <3>1, <3>2
  <2> HIDE DEF H
  <2>3. \A i \in 0 .. n : i \in H
    BY <2>1, <2>2, UpTo
  <2> QED BY <2>3 DEF H
<1>9. ASSUME NEW i \in Nat PROVE LeafCount[i + 1] = 2 * LeafCount[i]
  <2>1. i + 1 \in Nat \ {0} /\ (i + 1) - 1 = i
    OBVIOUS
  <2> QED BY <1>7, <2>1
<1> QED BY <1>7, <1>8, <1>9

\* The leaves are always more than the turns.
LEMMA LeafCountGrows ==
  ASSUME NEW n \in Nat
  PROVE  LeafCount[n] > n
<1> DEFINE H == { i \in Nat : LeafCount[i] > i }
<1>1. 0 \in H
  BY LeafCountIs
<1>2. ASSUME NEW i \in 1 .. n, i - 1 \in H
      PROVE  i \in H
  <2> DEFINE k == i - 1
  <2>1. k \in Nat /\ i = k + 1 /\ LeafCount[k] > k
    BY <1>2
  <2>2. LeafCount[k] \in Nat /\ LeafCount[i] = 2 * LeafCount[k]
    BY <2>1, LeafCountIs
  <2>3. LeafCount[i] > i
    <3> HIDE DEF k
    <3> QED BY <2>1, <2>2
  <2> QED BY <2>1, <2>3
<1> HIDE DEF H
<1>3. n \in H
  <2>1. \A i \in 0 .. n : i \in H
    BY <1>1, <1>2, UpTo
  <2> QED BY <2>1
<1> QED BY <1>3 DEF H

\* The loop ends, with as many leaves as it takes and no more.
LEMMA DepthIs ==
  ASSUME NEW n \in Nat
  PROVE  /\ TreeDepth(n) \in 0 .. n
         /\ n <= LeafCount[TreeDepth(n)]
         /\ \A k \in 0 .. TreeDepth(n) - 1 : n > LeafCount[k]
<1> DEFINE T == { i \in 0 .. n : n <= LeafCount[i] }
<1>1. n \in T
  BY LeafCountGrows, LeafCountIs
<1>2. PICK i \in T : \A j \in T : i <= j
  <2>1. T \in SUBSET Nat /\ T # {}
    BY <1>1
  <2> HIDE DEF T
  <2> QED BY <2>1, LeastNat
<1>3. ASSUME NEW k \in 0 .. i - 1 PROVE n > LeafCount[k]
  <2>1. k \in 0 .. n /\ ~(i <= k) /\ k \in Nat
    OBVIOUS
  <2>2. k \notin T
    BY <1>2, <2>1
  <2> QED BY <2>1, <2>2, LeafCountIs
<1>4. \E d \in 0 .. n : n <= LeafCount[d] /\ \A k \in 0 .. d - 1 : n > LeafCount[k]
  BY <1>3
<1> QED BY <1>4 DEF TreeDepth

-----------------------------------------------------------------------------
(* The sort.                                                               *)

\* The hashes that come before the i-th.
Before(hashes, i) ==
  { k \in 1 .. Len(hashes) : \/ hashes[k][1] < hashes[i][1]
                             \/ hashes[k][1] = hashes[i][1] /\ k < i }

LEMMA LeafKeys ==
  ASSUME NEW hashes \in Seq(Leaf)
  PROVE  /\ Len(hashes) \in Nat
         /\ DOMAIN hashes = 1 .. Len(hashes)
         /\ \A i \in 1 .. Len(hashes) : hashes[i] \in Leaf /\ hashes[i][1] \in Nat
<1>1. \A i \in 1 .. Len(hashes) : hashes[i] \in Leaf
  BY ElementOfSeq
<1>2. \A h \in Leaf : h[1] \in Nat
  BY DEF Leaf
<1> QED BY <1>1, <1>2, LenProperties

\* The i-th hash has a place among as many as there are, one more than hashes
\* come before it.
LEMMA PlaceType ==
  ASSUME NEW hashes \in Seq(Leaf), NEW i \in 1 .. Len(hashes)
  PROVE  /\ PlaceOf(hashes, i) \in 1 .. Len(hashes)
         /\ IsFiniteSet(Before(hashes, i))
         /\ PlaceOf(hashes, i) = 1 + Cardinality(Before(hashes, i))
<1> DEFINE n == Len(hashes)
           others == (1 .. n) \ {i}
<1>1. n \in Nat /\ i \in 1 .. n
  BY LeafKeys
<1>2. IsFiniteSet(1 .. n) /\ Cardinality(1 .. n) = n
  <2> HIDE DEF n
  <2> QED BY <1>1, FS_Interval
<1>3. IsFiniteSet(others) /\ Cardinality(others) = n - 1
  <2> HIDE DEF n
  <2> QED BY <1>1, <1>2, FS_RemoveElement
<1>4. Before(hashes, i) \in SUBSET others
  BY LeafKeys DEF Before
<1>5. /\ IsFiniteSet(Before(hashes, i))
      /\ Cardinality(Before(hashes, i)) <= n - 1
      /\ Cardinality(Before(hashes, i)) \in Nat
  <2> HIDE DEF others
  <2> QED BY <1>3, <1>4, FS_Subset, FS_CardinalityType
<1>6. PlaceOf(hashes, i) = 1 + Cardinality(Before(hashes, i))
  BY LeafKeys DEF PlaceOf, Before
<1> HIDE DEF n
<1>7. PlaceOf(hashes, i) \in 1 .. n
  BY <1>1, <1>5, <1>6
<1> QED BY <1>5, <1>6, <1>7 DEF n

\* What comes before another has a smaller place.
LEMMA PlacesInOrder ==
  ASSUME NEW hashes \in Seq(Leaf), NEW i \in 1 .. Len(hashes),
         NEW k \in Before(hashes, i)
  PROVE  PlaceOf(hashes, k) < PlaceOf(hashes, i)
<1>1. k \in 1 .. Len(hashes)
  BY DEF Before
<1>2. /\ Before(hashes, k) \subseteq Before(hashes, i)
      /\ k \notin Before(hashes, k)
  BY <1>1, LeafKeys DEF Before
<1> DEFINE S == Before(hashes, k)
           T == Before(hashes, i)
<1>3. /\ IsFiniteSet(S) /\ PlaceOf(hashes, k) = 1 + Cardinality(S)
      /\ IsFiniteSet(T) /\ PlaceOf(hashes, i) = 1 + Cardinality(T)
  BY <1>1, PlaceType
<1>4. S \in SUBSET T /\ S # T
  BY <1>2
<1> HIDE DEF S, T
<1>5. /\ Cardinality(S) \in Nat /\ Cardinality(T) \in Nat
      /\ Cardinality(S) <= Cardinality(T) /\ Cardinality(S) # Cardinality(T)
  BY <1>3, <1>4, FS_Subset, FS_CardinalityType
<1> QED BY <1>3, <1>5

\* No two hashes have one place, and every place is taken.
LEMMA PlacesAreTaken ==
  ASSUME NEW hashes \in Seq(Leaf)
  PROVE  /\ \A i, k \in 1 .. Len(hashes) :
              PlaceOf(hashes, i) = PlaceOf(hashes, k) => i = k
         /\ \A j \in 1 .. Len(hashes) :
              \E i \in 1 .. Len(hashes) : PlaceOf(hashes, i) = j
<1> DEFINE n == Len(hashes)
           place == [i \in 1 .. n |-> PlaceOf(hashes, i)]
<1>1. ASSUME NEW i \in 1 .. n, NEW k \in 1 .. n, i # k
      PROVE  PlaceOf(hashes, i) # PlaceOf(hashes, k)
  <2>1. i \in Before(hashes, k) \/ k \in Before(hashes, i)
    BY <1>1, LeafKeys DEF Before
  <2>2. /\ PlaceOf(hashes, i) \in 1 .. n /\ PlaceOf(hashes, k) \in 1 .. n
        /\ n \in Nat
    BY PlaceType, LeafKeys
  <2>3. \/ PlaceOf(hashes, i) < PlaceOf(hashes, k)
        \/ PlaceOf(hashes, k) < PlaceOf(hashes, i)
    BY <2>1, PlacesInOrder
  <2> HIDE DEF n
  <2> QED BY <2>2, <2>3
<1>2. place \in [1 .. n -> 1 .. n]
  BY PlaceType
<1>3. place \in Injection(1 .. n, 1 .. n)
  BY <1>1, <1>2 DEF Injection, IsInjective
<1>4. IsFiniteSet(1 .. n)
  <2>1. n \in Nat
    BY LeafKeys
  <2> HIDE DEF n
  <2> QED BY <2>1, FS_Interval
<1>5. place \in Surjection(1 .. n, 1 .. n)
  <2> HIDE DEF place, n
  <2> QED BY <1>3, <1>4, FS_Injection
<1>6. \A j \in 1 .. n : \E i \in 1 .. n : place[i] = j
  <2> HIDE DEF place, n
  <2> QED BY <1>5 DEF Surjection
<1> QED BY <1>1, <1>6

\* Sorting moves every hash to its place.
LEMMA SortedMoves ==
  ASSUME NEW hashes \in Seq(Leaf)
  PROVE  /\ Sorted(hashes) \in Seq(Leaf)
         /\ Len(Sorted(hashes)) = Len(hashes)
         /\ \A i \in 1 .. Len(hashes) : Sorted(hashes)[PlaceOf(hashes, i)] = hashes[i]
<1> DEFINE n == Len(hashes)
           who(j) == CHOOSE i \in DOMAIN hashes : PlaceOf(hashes, i) = j
<1>1. n \in Nat /\ DOMAIN hashes = 1 .. n
  BY LeafKeys
<1>2. ASSUME NEW j \in 1 .. n
      PROVE  who(j) \in 1 .. n /\ PlaceOf(hashes, who(j)) = j
  BY <1>1, PlacesAreTaken
<1>3. Sorted(hashes) = [j \in 1 .. n |-> hashes[who(j)]]
  BY <1>1 DEF Sorted
<1>4. ASSUME NEW i \in 1 .. n
      PROVE  PlaceOf(hashes, i) \in 1 .. n /\ who(PlaceOf(hashes, i)) = i
  <2>1. PlaceOf(hashes, i) \in 1 .. n
    BY PlaceType
  <2> QED BY <1>2, <2>1, PlacesAreTaken
<1> HIDE DEF who
<1>5. \A j \in 1 .. n : Sorted(hashes)[j] \in Leaf
  BY <1>2, <1>3, LeafKeys
<1>6. Sorted(hashes) \in Seq(Leaf)
  <2>1. Sorted(hashes) \in [1 .. n -> Leaf]
    BY <1>3, <1>5
  <2> HIDE DEF n
  <2> QED BY <1>1, <2>1, IsASeq
<1>7. Len(Sorted(hashes)) = n
  <2>1. DOMAIN Sorted(hashes) = 1 .. n
    BY <1>3
  <2> HIDE DEF n
  <2> QED BY <1>1, <1>6, <2>1, LenProperties
<1>8. \A i \in 1 .. n : Sorted(hashes)[PlaceOf(hashes, i)] = hashes[i]
  BY <1>3, <1>4
<1> QED BY <1>6, <1>7, <1>8

\* It neither loses nor adds any, and puts none before a smaller one.
LEMMA SortedIs ==
  ASSUME NEW hashes \in Seq(Leaf)
  PROVE  /\ Range(Sorted(hashes)) = Range(hashes)
         /\ \A i, j \in 1 .. Len(hashes) :
              i < j => Sorted(hashes)[i][1] <= Sorted(hashes)[j][1]
<1> DEFINE n == Len(hashes)
<1>1. /\ n \in Nat /\ DOMAIN hashes = 1 .. n
      /\ DOMAIN Sorted(hashes) = 1 .. n
  BY LeafKeys, SortedMoves
<1>2. /\ \A i \in 1 .. n : PlaceOf(hashes, i) \in 1 .. n
      /\ \A i \in 1 .. n : Sorted(hashes)[PlaceOf(hashes, i)] = hashes[i]
      /\ \A j \in 1 .. n : \E i \in 1 .. n : PlaceOf(hashes, i) = j
  BY PlaceType, SortedMoves, PlacesAreTaken
<1>3. Range(Sorted(hashes)) = Range(hashes)
  BY <1>1, <1>2 DEF Range
<1>4. ASSUME NEW i \in 1 .. n, NEW j \in 1 .. n, i < j
      PROVE  Sorted(hashes)[i][1] <= Sorted(hashes)[j][1]
  <2>1. PICK g \in 1 .. n : PlaceOf(hashes, g) = i
    BY <1>2
  <2>2. PICK h \in 1 .. n : PlaceOf(hashes, h) = j
    BY <1>2
  <2>3. h \notin Before(hashes, g)
    <3>1. ~(PlaceOf(hashes, h) < PlaceOf(hashes, g))
      BY <1>4, <2>1, <2>2
    <3> QED BY <3>1, PlacesInOrder
  <2>4. hashes[g][1] <= hashes[h][1]
    BY <2>3, LeafKeys DEF Before
  <2> QED BY <1>2, <2>1, <2>2, <2>4
<1> QED BY <1>3, <1>4

-----------------------------------------------------------------------------
(* The levels.                                                             *)

\* A level above another has half as many nodes, rounded up.
LEMMA LevelAboveIs ==
  ASSUME NEW S, NEW level \in Seq(S)
  PROVE  /\ LevelAbove(level) \in Seq(S \X S)
         /\ Len(LevelAbove(level)) = (Len(level) + 1) \div 2
<1> DEFINE n == Len(level)
           m == (n + 1) \div 2
<1>1. n \in Nat
  BY LenProperties
<1>2. m \in Nat /\ 2 * m >= n /\ 2 * m <= n + 1
  <2> HIDE DEF n
  <2> QED BY <1>1
<1>3. ASSUME NEW j \in 1 .. m
      PROVE  LevelAbove(level)[j] \in S \X S
  <2> DEFINE right == IF 2 * j <= n THEN 2 * j ELSE 2 * j - 1
  <2>1. 2 * j - 1 \in 1 .. n /\ right \in 1 .. n
    <3> HIDE DEF n, m
    <3> QED BY <1>1, <1>2
  <2>2. level[2 * j - 1] \in S /\ level[right] \in S
    BY <2>1, ElementOfSeq
  <2>3. LevelAbove(level)[j] = <<level[2 * j - 1], level[right]>>
    BY DEF LevelAbove
  <2> HIDE DEF right, n, m
  <2> QED BY <2>2, <2>3
<1>4. LevelAbove(level) = [j \in 1 .. m |-> LevelAbove(level)[j]]
  BY DEF LevelAbove
<1> HIDE DEF m
<1>5. LevelAbove(level) \in [1 .. m -> S \X S]
  BY <1>3, <1>4
<1>6. LevelAbove(level) \in Seq(S \X S)
  BY <1>2, <1>5, IsASeq
<1>7. Len(LevelAbove(level)) = m
  BY <1>2, <1>5, <1>6, LenProperties
<1> QED BY <1>6, <1>7 DEF m

\* No node below is left out, and none is made up.
LEMMA LevelAboveKeeps ==
  ASSUME NEW S, NEW level \in Seq(S)
  PROVE  Range(level) = UNION { {p[1], p[2]} : p \in Range(LevelAbove(level)) }
<1> DEFINE n == Len(level)
           m == (n + 1) \div 2
           left(j) == 2 * j - 1
           right(j) == IF 2 * j <= n THEN 2 * j ELSE 2 * j - 1
           above == LevelAbove(level)
<1>1. n \in Nat /\ DOMAIN level = 1 .. n
  BY LenProperties
<1>2. m \in Nat /\ 2 * m >= n /\ 2 * m <= n + 1
  <2> HIDE DEF n
  <2> QED BY <1>1
<1>3. DOMAIN above = 1 .. m /\ \A j \in 1 .. m : above[j] = <<level[left(j)], level[right(j)]>>
  BY DEF LevelAbove
<1>4. \A j \in 1 .. m : left(j) \in 1 .. n /\ right(j) \in 1 .. n
  <2> HIDE DEF n, m
  <2> QED BY <1>1, <1>2
<1>5. \A i \in 1 .. n : \E j \in 1 .. m : i = left(j) \/ i = right(j)
  <2> SUFFICES ASSUME NEW i \in 1 .. n
               PROVE  \E j \in 1 .. m : i = left(j) \/ i = right(j)
    OBVIOUS
  <2> DEFINE j == (i + 1) \div 2
  <2>1. j \in 1 .. m /\ (i = 2 * j - 1 \/ i = 2 * j)
    <3> HIDE DEF n
    <3>1. i \in Nat /\ i >= 1 /\ i <= n
      BY <1>1
    <3>2. j \in Nat /\ (i = 2 * j - 1 \/ i = 2 * j)
      BY <3>1
    <3> HIDE DEF j, m
    <3> QED BY <1>1, <1>2, <3>1, <3>2
  <2>2. i = left(j) \/ i = right(j)
    <3>1. i = 2 * j => 2 * j <= n
      <4> HIDE DEF n, j, m
      <4> QED BY <1>1
    <3> HIDE DEF j, n, m
    <3> QED BY <2>1, <3>1
  <2> HIDE DEF j, left, right
  <2> QED BY <2>1, <2>2
<1> HIDE DEF n, m, left, right, above
<1>6. Range(level) = { level[i] : i \in 1 .. n }
  BY <1>1 DEF Range
<1>7. Range(above) = { above[j] : j \in 1 .. m }
  BY <1>3 DEF Range
<1>8. \A j \in 1 .. m : above[j][1] = level[left(j)] /\ above[j][2] = level[right(j)]
  BY <1>3
<1>9. ASSUME NEW h \in Range(level)
      PROVE  \E p \in Range(above) : h \in {p[1], p[2]}
  <2>1. PICK i \in 1 .. n : h = level[i]
    BY <1>6
  <2>2. PICK j \in 1 .. m : i = left(j) \/ i = right(j)
    BY <1>5
  <2>3. above[j] \in Range(above) /\ h \in {above[j][1], above[j][2]}
    BY <1>7, <1>8, <2>1, <2>2
  <2> QED BY <2>3
<1>10. ASSUME NEW p \in Range(above)
       PROVE  p[1] \in Range(level) /\ p[2] \in Range(level)
  <2>1. PICK j \in 1 .. m : p = above[j]
    BY <1>7
  <2> QED BY <1>4, <1>6, <1>8, <2>1
<1>11. Range(level) = UNION { {p[1], p[2]} : p \in Range(above) }
  BY <1>9, <1>10
<1> QED BY <1>11 DEF above

\* n levels above a first one.
AreLevels(f, first, n) ==
  f = [i \in 0 .. n |-> IF i = 0 THEN first ELSE LevelAbove(f[i - 1])]

LEMMA LevelsExist ==
  ASSUME NEW n \in Nat, NEW first
  PROVE  \E f : AreLevels(f, first, n)
<1> DEFINE H == { i \in 0 .. n : \E f : AreLevels(f, first, i) }
<1>1. 0 \in H
  <2> DEFINE f == [i \in 0 .. 0 |-> first]
  <2>1. f = [i \in 0 .. 0 |-> IF i = 0 THEN first ELSE LevelAbove(f[i - 1])]
    OBVIOUS
  <2> HIDE DEF f
  <2>2. AreLevels(f, first, 0)
    BY <2>1 DEF AreLevels
  <2> QED BY <2>2
<1>2. ASSUME NEW i \in 1 .. n, i - 1 \in H
      PROVE  i \in H
  <2> DEFINE k == i - 1
  <2>1. PICK f : AreLevels(f, first, k)
    BY <1>2
  <2> DEFINE h == [j \in 0 .. i |-> IF j = i THEN LevelAbove(f[k]) ELSE f[j]]
  <2>2. k \in Nat /\ i = k + 1 /\ i # 0 /\ i \in Nat
    OBVIOUS
  <2>3. ASSUME NEW j \in 0 .. i
        PROVE  h[j] = IF j = 0 THEN first ELSE LevelAbove(h[j - 1])
    <3>1. CASE j = i
      <4>1. h[j - 1] = f[k] /\ h[j] = LevelAbove(f[k])
        BY <2>2, <3>1
      <4> HIDE DEF h, k
      <4> QED BY <2>2, <3>1, <4>1
    <3>2. CASE j # i
      <4>1. j \in 0 .. k /\ h[j] = f[j]
        BY <2>2, <3>2
      <4>2. f[j] = IF j = 0 THEN first ELSE LevelAbove(f[j - 1])
        BY <2>1, <4>1 DEF AreLevels
      <4>3. j # 0 => h[j - 1] = f[j - 1]
        BY <2>2, <3>2
      <4> HIDE DEF h
      <4> QED BY <4>1, <4>2, <4>3
    <3> QED BY <3>1, <3>2
  <2>4. h = [j \in 0 .. i |-> h[j]]
    OBVIOUS
  <2> HIDE DEF h
  <2>5. AreLevels(h, first, i)
    BY <2>3, <2>4 DEF AreLevels
  <2> QED BY <2>5
<1> HIDE DEF H
<1>3. \A i \in 0 .. n : i \in H
  BY <1>1, <1>2, UpTo
<1> QED BY <1>3 DEF H

\* A tree has the sorted hashes below, each level above the one before, and as
\* many of these as the loop turns.
LEMMA TreeLevels ==
  ASSUME NEW hashes \in Seq(Leaf), hashes # <<>>, NEW d, d = TreeDepth(Len(hashes))
  PROVE  /\ d \in Nat
         /\ DOMAIN MakeHashTree(hashes) = 1 .. d + 1
         /\ Len(MakeHashTree(hashes)) = d + 1
         /\ MakeHashTree(hashes)[1] = Sorted(hashes)
         /\ \A i \in 1 .. d :
              MakeHashTree(hashes)[i + 1] = LevelAbove(MakeHashTree(hashes)[i])
<1>1. d \in Nat
  BY LeafKeys, DepthIs
<1> DEFINE c == CHOOSE f : f = [i \in 0 .. TreeDepth(Len(hashes)) |->
                    IF i = 0 THEN Sorted(hashes) ELSE LevelAbove(f[i - 1])]
<1>2. AreLevels(c, Sorted(hashes), d)
  <2>1. \E f : AreLevels(f, Sorted(hashes), d)
    BY <1>1, LevelsExist
  <2> QED BY <2>1 DEF AreLevels
<1>3. MakeHashTree(hashes) = [i \in 1 .. d + 1 |-> c[i - 1]]
  BY DEF MakeHashTree
<1> HIDE DEF c
<1>4. \A i \in 0 .. d : c[i] = IF i = 0 THEN Sorted(hashes) ELSE LevelAbove(c[i - 1])
  BY <1>2 DEF AreLevels
<1>5. DOMAIN MakeHashTree(hashes) = 1 .. d + 1 /\ Len(MakeHashTree(hashes)) = d + 1
  BY <1>1, <1>3
<1>6. MakeHashTree(hashes)[1] = Sorted(hashes)
  <2>1. MakeHashTree(hashes)[1] = c[0] /\ 0 \in 0 .. d
    BY <1>1, <1>3
  <2> QED BY <1>4, <2>1
<1>7. ASSUME NEW i \in 1 .. d
      PROVE  MakeHashTree(hashes)[i + 1] = LevelAbove(MakeHashTree(hashes)[i])
  <2>1. MakeHashTree(hashes)[i + 1] = c[i] /\ MakeHashTree(hashes)[i] = c[i - 1]
    BY <1>1, <1>3
  <2>2. i \in 0 .. d /\ i # 0
    BY <1>1
  <2> QED BY <1>4, <2>1, <2>2
<1> QED BY <1>1, <1>5, <1>6, <1>7

\* A level of nodes of some kind.
IsLevel(level) == \E S : level \in Seq(S)

\* Every level of a tree is one.
LEMMA TreeOfLevels ==
  ASSUME NEW hashes \in Seq(Leaf), hashes # <<>>, NEW i \in DOMAIN MakeHashTree(hashes)
  PROVE  IsLevel(MakeHashTree(hashes)[i])
<1> DEFINE d == TreeDepth(Len(hashes))
           tree == MakeHashTree(hashes)
           H == { k \in 0 .. d : IsLevel(tree[k + 1]) }
<1>1. d \in Nat /\ i \in 1 .. d + 1
  BY TreeLevels
<1>2. tree[1] = Sorted(hashes) /\ \A k \in 1 .. d : tree[k + 1] = LevelAbove(tree[k])
  BY TreeLevels
<1> HIDE DEF d, tree
<1>3. 0 \in H
  BY <1>1, <1>2, SortedMoves DEF IsLevel
<1>4. ASSUME NEW k \in 1 .. d, k - 1 \in H
      PROVE  k \in H
  <2>1. PICK S : tree[k] \in Seq(S)
    <3>1. (k - 1) + 1 = k
      BY <1>1
    <3> QED BY <1>4, <3>1 DEF IsLevel
  <2>2. tree[k + 1] \in Seq(S \X S)
    BY <1>2, <2>1, LevelAboveIs
  <2> QED BY <1>1, <2>2 DEF IsLevel
<1> HIDE DEF H
<1>5. \A k \in 0 .. d : k \in H
  BY <1>1, <1>3, <1>4, UpTo
<1>6. i - 1 \in 0 .. d /\ (i - 1) + 1 = i
  BY <1>1
<1>7. IsLevel(tree[i])
  BY <1>5, <1>6 DEF H
<1> QED BY <1>7 DEF tree

-----------------------------------------------------------------------------
(* The shape.                                                              *)

\* Half of the nodes, rounded up, with twice the leaves under each.
LEMMA Halving ==
  ASSUME NEW p \in Nat, NEW l \in Nat, NEW n \in Nat, p * l \in n .. n + p - 1
  PROVE  2 * p * ((l + 1) \div 2) \in n .. n + 2 * p - 1
<1> DEFINE k == (l + 1) \div 2
           q == p * k
<1>1. k \in Nat /\ (l = 2 * k \/ l = 2 * k - 1)
  OBVIOUS
<1>2. q \in Nat /\ 2 * p * k = 2 * q
  <2> HIDE DEF k
  <2> QED BY <1>1
<1>3. p * l = 2 * q \/ p * l = 2 * q - p
  <2> HIDE DEF k
  <2>1. p * (2 * k) = 2 * q
    BY <1>1
  <2>2. p * (2 * k - 1) = 2 * q - p
    BY <1>1
  <2> QED BY <1>1, <2>1, <2>2
<1> DEFINE r == p * l
<1>4. r \in n .. n + p - 1 /\ (r = 2 * q \/ r = 2 * q - p)
  BY <1>3
<1>5. 2 * q \in n .. n + 2 * p - 1
  <2> HIDE DEF q, r, k
  <2> QED BY <1>2, <1>4
<1> HIDE DEF k, q
<1>6. 2 * p * k \in n .. n + 2 * p - 1
  BY <1>2, <1>5
<1> QED BY <1>6 DEF k

\* One node at the top of a tree, and half as many on each level as below.
LEMMA ShapeOfTree ==
  ASSUME NEW hashes \in Seq(Leaf), hashes # <<>>, NEW tree, tree = MakeHashTree(hashes)
  PROVE  /\ Len(tree[Len(tree)]) = 1
         /\ \A i \in DOMAIN tree :
              LeafCount[i - 1] * Len(tree[i])
                \in Len(hashes) .. Len(hashes) + LeafCount[i - 1] - 1
<1> DEFINE n == Len(hashes)
           d == TreeDepth(n)
           H == { k \in 0 .. d : LeafCount[k] * Len(tree[k + 1])
                                   \in n .. n + LeafCount[k] - 1 }
<1>1. n \in Nat /\ n >= 1 /\ d \in Nat /\ n <= LeafCount[d]
  <2>1. n \in Nat /\ n # 0
    BY LeafKeys, EmptySeq
  <2> HIDE DEF n
  <2> QED BY <2>1, DepthIs
<1>2. /\ DOMAIN tree = 1 .. d + 1 /\ Len(tree) = d + 1
      /\ tree[1] = Sorted(hashes)
      /\ \A k \in 1 .. d : tree[k + 1] = LevelAbove(tree[k])
  BY TreeLevels
<1>3. \A k \in 0 .. d : Len(tree[k + 1]) \in Nat
  <2>1. \A k \in 0 .. d : k + 1 \in DOMAIN tree
    BY <1>1, <1>2
  <2> QED BY <2>1, TreeOfLevels, LenProperties DEF IsLevel
<1>4. Len(tree[1]) = n
  BY <1>2, SortedMoves
<1> HIDE DEF d, n
<1>5. 0 \in H
  <2>1. LeafCount[0] = 1 /\ Len(tree[0 + 1]) = n /\ 1 * n = n
    BY <1>1, <1>4, LeafCountIs
  <2>2. LeafCount[0] * Len(tree[0 + 1]) \in n .. n + LeafCount[0] - 1
    BY <1>1, <2>1
  <2> QED BY <1>1, <2>2
<1>6. ASSUME NEW k \in 1 .. d, k - 1 \in H
      PROVE  k \in H
  <2> DEFINE j == k - 1
             p == LeafCount[j]
             l == Len(tree[k])
  <2>1. j \in 0 .. d /\ j \in Nat /\ k = j + 1 /\ k \in DOMAIN tree /\ k \in 0 .. d
    BY <1>1, <1>2
  <2>2. p \in Nat /\ LeafCount[k] = 2 * p
    BY <2>1, LeafCountIs
  <2>3. l \in Nat /\ p * l \in n .. n + p - 1
    BY <1>3, <1>6, <2>1
  <2>4. Len(tree[k + 1]) = (l + 1) \div 2
    <3>1. PICK S : tree[k] \in Seq(S)
      BY <2>1, TreeOfLevels DEF IsLevel
    <3> QED BY <1>2, <3>1, LevelAboveIs
  <2> HIDE DEF p, l, j
  <2>5. 2 * p * ((l + 1) \div 2) \in n .. n + 2 * p - 1
    BY <1>1, <2>2, <2>3, Halving
  <2> QED BY <2>1, <2>2, <2>4, <2>5
<1> HIDE DEF H
<1>7. \A k \in 0 .. d : k \in H
  BY <1>1, <1>5, <1>6, UpTo
<1>8. Len(tree[d + 1]) = 1
  <2> DEFINE p == LeafCount[d]
             l == Len(tree[d + 1])
  <2>1. d \in 0 .. d /\ d \in H
    BY <1>1, <1>7
  <2>2. p \in Nat /\ l \in Nat /\ p * l \in n .. n + p - 1
    BY <1>1, <1>3, <2>1, LeafCountIs DEF H
  <2>3. n <= p
    BY <1>1
  <2> HIDE DEF p, l
  <2>4. l # 0
    <3>1. l = 0 => p * l = 0
      BY <2>2
    <3> QED BY <1>1, <2>2, <3>1
  <2>5. l >= 2 => p * l >= p * 2
    BY <2>2
  <2>6. p * l <= n + p - 1 /\ p * 2 = p + p
    BY <1>1, <2>2
  <2> DEFINE r == p * l
  <2>7. ~(l >= 2)
    <3>1. r \in Nat /\ (l >= 2 => r >= p + p) /\ r <= n + p - 1
      BY <2>2, <2>5, <2>6
    <3> HIDE DEF r
    <3> QED BY <1>1, <2>2, <2>3, <3>1
  <2>8. l = 1
    BY <2>2, <2>4, <2>7
  <2> QED BY <2>8 DEF l
<1>9. ASSUME NEW i \in DOMAIN tree
      PROVE  LeafCount[i - 1] * Len(tree[i]) \in n .. n + LeafCount[i - 1] - 1
  <2>1. i - 1 \in 0 .. d /\ (i - 1) + 1 = i
    BY <1>1, <1>2
  <2> QED BY <1>7, <2>1 DEF H
<1> QED BY <1>2, <1>8, <1>9 DEF n

\* However many hashes there are, their tree has one node at the top and, on
\* each level, half as many as below, rounded up (hash_tree.cpp:34-73).
THEOREM HalvesUpwardsHolds == HalvesUpwards
<1> SUFFICES ASSUME NEW n \in 1 .. MaxHashes,
                    NEW count,
                    count = ElementsPerLevel(MakeHashTree([i \in 1 .. n |-> <<n + 1 - i>>]))
             PROVE  /\ count[Len(count)] = 1
                    /\ \A i \in DOMAIN count :
                         LeafCount[i - 1] * count[i] \in n .. n + LeafCount[i - 1] - 1
  BY DEF HalvesUpwards
<1> DEFINE hashes == [i \in 1 .. n |-> <<n + 1 - i>>]
           tree == MakeHashTree(hashes)
<1>1. n \in Nat /\ n >= 1
  BY HashTreeAssumption
<1>2. hashes \in Seq(Leaf) /\ Len(hashes) = n /\ hashes # <<>>
  <2>1. hashes \in [1 .. n -> Leaf]
    BY <1>1 DEF Leaf
  <2> HIDE DEF hashes
  <2>2. hashes \in Seq(Leaf) /\ Len(hashes) = n
    BY <1>1, <2>1, IsASeq, LenProperties
  <2> QED BY <1>1, <2>2
<1> HIDE DEF hashes
<1>3. /\ Len(tree[Len(tree)]) = 1
      /\ \A i \in DOMAIN tree :
           LeafCount[i - 1] * Len(tree[i]) \in n .. n + LeafCount[i - 1] - 1
  BY <1>2, ShapeOfTree
<1>4. Len(tree) \in Nat /\ Len(tree) \in DOMAIN tree /\ DOMAIN tree = 1 .. Len(tree)
  BY <1>2, TreeLevels
<1>5. count = [i \in DOMAIN tree |-> Len(tree[i])]
  BY DEF ElementsPerLevel, hashes
<1> HIDE DEF tree
<1>6. Len(count) = Len(tree)
  BY <1>4, <1>5
<1> QED BY <1>3, <1>4, <1>5, <1>6

-----------------------------------------------------------------------------
(* What the top tells.                                                     *)

\* The levels of a tree, counted without the loop.
LEMMA TreeUpwards ==
  ASSUME NEW hashes \in Seq(Leaf), hashes # <<>>, NEW tree, tree = MakeHashTree(hashes)
  PROVE  /\ Len(tree) \in Nat /\ Len(tree) >= 1
         /\ DOMAIN tree = 1 .. Len(tree)
         /\ \A i \in 1 .. Len(tree) - 1 : tree[i + 1] = LevelAbove(tree[i])
<1> DEFINE d == TreeDepth(Len(hashes))
<1>1. /\ d \in Nat /\ DOMAIN tree = 1 .. d + 1 /\ Len(tree) = d + 1
      /\ \A i \in 1 .. d : tree[i + 1] = LevelAbove(tree[i])
  BY TreeLevels
<1> HIDE DEF d
<1> QED BY <1>1

\* Levels with the same nodes are above levels with the same nodes.
LEMMA SameBelow ==
  ASSUME NEW level, NEW other, IsLevel(level), IsLevel(other),
         Range(LevelAbove(level)) = Range(LevelAbove(other))
  PROVE  Range(level) = Range(other)
<1>1. Range(level) = UNION { {p[1], p[2]} : p \in Range(LevelAbove(level)) }
  BY LevelAboveKeeps DEF IsLevel
<1>2. Range(other) = UNION { {p[1], p[2]} : p \in Range(LevelAbove(other)) }
  BY LevelAboveKeeps DEF IsLevel
<1> QED BY <1>1, <1>2

\* The lowest level holds the hashes, another holds hashes of pairs.
LEMMA KindOfLevel ==
  ASSUME NEW hashes \in Seq(Leaf), hashes # <<>>, NEW tree, tree = MakeHashTree(hashes)
  PROVE  /\ Range(tree[1]) = Range(hashes)
         /\ \A h \in Range(tree[1]) : h \in Leaf
         /\ \A i \in DOMAIN tree \ {1} : \A h \in Range(tree[i]) : h \notin Leaf
         /\ \A i \in DOMAIN tree : Range(tree[i]) # {} /\ EmptyHash \notin Range(tree[i])
<1> DEFINE d == TreeDepth(Len(hashes))
<1>1. /\ d \in Nat /\ DOMAIN tree = 1 .. d + 1
      /\ tree[1] = Sorted(hashes)
      /\ \A i \in 1 .. d : tree[i + 1] = LevelAbove(tree[i])
  BY TreeLevels
<1> HIDE DEF d
<1>2. Range(tree[1]) = Range(hashes) /\ \A h \in Range(hashes) : h \in Leaf
  <2>1. \A h \in Range(hashes) : h \in Leaf
    BY LeafKeys DEF Range
  <2> QED BY <1>1, <2>1, SortedIs
<1>3. ASSUME NEW i \in DOMAIN tree \ {1}, NEW h \in Range(tree[i])
      PROVE  h \notin Leaf /\ h # EmptyHash
  <2> DEFINE k == i - 1
  <2>1. k \in 1 .. d /\ i = k + 1 /\ k \in DOMAIN tree
    BY <1>1
  <2> HIDE DEF k
  <2>2. tree[i] = LevelAbove(tree[k])
    BY <1>1, <2>1
  <2>3. PICK j \in DOMAIN tree[i] : h = tree[i][j]
    BY DEF Range
  <2>4. h = <<tree[k][2 * j - 1],
              tree[k][IF 2 * j <= Len(tree[k]) THEN 2 * j ELSE 2 * j - 1]>>
    BY <2>2, <2>3 DEF LevelAbove
  <2>5. \A x, y, z : <<x, y>> # <<z>> /\ <<x, y>> # <<>>
    OBVIOUS
  <2> QED BY <2>4, <2>5 DEF Leaf, EmptyHash
<1>4. ASSUME NEW i \in DOMAIN tree
      PROVE  Range(tree[i]) # {}
  <2>1. PICK S : tree[i] \in Seq(S)
    BY TreeOfLevels DEF IsLevel
  <2>2. Len(tree[i]) # 0
    <3> DEFINE n == Len(hashes)
               p == LeafCount[i - 1]
    <3>1. n \in Nat /\ n # 0
      BY LeafKeys, EmptySeq
    <3>2. p \in Nat /\ p * Len(tree[i]) \in n .. n + p - 1
      <4>1. i - 1 \in Nat
        BY <1>1
      <4> QED BY <4>1, ShapeOfTree, LeafCountIs
    <3>3. p * 0 = 0
      BY <3>2
    <3> HIDE DEF n, p
    <3> QED BY <3>1, <3>2, <3>3
  <2>3. 1 \in DOMAIN tree[i]
    BY <2>1, <2>2, LenProperties
  <2> QED BY <2>3 DEF Range
<1>5. EmptyHash \notin Leaf
  <2>1. \A z : <<z>> # <<>>
    OBVIOUS
  <2> QED BY <2>1 DEF Leaf, EmptyHash
<1> QED BY <1>1, <1>2, <1>3, <1>4, <1>5

\* The tops of two trees and n levels below hold the same nodes.
SameFromTop(lhs, rhs, n) ==
  \A i \in 0 .. n : Range(lhs[Len(lhs) - i]) = Range(rhs[Len(rhs) - i])

LEMMA SameLevels ==
  ASSUME NEW left \in Seq(Leaf), left # <<>>, NEW right \in Seq(Leaf), right # <<>>,
         NEW lhs, lhs = MakeHashTree(left), NEW rhs, rhs = MakeHashTree(right),
         GetTopHash(lhs) = GetTopHash(rhs),
         NEW n \in Nat, n < Len(lhs), n < Len(rhs)
  PROVE  SameFromTop(lhs, rhs, n)
<1> DEFINE L == Len(lhs)
           R == Len(rhs)
           H == { i \in 0 .. n : Range(lhs[L - i]) = Range(rhs[R - i]) }
<1>1. /\ L \in Nat /\ L >= 1 /\ DOMAIN lhs = 1 .. L
      /\ \A i \in 1 .. L - 1 : lhs[i + 1] = LevelAbove(lhs[i])
  BY TreeUpwards
<1>2. /\ R \in Nat /\ R >= 1 /\ DOMAIN rhs = 1 .. R
      /\ \A i \in 1 .. R - 1 : rhs[i + 1] = LevelAbove(rhs[i])
  BY TreeUpwards
<1>3. 0 \in H
  <2>1. Len(lhs[L]) = 1 /\ Len(rhs[R]) = 1
    BY ShapeOfTree
  <2>2. lhs # <<>> /\ rhs # <<>>
    BY <1>1, <1>2
  <2>3. lhs[L][1] = rhs[R][1]
    BY <2>1, <2>2 DEF GetTopHash
  <2>4. ASSUME NEW S, NEW s \in Seq(S), Len(s) = 1 PROVE Range(s) = {s[1]}
    BY <2>4, LenProperties DEF Range
  <2>5. IsLevel(lhs[L]) /\ IsLevel(rhs[R])
    BY <1>1, <1>2, TreeOfLevels
  <2>6. Range(lhs[L]) = {lhs[L][1]} /\ Range(rhs[R]) = {rhs[R][1]}
    BY <2>1, <2>4, <2>5 DEF IsLevel
  <2>7. L - 0 = L /\ R - 0 = R /\ 0 \in 0 .. n
    BY <1>1, <1>2
  <2> HIDE DEF L, R
  <2> QED BY <2>3, <2>6, <2>7
<1>4. ASSUME NEW i \in 1 .. n, i - 1 \in H
      PROVE  i \in H
  <2> DEFINE k == L - i
             m == R - i
  <2>1. /\ k \in 1 .. L - 1 /\ L - (i - 1) = k + 1 /\ k \in DOMAIN lhs
        /\ m \in 1 .. R - 1 /\ R - (i - 1) = m + 1 /\ m \in DOMAIN rhs
    BY <1>1, <1>2
  <2>2. Range(lhs[k + 1]) = Range(rhs[m + 1])
    BY <1>4, <2>1
  <2>3. /\ lhs[k + 1] = LevelAbove(lhs[k]) /\ IsLevel(lhs[k])
        /\ rhs[m + 1] = LevelAbove(rhs[m]) /\ IsLevel(rhs[m])
    BY <1>1, <1>2, <2>1, TreeOfLevels
  <2> HIDE DEF k, m
  <2>4. Range(lhs[k]) = Range(rhs[m])
    BY <2>2, <2>3, SameBelow
  <2> QED BY <2>4 DEF k, m
<1> HIDE DEF H
<1>5. \A i \in 0 .. n : i \in H
  BY <1>3, <1>4, UpTo
<1> QED BY <1>5 DEF H, SameFromTop

\* Trees with one top hash are made from the same hashes.
THEOREM TopTellsHashes ==
  ASSUME NEW left \in Seq(Leaf), left # <<>>, NEW right \in Seq(Leaf), right # <<>>,
         GetTopHash(MakeHashTree(left)) = GetTopHash(MakeHashTree(right))
  PROVE  Range(left) = Range(right)
<1> SUFFICES ASSUME NEW lhs, lhs = MakeHashTree(left),
                    NEW rhs, rhs = MakeHashTree(right)
             PROVE  Range(left) = Range(right)
  OBVIOUS
<1> DEFINE L == Len(lhs)
           R == Len(rhs)
<1>1. /\ L \in Nat /\ L >= 1 /\ DOMAIN lhs = 1 .. L
      /\ R \in Nat /\ R >= 1 /\ DOMAIN rhs = 1 .. R
  BY TreeUpwards
<1>2. /\ Range(lhs[1]) = Range(left) /\ \A h \in Range(lhs[1]) : h \in Leaf
      /\ \A i \in DOMAIN lhs \ {1} : \A h \in Range(lhs[i]) : h \notin Leaf
      /\ Range(lhs[1]) # {}
  BY <1>1, KindOfLevel
<1>3. /\ Range(rhs[1]) = Range(right) /\ \A h \in Range(rhs[1]) : h \in Leaf
      /\ \A i \in DOMAIN rhs \ {1} : \A h \in Range(rhs[i]) : h \notin Leaf
      /\ Range(rhs[1]) # {}
  BY <1>1, KindOfLevel
<1>4. \A n \in Nat : n < L /\ n < R =>
         Range(lhs[L - n]) = Range(rhs[R - n])
  <2> SUFFICES ASSUME NEW n \in Nat, n < L, n < R
               PROVE  Range(lhs[L - n]) = Range(rhs[R - n])
    OBVIOUS
  <2>1. GetTopHash(lhs) = GetTopHash(rhs)
    OBVIOUS
  <2>2. SameFromTop(lhs, rhs, n)
    BY <2>1, SameLevels
  <2> QED BY <2>2 DEF SameFromTop
<1> HIDE DEF L, R
<1>5. L <= R => Range(lhs[1]) = Range(rhs[R - (L - 1)])
  <2> DEFINE n == L - 1
  <2>1. n \in Nat /\ L - n = 1 /\ n < L /\ (L <= R => n < R)
    BY <1>1
  <2> HIDE DEF n
  <2>2. L <= R => Range(lhs[1]) = Range(rhs[R - n])
    BY <1>4, <2>1
  <2> QED BY <2>2 DEF n
<1>6. R <= L => Range(lhs[L - (R - 1)]) = Range(rhs[1])
  <2> DEFINE n == R - 1
  <2>1. n \in Nat /\ R - n = 1 /\ n < R /\ (R <= L => n < L)
    BY <1>1
  <2> HIDE DEF n
  <2>2. R <= L => Range(lhs[L - n]) = Range(rhs[1])
    BY <1>4, <2>1
  <2> QED BY <2>2 DEF n
<1>7. L = R
  <2>1. ~(L < R)
    <3> SUFFICES ASSUME L < R PROVE FALSE
      OBVIOUS
    <3>1. R - (L - 1) \in DOMAIN rhs \ {1}
      BY <1>1
    <3> QED BY <1>1, <1>2, <1>3, <1>5, <3>1
  <2>2. ~(R < L)
    <3> SUFFICES ASSUME R < L PROVE FALSE
      OBVIOUS
    <3>1. L - (R - 1) \in DOMAIN lhs \ {1}
      BY <1>1
    <3> QED BY <1>1, <1>2, <1>3, <1>6, <3>1
  <2> QED BY <1>1, <2>1, <2>2
<1>8. R - (L - 1) = 1
  BY <1>1, <1>7
<1> QED BY <1>1, <1>2, <1>3, <1>5, <1>7, <1>8

\* The hash at the top of a tree with leaves is never that of an empty tree.
LEMMA TopOfTree ==
  ASSUME NEW hashes \in Seq(Leaf), hashes # <<>>
  PROVE  GetTopHash(MakeHashTree(hashes)) # EmptyHash
<1> SUFFICES ASSUME NEW tree, tree = MakeHashTree(hashes)
             PROVE  GetTopHash(tree) # EmptyHash
  OBVIOUS
<1> DEFINE top == tree[Len(tree)]
<1>1. Len(tree) \in DOMAIN tree /\ tree # <<>>
  BY TreeUpwards
<1>2. Len(top) = 1
  BY ShapeOfTree
<1>3. EmptyHash \notin Range(top)
  BY <1>1, KindOfLevel
<1>4. 1 \in DOMAIN top
  BY <1>1, <1>2, TreeOfLevels, LenProperties DEF IsLevel
<1>5. GetTopHash(tree) = top[1]
  BY <1>1, <1>2 DEF GetTopHash
<1> QED BY <1>3, <1>4, <1>5 DEF Range

\* getChangedHashes finds every hash that one tree has and the other has not,
\* and no other, whatever the two are made from (hash_tree.cpp:117-150).
THEOREM ChangedHashesAreAll ==
  ASSUME NEW left \in Seq(Leaf), left # <<>>, NEW right \in Seq(Leaf), right # <<>>
  PROVE  GetChangedHashes(MakeHashTree(right), MakeHashTree(left))
           = (Range(left) \ Range(right)) \cup (Range(right) \ Range(left))
<1> DEFINE lhs == MakeHashTree(left)
           rhs == MakeHashTree(right)
<1>1. ToSet(lhs[1]) = Range(left) /\ ToSet(rhs[1]) = Range(right)
  BY KindOfLevel DEF ToSet, Range
<1>2. GetTopHash(lhs) = GetTopHash(rhs) => Range(left) = Range(right)
  BY TopTellsHashes
<1> HIDE DEF lhs, rhs
<1>3. GetChangedHashes(rhs, lhs)
        = (Range(left) \ Range(right)) \cup (Range(right) \ Range(left))
  BY <1>1, <1>2 DEF GetChangedHashes, CheckHashTreeChange
<1> QED BY <1>3 DEF lhs, rhs

\* A finite set is listed without repeats or omissions.
LEMMA SetToSeqIs ==
  ASSUME NEW S, IsFiniteSet(S)
  PROVE  /\ SetToSeq(S) \in Seq(S)
         /\ Len(SetToSeq(S)) = Cardinality(S)
         /\ Range(SetToSeq(S)) = S
         /\ IsInjective(SetToSeq(S))
<1> DEFINE n == Cardinality(S)
<1>1. n \in Nat /\ ExistsBijection(1 .. n, S)
  BY FS_CardinalityType
<1>2. PICK b \in Bijection(1 .. n, S) : TRUE
  BY <1>1 DEF ExistsBijection
<1>3. SetToSeq(S) = CHOOSE f \in [1 .. n -> S] : IsInjective(f)
  BY DEF SetToSeq
<1> HIDE DEF n
<1>4. b \in [1 .. n -> S] /\ IsInjective(b)
  BY <1>2 DEF Bijection, Injection
<1>5. SetToSeq(S) \in [1 .. n -> S] /\ IsInjective(SetToSeq(S))
  BY <1>3, <1>4
<1>6. SetToSeq(S) \in Injection(1 .. n, S)
  BY <1>5 DEF Injection
<1>7. Cardinality(1 .. n) = n
  BY <1>1, FS_Interval
<1>8. SetToSeq(S) \in Surjection(1 .. n, S)
  BY <1>6, <1>7, FS_Injection DEF n
<1>9. Range(SetToSeq(S)) = S
  BY <1>8 DEF Surjection, Range
<1>10. SetToSeq(S) \in Seq(S) /\ Len(SetToSeq(S)) = n
  BY <1>1, <1>5, IsASeq, LenProperties
<1> QED BY <1>5, <1>9, <1>10 DEF n

\* The sets of hashes that TellsApart looks at.
LEMMA HashesListed ==
  ASSUME NEW n \in Nat, NEW S \in SUBSET (1 .. n), S # {},
         NEW hashes, hashes = SetToSeq({ <<k>> : k \in S })
  PROVE  /\ hashes \in Seq(Leaf)
         /\ hashes # <<>>
         /\ Range(hashes) = { <<k>> : k \in S }
<1> DEFINE H == { <<k>> : k \in S }
           f == [k \in S |-> <<k>>]
<1>1. IsFiniteSet(S)
  <2>1. IsFiniteSet(1 .. n)
    BY FS_Interval
  <2> QED BY <2>1, FS_Subset
<1>2. f \in Surjection(S, H)
  BY DEF Surjection
<1>3. IsFiniteSet(H)
  <2> HIDE DEF f, H
  <2> QED BY <1>1, <1>2, FS_Surjection
<1>4. H \subseteq Leaf /\ H # {}
  <2>1. \A k \in S : k \in Nat
    OBVIOUS
  <2> QED BY <2>1 DEF Leaf
<1> HIDE DEF H
<1>5. hashes \in Seq(H) /\ Range(hashes) = H
  BY <1>3, SetToSeqIs DEF H
<1>6. hashes \in Seq(Leaf)
  BY <1>4, <1>5, SeqMonotonic
<1>7. hashes # <<>>
  <2> SUFFICES ASSUME hashes = <<>> PROVE FALSE
    OBVIOUS
  <2>1. DOMAIN <<>> = {}
    OBVIOUS
  <2>2. Range(hashes) = {}
    BY <2>1 DEF Range
  <2> QED BY <1>4, <1>5, <2>2
<1> QED BY <1>5, <1>6, <1>7 DEF H

\* Of any two sets of hashes getChangedHashes returns what they differ in
\* (hash_tree.cpp:105-150).
THEOREM TellsApartHolds == TellsApart
<1> DEFINE m == MaxHashes \div 3
           Few == (SUBSET (1 .. m)) \ {{}}
           HashesOf(S) == { <<k>> : k \in S }
           tree == [S \in Few |-> MakeHashTree(SetToSeq(HashesOf(S)))]
<1>1. m \in Nat
  BY HashTreeAssumption
<1>2. ASSUME NEW S \in Few, NEW T \in Few
      PROVE  GetChangedHashes(tree[S], tree[T]) = HashesOf((S \ T) \cup (T \ S))
  <2> DEFINE right == SetToSeq(HashesOf(S))
             left == SetToSeq(HashesOf(T))
  <2> HIDE DEF m
  <2>1. /\ left \in Seq(Leaf) /\ left # <<>> /\ Range(left) = HashesOf(T)
        /\ right \in Seq(Leaf) /\ right # <<>> /\ Range(right) = HashesOf(S)
    <3>1. S \in SUBSET (1 .. m) /\ S # {} /\ T \in SUBSET (1 .. m) /\ T # {}
      OBVIOUS
    <3>2. right \in Seq(Leaf) /\ right # <<>> /\ Range(right) = HashesOf(S)
      BY <1>1, <3>1, HashesListed
    <3>3. left \in Seq(Leaf) /\ left # <<>> /\ Range(left) = HashesOf(T)
      BY <1>1, <3>1, HashesListed
    <3> QED BY <3>2, <3>3
  <2>2. tree[S] = MakeHashTree(right) /\ tree[T] = MakeHashTree(left)
    OBVIOUS
  <2> HIDE DEF left, right, tree
  <2>3. GetChangedHashes(tree[S], tree[T])
          = (HashesOf(T) \ HashesOf(S)) \cup (HashesOf(S) \ HashesOf(T))
    BY <2>1, <2>2, ChangedHashesAreAll
  <2>4. \A j, k : <<j>> = <<k>> => j = k
    OBVIOUS
  <2>5. (HashesOf(T) \ HashesOf(S)) \cup (HashesOf(S) \ HashesOf(T))
          = HashesOf((S \ T) \cup (T \ S))
    BY <2>4
  <2> QED BY <2>3, <2>5
<1> QED BY <1>2 DEF TellsApart

-----------------------------------------------------------------------------
(* The order of the hashes.                                                *)

\* Without repeats, the place of a hash is one more than there are smaller ones.
LEMMA PlaceByValue ==
  ASSUME NEW hashes \in Seq(Leaf), IsInjective(hashes), NEW i \in 1 .. Len(hashes)
  PROVE  PlaceOf(hashes, i)
           = 1 + Cardinality({ h \in Range(hashes) : h[1] < hashes[i][1] })
<1> DEFINE smaller == { h \in Range(hashes) : h[1] < hashes[i][1] }
           before == Before(hashes, i)
           f == [k \in before |-> hashes[k]]
<1>1. DOMAIN hashes = 1 .. Len(hashes)
  BY LeafKeys
<1>2. \A g, h \in Leaf : g[1] = h[1] => g = h
  BY DEF Leaf
<1>3. \A k \in 1 .. Len(hashes) : hashes[k][1] = hashes[i][1] => k = i
  BY <1>1, <1>2, LeafKeys DEF IsInjective
<1>4. before = { k \in 1 .. Len(hashes) : hashes[k][1] < hashes[i][1] }
  BY <1>3, LeafKeys DEF Before
<1>5. f \in [before -> smaller]
  BY <1>1, <1>4 DEF Range
<1>6. f \in Injection(before, smaller)
  BY <1>1, <1>4, <1>5 DEF Injection, IsInjective
<1>7. f \in Surjection(before, smaller)
  <2>1. \A h \in smaller : \E k \in before : f[k] = h
    BY <1>1, <1>4 DEF Range
  <2> QED BY <1>5, <2>1 DEF Surjection
<1>8. IsFiniteSet(before) /\ PlaceOf(hashes, i) = 1 + Cardinality(before)
  BY PlaceType
<1> HIDE DEF before, smaller, f
<1>9. Cardinality(smaller) = Cardinality(before)
  BY <1>6, <1>7, <1>8, FS_Bijection DEF ExistsBijection, Bijection
<1>10. PlaceOf(hashes, i) = 1 + Cardinality(smaller)
  BY <1>8, <1>9
<1> QED BY <1>10 DEF smaller

\* As many as there are values.
LEMMA LengthByValue ==
  ASSUME NEW hashes \in Seq(Leaf), IsInjective(hashes)
  PROVE  Len(hashes) = Cardinality(Range(hashes))
<1> DEFINE n == Len(hashes)
           R == Range(hashes)
<1>1. n \in Nat /\ DOMAIN hashes = 1 .. n
  BY LeafKeys
<1>2. hashes \in [1 .. n -> R]
  BY <1>1 DEF Range
<1>3. hashes \in Injection(1 .. n, R)
  BY <1>2 DEF Injection
<1>4. hashes \in Surjection(1 .. n, R)
  <2>1. \A h \in R : \E k \in 1 .. n : hashes[k] = h
    BY <1>1 DEF Range
  <2> QED BY <1>2, <2>1 DEF Surjection
<1> HIDE DEF n, R
<1>5. IsFiniteSet(1 .. n) /\ Cardinality(1 .. n) = n
  BY <1>1, FS_Interval
<1>6. Cardinality(R) = Cardinality(1 .. n)
  BY <1>3, <1>4, <1>5, FS_Bijection DEF ExistsBijection, Bijection
<1> QED BY <1>5, <1>6 DEF n, R

\* A directory's hash does not depend on the order in which its files are read:
\* the same hashes, each once, give the same tree in any order
\* (hash_tree.cpp:15-25).
THEOREM OrderDoesNotCount ==
  ASSUME NEW left \in Seq(Leaf), IsInjective(left),
         NEW right \in Seq(Leaf), IsInjective(right),
         Range(left) = Range(right)
  PROVE  MakeHashTree(left) = MakeHashTree(right)
<1> DEFINE n == Len(left)
<1>1. n \in Nat /\ Len(right) = n /\ DOMAIN left = 1 .. n /\ DOMAIN right = 1 .. n
  BY LengthByValue, LeafKeys
<1>2. ASSUME NEW j \in 1 .. n
      PROVE  Sorted(left)[j] = Sorted(right)[j]
  <2>1. PICK i \in 1 .. n : PlaceOf(left, i) = j
    BY PlacesAreTaken
  <2>2. PICK k \in 1 .. n : right[k] = left[i]
    BY <1>1 DEF Range
  <2>3. PlaceOf(right, k) = j
    BY <1>1, <2>1, <2>2, PlaceByValue
  <2>4. Sorted(left)[PlaceOf(left, i)] = left[i]
    BY SortedMoves
  <2>5. Sorted(right)[PlaceOf(right, k)] = right[k]
    BY <1>1, SortedMoves
  <2> QED BY <2>1, <2>2, <2>3, <2>4, <2>5
<1>3. /\ Sorted(left) \in Seq(Leaf) /\ Len(Sorted(left)) = n
      /\ Sorted(right) \in Seq(Leaf) /\ Len(Sorted(right)) = n
  BY <1>1, SortedMoves
<1>4. Sorted(left) = Sorted(right)
  <2> HIDE DEF n
  <2> QED BY <1>1, <1>2, <1>3, SeqEqual
<1>5. left = <<>> <=> right = <<>>
  BY <1>1, EmptySeq
<1> QED BY <1>1, <1>4, <1>5 DEF MakeHashTree
=============================================================================
