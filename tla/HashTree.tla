------------------------------ MODULE HashTree ------------------------------
(***************************************************************************)
(* Hash trees (src/hash_tree.cpp).  Hashing is taken to be injective: the  *)
(* hash of a string is <<k>>, k its place in the order of all strings, and *)
(* that of two concatenated hashes their pair.                             *)
(***************************************************************************)
EXTENDS Integers, Sequences, FiniteSets, SequencesExt

CONSTANT MaxHashes   \* bound: the leaves of the trees looked at

ASSUME HashTreeAssumption == MaxHashes \in Nat

\* getTopHash of an empty tree: Hash(), of no string.
EmptyHash == <<>>

\* Faulty: the left node is always doubled.
LevelAboveLeft(level) ==
  [j \in 1 .. (Len(level) + 1) \div 2 |-> <<level[2 * j - 1], level[2 * j - 1]>>]

\* Nodes in pairs; an odd one is doubled.
LevelAbove(level) ==
  [j \in 1 .. (Len(level) + 1) \div 2 |->
     <<level[2 * j - 1], level[IF 2 * j <= Len(level) THEN 2 * j ELSE 2 * j - 1]>>]

\* Where std::sort puts the i-th of the hashes; equal ones keep their order.
PlaceOf(hashes, i) ==
  1 + Cardinality({ k \in DOMAIN hashes :
                      \/ hashes[k][1] < hashes[i][1]
                      \/ hashes[k][1] = hashes[i][1] /\ k < i })

\* std::sort.  std::unique, comparing pointers, removes none: each leaf is an
\* object of its own.
Sorted(hashes) ==
  [j \in DOMAIN hashes |->
     hashes[CHOOSE i \in DOMAIN hashes : PlaceOf(hashes, i) = j]]

\* tree_leaf_count after so many turns of the while loop of makeHashTree.
LeafCount[turns \in Nat] ==
  IF turns = 0 THEN 1 ELSE 2 * LeafCount[turns - 1]

\* Faulty: one level too few for a power of two and one more.
TreeDepthFloor(n) ==
  CHOOSE i \in 0 .. n : LeafCount[i] <= n /\ n < LeafCount[i + 1]

\* The loop: leaves double until they hold all hashes.
TreeDepth(n) ==
  CHOOSE i \in 0 .. n : n <= LeafCount[i] /\ \A k \in 0 .. i - 1 : n > LeafCount[k]

\* makeHashTree: the levels from the leaves up.
MakeHashTree(hashes) ==
  LET level[i \in 0 .. TreeDepth(Len(hashes))] ==
        IF i = 0 THEN Sorted(hashes) ELSE LevelAbove(level[i - 1])
  IN IF hashes = <<>> THEN <<>>
     ELSE [i \in 1 .. TreeDepth(Len(hashes)) + 1 |-> level[i - 1]]

\* hashes_.back()
GetTopHash(tree) ==
  IF tree = <<>> THEN EmptyHash
  ELSE LET top == tree[Len(tree)] IN top[Len(top)]

\* elements_per_level_
ElementsPerLevel(tree) == [i \in DOMAIN tree |-> Len(tree[i])]

CheckHashTreeChange(tree, lhs) == GetTopHash(lhs) # GetTopHash(tree)

\* getChangedHashes of two trees with leaves: the symmetric difference of these.
GetChangedHashes(tree, lhs) ==
  LET left == ToSet(lhs[1])
      right == ToSet(tree[1])
  IN IF CheckHashTreeChange(tree, lhs)
       THEN (left \ right) \cup (right \ left)
       ELSE {}

-----------------------------------------------------------------------------
\* One node at the top and, on each level, half as many as below, rounded up.
HalvesUpwards ==
  \A n \in 1 .. MaxHashes :
    LET count == ElementsPerLevel(MakeHashTree([i \in 1 .. n |-> <<n + 1 - i>>])) IN
    /\ count[Len(count)] = 1
    /\ \A i \in DOMAIN count :
         LeafCount[i - 1] * count[i] \in n .. n + LeafCount[i - 1] - 1

\* getChangedHashes returns what two sets of hashes differ in.
TellsApart ==
  LET Few == (SUBSET (1 .. MaxHashes \div 3)) \ {{}}
      HashesOf(S) == { <<k>> : k \in S }
      tree == [S \in Few |-> MakeHashTree(SetToSeq(HashesOf(S)))]
  IN \A S, T \in Few :
       GetChangedHashes(tree[S], tree[T])
         = HashesOf((S \ T) \cup (T \ S))
=============================================================================
