----------------------------- MODULE BoxProofs ------------------------------
(***************************************************************************)
(* What BoxWatch proves for every tree of directories and any number of    *)
(* changes: its types, that paths are reported as they are, and that every *)
(* directory there from the start is watched.                              *)
(***************************************************************************)
EXTENDS BoxWatch, HashTreeProofs

-----------------------------------------------------------------------------
(* The hashes of a directory's files.                                      *)

\* Two numbers below n, and multiples of n with them.
LEMMA PlaceAndTime ==
  ASSUME NEW n \in Nat, NEW i \in 1 .. n, NEW j \in 1 .. n,
         NEW x \in Nat, NEW y \in Nat, i + n * x = j + n * y
  PROVE  i = j /\ x = y
<1>1. ASSUME NEW a \in Nat, NEW b \in Nat, a < b
      PROVE  n * b >= n * a + n
  <2> DEFINE c == b - a - 1
  <2>1. c \in Nat /\ b = a + 1 + c
    BY <1>1
  <2> HIDE DEF c
  <2>2. n * b = n * a + n + n * c /\ n * c \in Nat
    BY <2>1
  <2> QED BY <2>2
<1> DEFINE p == n * x
           q == n * y
<1>2. p \in Nat /\ q \in Nat /\ i + p = j + q
  OBVIOUS
<1>3. ~(x < y) /\ ~(y < x)
  <2>1. x < y => q >= p + n
    BY <1>1
  <2>2. y < x => p >= q + n
    BY <1>1
  <2> HIDE DEF p, q
  <2> QED BY <1>2, <2>1, <2>2
<1>4. x = y
  BY <1>3
<1> QED BY <1>2, <1>4

\* The file hashes are those of the files there, by their places among the names
\* and their times.
LEMMA FileHashesAre ==
  ASSUME NEW listing \in [FileName -> Nat], NEW names, names = SetToSeq(FileName)
  PROVE  /\ FileHashes(listing) \in Seq(Leaf)
         /\ \A i \in DOMAIN names, x \in Nat \ {0} :
              listing[names[i]] = x <=> <<i + Len(names) * x>> \in Range(FileHashes(listing))
<1> DEFINE n == Len(names)
           here == { i \in DOMAIN names : listing[names[i]] # 0 }
           H == { <<i + n * listing[names[i]]>> : i \in here }
           f == [i \in here |-> <<i + n * listing[names[i]]>>]
<1>1. IsFiniteSet(FileName)
  BY BoxAssumption
<1>2. n \in Nat /\ DOMAIN names = 1 .. n /\ \A i \in 1 .. n : names[i] \in FileName
  BY <1>1, SetToSeqIs, LenProperties, ElementOfSeq
<1>3. IsFiniteSet(here)
  <2>1. here \in SUBSET (1 .. n)
    BY <1>2
  <2>2. IsFiniteSet(1 .. n)
    <3> HIDE DEF n
    <3> QED BY <1>2, FS_Interval
  <2> HIDE DEF here, n
  <2> QED BY <2>1, <2>2, FS_Subset
<1>4. f \in Surjection(here, H)
  BY DEF Surjection
<1>5. IsFiniteSet(H)
  <2> HIDE DEF f, here, H
  <2> QED BY <1>3, <1>4, FS_Surjection
<1>6. H \subseteq Leaf
  <2>1. \A i \in here : i + n * listing[names[i]] \in Nat
    <3> HIDE DEF n
    <3> QED BY <1>2
  <2> HIDE DEF n
  <2> QED BY <2>1 DEF Leaf
<1>7. FileHashes(listing) = SetToSeq(H)
  BY DEF FileHashes
<1>8. FileHashes(listing) \in Seq(Leaf) /\ Range(FileHashes(listing)) = H
  <2> HIDE DEF H
  <2> QED BY <1>5, <1>6, <1>7, SetToSeqIs, SeqMonotonic
<1>9. ASSUME NEW i \in 1 .. n, NEW x \in Nat \ {0}
      PROVE  listing[names[i]] = x <=> <<i + n * x>> \in H
  <2>1. listing[names[i]] = x => <<i + n * x>> \in H
    BY <1>2
  <2>2. ASSUME <<i + n * x>> \in H
        PROVE  listing[names[i]] = x
    <3>1. PICK j \in here : <<i + n * x>> = <<j + n * listing[names[j]]>>
      BY <2>2
    <3>2. i + n * x = j + n * listing[names[j]]
      BY <3>1
    <3>3. j \in 1 .. n /\ listing[names[j]] \in Nat
      BY <1>2
    <3> HIDE DEF n, here
    <3>4. i = j /\ x = listing[names[j]]
      BY <1>2, <3>2, <3>3, PlaceAndTime
    <3> QED BY <3>4
  <2> QED BY <2>1, <2>2
<1> HIDE DEF H
<1> QED BY <1>2, <1>8, <1>9

\* Directories with different files have different hashes of them, whatever the
\* files are (directory.cpp, hash_tree.cpp): what scan compares is enough.
THEOREM HashesDiffer ==
  ASSUME NEW l \in [FileName -> 0 .. MaxChanges + 1],
         NEW m \in [FileName -> 0 .. MaxChanges + 1],
         ListingHash(l) = ListingHash(m)
  PROVE  l = m
<1> DEFINE names == SetToSeq(FileName)
           n == Len(names)
           left == FileHashes(l)
           right == FileHashes(m)
<1>1. MaxChanges \in Nat /\ IsFiniteSet(FileName)
  BY BoxAssumption
<1>2. l \in [FileName -> Nat] /\ m \in [FileName -> Nat]
  <2>1. 0 .. MaxChanges + 1 \subseteq Nat
    BY <1>1
  <2> QED BY <2>1
<1>3. \A f \in FileName : \E i \in DOMAIN names : names[i] = f
  BY <1>1, SetToSeqIs DEF Range
<1>4. /\ left \in Seq(Leaf)
      /\ \A i \in DOMAIN names, x \in Nat \ {0} :
           l[names[i]] = x <=> <<i + n * x>> \in Range(left)
  BY <1>2, FileHashesAre
<1>5. /\ right \in Seq(Leaf)
      /\ \A i \in DOMAIN names, x \in Nat \ {0} :
           m[names[i]] = x <=> <<i + n * x>> \in Range(right)
  BY <1>2, FileHashesAre
<1>6. GetTopHash(MakeHashTree(left)) = GetTopHash(MakeHashTree(right))
  BY DEF ListingHash
<1> HIDE DEF names, n, left, right
<1>7. Range(left) = Range(right)
  <2>1. GetTopHash(MakeHashTree(<<>>)) = EmptyHash
    BY DEF GetTopHash, MakeHashTree
  <2>2. CASE left = <<>> \/ right = <<>>
    <3>1. left = <<>> /\ right = <<>>
      BY <1>4, <1>5, <1>6, <2>1, <2>2, TopOfTree
    <3> QED BY <3>1
  <2>3. CASE left # <<>> /\ right # <<>>
    BY <1>4, <1>5, <1>6, <2>3, TopTellsHashes
  <2> QED BY <2>2, <2>3
<1>8. ASSUME NEW f \in FileName PROVE l[f] = m[f]
  <2>1. PICK i \in DOMAIN names : names[i] = f
    BY <1>3
  <2>2. \A x \in Nat \ {0} : l[f] = x <=> m[f] = x
    BY <1>4, <1>5, <1>7, <2>1
  <2>3. l[f] \in Nat /\ m[f] \in Nat
    BY <1>2
  <2> QED BY <2>2, <2>3
<1> QED BY <1>2, <1>8

-----------------------------------------------------------------------------
(* The tree.                                                               *)

\* A chain is a sequence of directories that ends in its own.
LEMMA ChainType ==
  ASSUME NEW d \in Dir
  PROVE  /\ Chain[d] \in Seq(Dir \ {Root})
         /\ Len(Chain[d]) \in Nat
         /\ DOMAIN Chain[d] = 1 .. Len(Chain[d])
         /\ \A i \in 1 .. Len(Chain[d]) : Chain[d][i] \in Dir \ {Root}
         /\ d # Root => Len(Chain[d]) > 0 /\ Chain[d][Len(Chain[d])] = d
         /\ Len(Chain[Root]) = 0
<1>1. Chain[d] \in Seq(Dir \ {Root})
  BY BoxAssumption
<1>2. d # Root => Len(Chain[d]) > 0
  BY <1>1, BoxAssumption, EmptySeq
<1> QED BY <1>1, <1>2, BoxAssumption, LenProperties, ElementOfSeq DEF Last

\* What a chain leads through has the chain so far.
LEMMA ChainPrefix ==
  ASSUME NEW d \in Dir, NEW i \in 1 .. Len(Chain[d])
  PROVE  /\ Chain[d][i] \in Dir \ {Root}
         /\ Len(Chain[Chain[d][i]]) = i
         /\ \A j \in 1 .. i : Chain[Chain[d][i]][j] = Chain[d][j]
<1>1. Chain[Chain[d][i]] = SubSeq(Chain[d], 1, i)
  BY ChainType, BoxAssumption
<1>2. i \in Nat /\ \A j \in 1 .. i : j \in 1 .. Len(Chain[d])
  BY ChainType
<1>3. \A j \in 1 .. i : Chain[d][j] \in Dir \ {Root}
  BY <1>2, ChainType
<1>4. /\ Len(SubSeq(Chain[d], 1, i)) = i
      /\ \A j \in 1 .. i : SubSeq(Chain[d], 1, i)[j] = Chain[d][j]
  BY <1>2, <1>3
<1> QED BY <1>1, <1>4, ChainType

\* d is in Up(d), which holds the base path and directories only.
LEMMA UpType ==
  ASSUME NEW d \in Dir
  PROVE  d \in Up(d) /\ Root \in Up(d) /\ Up(d) \subseteq Dir
<1>1. d \in Up(d)
  <2>1. CASE d = Root
    BY <2>1 DEF Up
  <2>2. CASE d # Root
    <3>1. Len(Chain[d]) \in DOMAIN Chain[d] /\ Chain[d][Len(Chain[d])] = d
      BY <2>2, ChainType
    <3> QED BY <3>1 DEF Up, Range
  <2> QED BY <2>1, <2>2
<1>2. Root \in Dir
  BY BoxAssumption
<1> QED BY <1>1, <1>2, ChainType DEF Up, Range

\* What is above something above d is above d.
LEMMA UpTransitive ==
  ASSUME NEW d \in Dir, NEW e \in Up(d), NEW x \in Up(e)
  PROVE  x \in Up(d)
<1>1. CASE x = Root
  BY <1>1, UpType
<1>2. CASE e = Root
  BY <1>2, UpType, ChainType, BoxAssumption DEF Up, Range
<1>3. CASE x # Root /\ e # Root
  <2>1. PICK i \in 1 .. Len(Chain[d]) : e = Chain[d][i]
    BY <1>3, ChainType DEF Up, Range
  <2>2. e \in Dir
    BY <2>1, ChainType
  <2>3. PICK j \in 1 .. Len(Chain[e]) : x = Chain[e][j]
    BY <1>3, <2>2, ChainType DEF Up, Range
  <2>4. j \in 1 .. Len(Chain[d]) /\ x = Chain[d][j]
    BY <2>1, <2>3, ChainPrefix, ChainType
  <2> QED BY <2>4, ChainType DEF Up, Range
<1> QED BY <1>1, <1>2, <1>3

\* The directory at depth n above d is the one with a chain of length n.
LEMMA Depth ==
  ASSUME NEW d \in Dir, NEW e \in Up(d), e # Root
  PROVE  Len(Chain[e]) \in 1 .. Len(Chain[d]) /\ Chain[d][Len(Chain[e])] = e
<1>1. PICK i \in 1 .. Len(Chain[d]) : e = Chain[d][i]
  BY ChainType DEF Up, Range
<1> QED BY <1>1, ChainPrefix

\* A directory lies below its parent, at the end of the parent's chain.
LEMMA ParentType ==
  ASSUME NEW d \in Dir, d # Root
  PROVE  /\ Parent(d) \in Dir
         /\ Len(Chain[d]) = Len(Chain[Parent(d)]) + 1
         /\ \A i \in 1 .. Len(Chain[Parent(d)]) : Chain[Parent(d)][i] = Chain[d][i]
         /\ Parent(d) \in Up(d)
         /\ d \notin Up(Parent(d))
         /\ \A e \in Up(d) : e = d \/ e \in Up(Parent(d))
<1> DEFINE n == Len(Chain[d])
<1>1. n \in Nat /\ n > 0 /\ Chain[d][n] = d
  BY ChainType
<1>2. /\ Parent(d) \in Dir
      /\ n = Len(Chain[Parent(d)]) + 1
      /\ \A i \in 1 .. Len(Chain[Parent(d)]) : Chain[Parent(d)][i] = Chain[d][i]
      /\ Parent(d) \in Up(d)
  <2>1. CASE n = 1
    BY <1>1, <2>1, ChainType, UpType, BoxAssumption DEF Parent
  <2>2. CASE n # 1
    <3> DEFINE m == n - 1
    <3>1. m \in 1 .. n /\ n = m + 1
      <4> HIDE DEF n
      <4> QED BY <1>1, <2>2
    <3>2. Parent(d) = Chain[d][m]
      BY <2>2 DEF Parent
    <3>3. Parent(d) \in Up(d)
      BY <3>1, <3>2, ChainType DEF Up, Range
    <3>4. /\ Parent(d) \in Dir
          /\ Len(Chain[Parent(d)]) = m
          /\ \A j \in 1 .. m : Chain[Parent(d)][j] = Chain[d][j]
      <4> HIDE DEF m
      <4> QED BY <3>1, <3>2, ChainPrefix
    <3> HIDE DEF m, n
    <3> QED BY <3>1, <3>3, <3>4
  <2> QED BY <2>1, <2>2
<1>3. d \notin Up(Parent(d))
  <2> SUFFICES ASSUME d \in Up(Parent(d)) PROVE FALSE
    OBVIOUS
  <2>1. Len(Chain[d]) <= Len(Chain[Parent(d)])
    BY <1>2, Depth, ChainType
  <2> QED BY <1>1, <1>2, <2>1, ChainType
<1>4. ASSUME NEW e \in Up(d), e # d
      PROVE  e \in Up(Parent(d))
  <2>1. CASE e = Root
    BY <1>2, <2>1, UpType
  <2>2. CASE e # Root
    <3>1. PICK i \in 1 .. n : e = Chain[d][i]
      BY <2>2, ChainType DEF Up, Range
    <3>2. i # n
      BY <1>1, <1>4, <3>1
    <3>3. i \in 1 .. Len(Chain[Parent(d)]) /\ e = Chain[Parent(d)][i]
      BY <1>1, <1>2, <3>1, <3>2, ChainType
    <3> QED BY <1>2, <3>3, ChainType DEF Up, Range
  <2> QED BY <2>1, <2>2
<1> QED BY <1>2, <1>3, <1>4

\* Between d and a directory above it there is one in the latter.
LEMMA NextBelow ==
  ASSUME NEW d \in Dir, NEW e \in Up(d), e # d
  PROVE  \E c \in Up(d) : c \in Dir \ {Root} /\ Parent(c) = e
<1> DEFINE n == Len(Chain[d])
<1>1. CASE e = Root
  <2>1. d # Root
    BY <1>1
  <2>2. 1 \in 1 .. n
    BY <2>1, ChainType
  <2>3. Chain[d][1] \in Dir \ {Root} /\ Len(Chain[Chain[d][1]]) = 1
    BY <2>2, ChainPrefix
  <2>4. Chain[d][1] \in Up(d)
    BY <2>2, ChainType DEF Up, Range
  <2> QED BY <1>1, <2>3, <2>4 DEF Parent
<1>2. CASE e # Root
  <2> DEFINE i == Len(Chain[e])
  <2>1. i \in 1 .. n /\ Chain[d][i] = e
    BY <1>2, Depth
  <2>2. n \in Nat /\ (d # Root => n > 0 /\ Chain[d][n] = d)
    BY ChainType
  <2>3. d # Root /\ i # n
    <3>1. ASSUME d = Root PROVE n = 0
      BY <3>1, ChainType
    <3>2. n # 0 /\ Chain[d][i] # d
      BY <2>1, <2>2
    <3> HIDE DEF n, i
    <3> QED BY <2>2, <3>1, <3>2
  <2> DEFINE j == i + 1
             c == Chain[d][j]
  <2>4. j \in 1 .. n
    BY <2>1, <2>2, <2>3
  <2>5. c \in Dir \ {Root} /\ Len(Chain[c]) = j /\ Chain[c][i] = Chain[d][i]
    BY <2>1, <2>2, <2>4, ChainPrefix
  <2>6. Parent(c) = e
    <3>1. j # 1 /\ j - 1 = i
      BY <2>1, <2>2
    <3> HIDE DEF c, i
    <3> QED BY <2>1, <2>5, <3>1 DEF Parent
  <2>7. c \in Up(d)
    BY <2>4, ChainType DEF Up, Range
  <2> QED BY <2>5, <2>6, <2>7
<1> QED BY <1>1, <1>2
-----------------------------------------------------------------------------
(* Paths.                                                                  *)

\* A path is a sequence of names, one for each directory of the chain.
LEMMA PathType ==
  ASSUME name \in [Dir -> Name], NEW d \in Dir
  PROVE  /\ PathOf(d) \in Seq(Name)
         /\ Len(PathOf(d)) = Len(Chain[d])
         /\ \A i \in 1 .. Len(Chain[d]) : PathOf(d)[i] = name[Chain[d][i]]
<1>1. \A i \in 1 .. Len(Chain[d]) : name[Chain[d][i]] \in Name
  BY ChainType
<1> QED BY <1>1, ChainType DEF PathOf

\* The path of a directory is that of its parent and its own name.
LEMMA PathAppend ==
  ASSUME name \in [Dir -> Name], NEW d \in Dir, d # Root
  PROVE  PathOf(d) = Append(PathOf(Parent(d)), name[d])
<1> DEFINE p == Parent(d)
           n == Len(Chain[p])
<1>1. /\ p \in Dir
      /\ Len(Chain[d]) = n + 1
      /\ \A i \in 1 .. n : Chain[p][i] = Chain[d][i]
  BY ParentType
<1>2. n \in Nat
  BY <1>1, ChainType
<1>3. Chain[d][n + 1] = d
  BY <1>1, ChainType
<1>4. /\ PathOf(p) \in Seq(Name) /\ PathOf(d) \in Seq(Name)
      /\ Len(PathOf(p)) = n /\ Len(PathOf(d)) = n + 1
      /\ \A i \in 1 .. n : PathOf(p)[i] = name[Chain[d][i]]
      /\ \A i \in 1 .. n + 1 : PathOf(d)[i] = name[Chain[d][i]]
  BY <1>1, PathType
<1> DEFINE s == PathOf(p)
           t == PathOf(d)
<1>5. \A i \in 1 .. n : t[i] = s[i]
  BY <1>2, <1>4
<1>6. t[n + 1] = name[d]
  BY <1>2, <1>3, <1>4
<1>7. name[d] \in Name
  OBVIOUS
<1> HIDE DEF s, t, n, p
<1> SUFFICES t = Append(s, name[d])
  BY DEF s, t, p
<1>8. /\ s \in Seq(Name) /\ t \in Seq(Name)
      /\ Len(s) = n /\ Len(t) = n + 1
  BY <1>4 DEF s, t
<1>9. Append(s, name[d]) \in Seq(Name) /\ Len(Append(s, name[d])) = n + 1
  BY <1>7, <1>8
<1>10. \A i \in 1 .. n + 1 : t[i] = Append(s, name[d])[i]
  BY <1>2, <1>5, <1>6, <1>7, <1>8
<1> QED BY <1>8, <1>9, <1>10, SeqEqual

-----------------------------------------------------------------------------
(* The inductive invariant.                                                *)

\* The directories there since the start, under the same path.
Steady == { d \in Dir : Exists(d) /\ d \notin unsteady }

\* The tree: what is there can be reached, by one path, and what is steady is in
\* steady directories only.
TreeInv ==
  /\ \A d \in Dir : place[d] = "here" => Exists(d)
  /\ \A d, e \in Dir : Exists(d) /\ Exists(e) /\ PathOf(d) = PathOf(e) => d = e
  /\ \A d \in Dir : place[d] = "absent" => d \in unsteady
  /\ \A d \in Dir : \A e \in Up(d) : e \in unsteady => d \in unsteady
  /\ place[Root] = "here"

\* The path of an event's object, as the box makes it.
MadePath(event) ==
  IF event.name = "" THEN descriptor[event.wd]
  ELSE Append(descriptor[event.wd], event.name)

\* The kinds of events, and their records.
Mask == {"create", "modify", "delete", "delete_self", "ignored", "move", "move_self"}

EventType ==
  [wd : Dir, mask : Mask, name : Name \cup FileName \cup {""},
   true : Seq(Name \cup FileName)]

\* The path the box makes of an event is that of its object, unless its
\* directory was renamed since it is watched.
Truthful ==
  { event \in EventType :
      /\ event.wd \in DOMAIN descriptor
      /\ event.wd \in moved \/ event.true = MadePath(event) }

\* The watches: a descriptor leads to the path its directory has, or has had
\* until it was renamed, and so do the queued events.
WatchInv ==
  /\ moved \subseteq Dir
  /\ descriptor \in [DOMAIN descriptor -> Seq(Name)]
  /\ \A d \in DOMAIN descriptor :
       place[d] = "gone" \/ (place[d] = "here" /\ d \in watched)
  /\ \A d \in watched \ moved : descriptor[d] = PathOf(d)
  /\ events \in Seq(Truthful)

\* The path of d was scanned.
WasScanned(d) == \E s \in scanned : s[1] = PathOf(d)

\* A path still to be scanned leads to d.
IsAhead(d) == \E e \in Up(d), i \in DOMAIN pending : pending[i] = PathOf(e)

\* The scan: a steady directory was scanned or still will be; a scanned one has
\* an entry of its own or a twin; an entry gets a watch or still will.
ScanInv ==
  /\ phase = "scanning" => \A d \in Steady : WasScanned(d) \/ IsAhead(d)
  /\ phase \in {"watching", "running"} => \A d \in Steady : WasScanned(d)
  /\ scanned \subseteq Seq(Name) \X Name \X [FileName -> 0 .. MaxChanges + 1]
  /\ \A entry \in entries : \E t \in scanned :
       entry = [hash |-> <<ListingHash(t[3]), t[2]>>, path |-> t[1]]
  /\ \A s \in scanned :
       \/ \E entry \in entries : entry.path = s[1]
       \/ \E t \in scanned : t[1] # s[1] /\ <<s[2], s[3]>> = <<t[2], t[3]>>
  /\ phase \in {"watching", "running"} =>
       \A entry \in entries, d \in Steady :
         entry.path = PathOf(d) => entry \in toWatch \/ d \in watched
  /\ phase = "running" => toWatch = {}

\* All of it together is inductive.
BoxInv == BoxTypeOK /\ TreeInv /\ WatchInv /\ ScanInv /\ ReportsTruePath

\* At first nothing is scanned, watched or reported, and paths are as users
\* gave them.
LEMMA BoxInvInit == Init => BoxInv
<1> SUFFICES ASSUME Init PROVE BoxInv
  OBVIOUS
<1> USE DEF Init
<1>1. BoxTypeOK
  <2>1. MaxChanges \in Nat
    BY BoxAssumption
  <2>2. files \in [Dir -> [FileName -> {0, 1}]]
    OBVIOUS
  <2>3. files \in [Dir -> [FileName -> 0 .. MaxChanges + 1]]
    BY <2>1, <2>2
  <2>4. pending \in Seq(Seq(Name))
    OBVIOUS
  <2>5. place \in [Dir -> {"absent", "here", "gone"}]
    OBVIOUS
  <2> QED BY <2>1, <2>3, <2>4, <2>5 DEF BoxTypeOK
<1>2. TreeInv
  <2>1. \A d \in Dir : place[d] = "here" <=> d \notin unsteady
    OBVIOUS
  <2>2. Root \in Dir /\ place[Root] = "here"
    BY <2>1, BoxAssumption
  <2>3. ASSUME NEW d \in Dir, NEW e \in Dir, Exists(d), Exists(e),
               PathOf(d) = PathOf(e)
        PROVE  d = e
    <3>1. place[d] = "here"
      BY <2>3, UpType DEF Exists
    <3>2. Cardinality(At(PathOf(d))) = 1
      BY <3>1
    <3>3. d \in At(PathOf(d)) /\ e \in At(PathOf(d))
      BY <2>3 DEF At
    <3>4. IsFiniteSet(At(PathOf(d)))
      BY BoxAssumption, FS_Subset DEF At
    <3> QED BY <3>2, <3>3, <3>4, FS_Singleton
  <2>4. ASSUME NEW d \in Dir, NEW e \in Up(d), e \in unsteady
        PROVE  d \in unsteady
    BY <2>1, <2>4, UpType DEF Exists
  <2>5. \A d \in Dir : place[d] = "here" => Exists(d)
    OBVIOUS
  <2>6. \A d \in Dir : place[d] = "absent" => d \in unsteady
    OBVIOUS
  <2> QED BY <2>2, <2>3, <2>4, <2>5, <2>6 DEF TreeInv
<1>3. WatchInv
  <2>1. DOMAIN descriptor = {} /\ descriptor \in [{} -> Seq(Name)]
    OBVIOUS
  <2>2. events \in Seq(Truthful)
    OBVIOUS
  <2> QED BY <2>1, <2>2 DEF WatchInv
<1>4. ScanInv
  <2>1. ASSUME NEW d \in Dir PROVE IsAhead(d)
    <3>1. PathOf(Root) = <<>>
      <4>1. Len(Chain[Root]) = 0
        BY <2>1, ChainType
      <4>2. PathOf(Root) = [i \in 1 .. 0 |-> name[Chain[Root][i]]]
        BY <4>1 DEF PathOf
      <4> QED BY <4>2
    <3>2. 1 \in DOMAIN pending /\ pending[1] = <<>>
      OBVIOUS
    <3> QED BY <3>1, <3>2, UpType DEF IsAhead
  <2> QED BY <2>1 DEF ScanInv, Steady
<1>5. ReportsTruePath
  BY DEF ReportsTruePath, NoReport, IsAtOrIn
<1> QED BY <1>1, <1>2, <1>3, <1>4, <1>5 DEF BoxInv

-----------------------------------------------------------------------------
(* What changes by users preserve.                                         *)

\* Events that are heard are true, if those of watched directories are.
LEMMA HeardTrue ==
  ASSUME NEW S, NEW event, event.wd \in watched => event \in S
  PROVE  Heard(event) \in Seq(S)
BY DEF Heard

\* Three events queued one after the other.
LEMMA ThreeQueued ==
  ASSUME NEW S, NEW q \in Seq(S), NEW T, S \subseteq T,
         NEW r \in Seq(T), NEW s \in Seq(T), NEW t \in Seq(T)
  PROVE  q \o r \o s \o t \in Seq(T)
<1>1. q \in Seq(T)
  BY SeqMonotonic
<1>2. q \o r \in Seq(T)
  BY <1>1, ConcatProperties
<1>3. q \o r \o s \in Seq(T)
  BY <1>2, ConcatProperties
<1> QED BY <1>3, ConcatProperties

\* An event of a directory carries the path the box will make of it.
LEMMA EventTrue ==
  ASSUME BoxTypeOK, WatchInv, NEW d \in Dir, NEW mask \in Mask,
         NEW entry \in Name \cup FileName \cup {""}
  PROVE  /\ Event(d, mask, entry) \in EventType
         /\ Event(d, mask, entry).wd = d
         /\ d \in watched => Event(d, mask, entry) \in Truthful
<1> DEFINE event == Event(d, mask, entry)
<1>1. PathOf(d) \in Seq(Name)
  BY PathType DEF BoxTypeOK
<1>2. PathOf(d) \in Seq(Name \cup FileName)
  BY <1>1, SeqMonotonic
<1>3. event.true \in Seq(Name \cup FileName)
  <2>1. entry # "" => Append(PathOf(d), entry) \in Seq(Name \cup FileName)
    BY <1>2, AppendProperties
  <2> QED BY <1>2, <2>1 DEF Event
<1>4. /\ event.wd = d /\ event.mask = mask /\ event.name = entry
      /\ event.true = IF entry = "" THEN PathOf(d) ELSE Append(PathOf(d), entry)
  BY DEF Event
<1>5. event \in EventType
  BY <1>3 DEF EventType, Event
<1>6. ASSUME d \in watched
      PROVE  d \in DOMAIN descriptor /\ (d \in moved \/ descriptor[d] = PathOf(d))
  BY <1>6 DEF BoxTypeOK, WatchInv
<1> HIDE DEF event
<1> SUFFICES event \in EventType /\ event.wd = d /\ (d \in watched => event \in Truthful)
  BY DEF event
<1> QED BY <1>4, <1>5, <1>6 DEF Truthful, MadePath

\* A user's change leaves the watches right if it queues true events and moves
\* no watched directory without a record of it.
LEMMA WatchKept ==
  ASSUME BoxTypeOK, WatchInv, descriptor' = descriptor, watched' \subseteq watched,
         moved \subseteq moved', moved' \subseteq Dir,
         \A d \in DOMAIN descriptor : d \in watched
           => place'[d] = "gone" \/ (place'[d] = "here" /\ d \in watched'),
         \A d \in DOMAIN descriptor : place[d] = "gone" => place'[d] = "gone",
         \A d \in watched' \ moved' : PathOf(d)' = PathOf(d),
         events' \in Seq(Truthful')
  PROVE  WatchInv'
<1>4. \A d \in DOMAIN descriptor :
        place'[d] = "gone" \/ (place'[d] = "here" /\ d \in watched')
  BY DEF WatchInv
<1>5. \A d \in watched' \ moved' : descriptor'[d] = PathOf(d)'
  BY DEF WatchInv
<1>6. descriptor' \in [DOMAIN descriptor' -> Seq(Name)]
  BY DEF WatchInv
<1> QED BY <1>4, <1>5, <1>6 DEF WatchInv

\* A user's change leaves the scan right if what is steady then was, under the
\* same path, and as much watched.
LEMMA ScanKept ==
  ASSUME ScanInv, UNCHANGED boxVars, Steady' \subseteq Steady,
         \A d \in Steady' : \A e \in Up(d) : PathOf(e)' = PathOf(e),
         \A d \in Steady' : d \in watched => d \in watched'
  PROVE  ScanInv'
<1>0. \A d \in Steady' : d \in Dir /\ d \in Steady /\ PathOf(d)' = PathOf(d)
  BY UpType DEF Steady
<1>1. ASSUME NEW d \in Steady'
      PROVE  (WasScanned(d) => WasScanned(d)') /\ (IsAhead(d) => IsAhead(d)')
  BY <1>0, <1>1 DEF WasScanned, IsAhead, boxVars
<1>2. phase' = "scanning" => \A d \in Steady' : WasScanned(d)' \/ IsAhead(d)'
  BY <1>0, <1>1 DEF ScanInv, boxVars
<1>3. phase' \in {"watching", "running"} => \A d \in Steady' : WasScanned(d)'
  BY <1>0, <1>1 DEF ScanInv, boxVars
<1>4. phase' \in {"watching", "running"} =>
        \A entry \in entries', d \in Steady' :
          entry.path = PathOf(d)' => entry \in toWatch' \/ d \in watched'
  BY <1>0 DEF ScanInv, boxVars
<1> QED BY <1>2, <1>3, <1>4 DEF ScanInv, boxVars

\* As long as directories stay where they are, so do their paths.
LEMMA TreeKept ==
  ASSUME UNCHANGED <<place, name, unsteady>>
  PROVE  /\ \A d : PathOf(d)' = PathOf(d)
         /\ \A d : Exists(d)' <=> Exists(d)
         /\ TreeInv => TreeInv'
         /\ Steady' = Steady
<1>1. \A d : PathOf(d)' = PathOf(d)
  BY DEF PathOf
<1>2. \A d : Exists(d)' <=> Exists(d)
  BY DEF Exists
<1> QED BY <1>1, <1>2 DEF TreeInv, Steady

\* Files are written and removed.
LEMMA FileStepInv ==
  ASSUME BoxInv, NEW d \in Dir, NEW f \in FileName,
         WriteFile(d, f) \/ RemoveFile(d, f)
  PROVE  BoxInv'
<1> USE DEF BoxInv
<1>1. UNCHANGED <<place, name, unsteady, boxVars, watched, moved>>
  BY DEF WriteFile, RemoveFile
<1>2. BoxTypeOK'
  <2>1. changes \in Nat /\ MaxChanges \in Nat /\ changes < MaxChanges
        /\ changes' = changes + 1
    BY BoxAssumption DEF WriteFile, RemoveFile, Change, BoxTypeOK
  <2>2. changes + 2 \in 0 .. MaxChanges + 1 /\ 0 \in 0 .. MaxChanges + 1
    BY <2>1
  <2>3. PICK k \in 0 .. MaxChanges + 1 : files' = [files EXCEPT ![d][f] = k]
    BY <2>2 DEF WriteFile, RemoveFile
  <2>4. files' \in [Dir -> [FileName -> 0 .. MaxChanges + 1]]
    BY <2>3 DEF BoxTypeOK
  <2> QED BY <1>1, <2>1, <2>4 DEF BoxTypeOK, boxVars
<1>3. \A e : PathOf(e)' = PathOf(e)
  BY <1>1, TreeKept
<1>4. TreeInv' /\ Steady' = Steady
  BY <1>1, TreeKept
<1>5. WatchInv'
  <2>1. PICK mask \in Mask : events' = events \o Heard(Event(d, mask, f))
    <3>1. CASE WriteFile(d, f)
      <4> DEFINE m == IF files[d][f] = 0 THEN "create" ELSE "modify"
      <4>1. m \in Mask /\ events' = events \o Heard(Event(d, m, f))
        BY <3>1 DEF WriteFile, Mask
      <4> QED BY <4>1
    <3>2. CASE RemoveFile(d, f)
      <4> DEFINE m == "delete"
      <4>1. m \in Mask /\ events' = events \o Heard(Event(d, m, f))
        BY <3>2 DEF RemoveFile, Mask
      <4> QED BY <4>1
    <3> QED BY <3>1, <3>2
  <2>2. Heard(Event(d, mask, f)) \in Seq(Truthful)
    BY EventTrue, HeardTrue
  <2>3. Truthful' = Truthful
    BY <1>1 DEF Truthful, MadePath, boxVars
  <2>4. events' \in Seq(Truthful')
    BY <2>1, <2>2, <2>3, ConcatProperties DEF WatchInv
  <2> QED BY <2>4, <1>1, <1>3, <2>1, <2>2, <2>3, WatchKept DEF boxVars, WatchInv
<1>6. ScanInv'
  BY <1>1, <1>3, <1>4, ScanKept
<1> QED BY <1>1, <1>2, <1>4, <1>5, <1>6 DEF ReportsTruePath, boxVars

\* A directory is made: with it nothing else comes into being, since what lies
\* below it is absent too.
LEMMA MakeDirInv ==
  ASSUME BoxInv, NEW d \in Dir, MakeDir(d)
  PROVE  BoxInv'
<1> USE DEF BoxInv
<1>1. /\ UNCHANGED <<name, files, unsteady, boxVars, watched, moved>>
      /\ place' = [place EXCEPT ![d] = "here"]
      /\ place[d] = "absent"
      /\ Exists(Parent(d))
      /\ At(PathOf(d)) = {}
      /\ events' = events \o Heard(Event(Parent(d), "create", name[d]))
  BY DEF MakeDir
<1>2. d # Root /\ d \in unsteady
  BY <1>1 DEF TreeInv
<1>3. \A e : PathOf(e)' = PathOf(e)
  BY <1>1 DEF PathOf
<1>4. \A e \in Dir : place'[e] = IF e = d THEN "here" ELSE place[e]
  BY <1>1 DEF BoxTypeOK
<1>5. ASSUME NEW e \in Dir
      PROVE  Exists(e)' <=> Exists(e) \/ e = d
  <2>1. Exists(e) => Exists(e)'
    BY <1>1, <1>4, UpType DEF Exists
  <2>2. Exists(d)'
    <3>1. \A x \in Up(d) : x = d \/ x \in Up(Parent(d))
      BY <1>2, ParentType
    <3> QED BY <1>1, <1>4, <3>1, UpType DEF Exists
  <2>3. ASSUME Exists(e)', e # d
        PROVE  Exists(e)
    <3>1. place'[e] = "here"
      BY <2>3, UpType DEF Exists
    <3> QED BY <1>4, <2>3, <3>1 DEF TreeInv
  <2> QED BY <2>1, <2>2, <2>3
<1>6. TreeInv'
  <2>1. \A e \in Dir : place'[e] = "here" => Exists(e)'
    BY <1>4, <1>5 DEF TreeInv
  <2>2. \A e \in Dir : Exists(e) => PathOf(e) # PathOf(d)
    BY <1>1 DEF At
  <2>3. ASSUME NEW e \in Dir, NEW x \in Dir, Exists(e)', Exists(x)',
               PathOf(e)' = PathOf(x)'
        PROVE  e = x
    <3>1. (Exists(e) \/ e = d) /\ (Exists(x) \/ x = d) /\ PathOf(e) = PathOf(x)
      BY <1>3, <1>5, <2>3
    <3> QED BY <2>2, <3>1 DEF TreeInv
  <2>4. place'[Root] = "here"
    BY <1>4, BoxAssumption DEF TreeInv
  <2> QED BY <1>1, <1>4, <2>1, <2>3, <2>4 DEF TreeInv
<1>7. Steady' \subseteq Steady
  BY <1>1, <1>2, <1>5 DEF Steady
<1>8. WatchInv'
  <2>1. Parent(d) \in Dir /\ name[d] \in Name
    BY <1>2, ParentType DEF BoxTypeOK
  <2>2. Heard(Event(Parent(d), "create", name[d])) \in Seq(Truthful)
    <3> DEFINE m == "create"
    <3>1. m \in Mask
      BY DEF Mask
    <3> HIDE DEF m
    <3>2. Heard(Event(Parent(d), m, name[d])) \in Seq(Truthful)
      BY <2>1, <3>1, EventTrue, HeardTrue
    <3> QED BY <3>2 DEF m
  <2>3. Truthful' = Truthful
    BY <1>1 DEF Truthful, MadePath, boxVars
  <2>4. \A e \in DOMAIN descriptor : e \in Dir /\ place'[e] = place[e]
    BY <1>1, <1>4 DEF WatchInv, BoxTypeOK
  <2>5. events' \in Seq(Truthful')
    BY <1>1, <2>2, <2>3, ConcatProperties DEF WatchInv
  <2> QED BY <1>1, <1>3, <2>4, <2>5, WatchKept DEF boxVars, WatchInv
<1>9. ScanInv'
  BY <1>1, <1>3, <1>7, ScanKept
<1>10. BoxTypeOK'
  <2>1. changes' \in 0 .. MaxChanges
    BY BoxAssumption DEF MakeDir, Change, BoxTypeOK
  <2> QED BY <1>1, <2>1 DEF BoxTypeOK, boxVars
<1> QED BY <1>1, <1>6, <1>8, <1>9, <1>10 DEF ReportsTruePath, boxVars

\* An empty directory is removed: what lay below it was gone before.
LEMMA RemoveDirInv ==
  ASSUME BoxInv, NEW d \in Dir, RemoveDir(d)
  PROVE  BoxInv'
<1> USE DEF BoxInv
<1>1. /\ UNCHANGED <<name, files, unsteady, boxVars, moved>>
      /\ place' = [place EXCEPT ![d] = "gone"]
      /\ watched' = watched \ {d}
      /\ d # Root
      /\ Children(d) = {}
  BY DEF RemoveDir
<1>2. \A e : PathOf(e)' = PathOf(e)
  BY <1>1 DEF PathOf
<1>3. \A e \in Dir : place'[e] = IF e = d THEN "gone" ELSE place[e]
  BY <1>1 DEF BoxTypeOK
<1>4. ASSUME NEW e \in Dir
      PROVE  Exists(e)' => Exists(e) /\ e # d
  BY <1>3, UpType DEF Exists
<1>5. ASSUME NEW e \in Dir, place'[e] = "here"
      PROVE  Exists(e)'
  <2>1. Exists(e) /\ e # d
    BY <1>3, <1>5 DEF TreeInv
  <2>2. d \notin Up(e)
    <3> SUFFICES ASSUME d \in Up(e) PROVE FALSE
      OBVIOUS
    <3>1. PICK c \in Up(e) : c \in Dir \ {Root} /\ Parent(c) = d
      BY <2>1, NextBelow
    <3>2. place[c] = "here"
      BY <2>1 DEF Exists
    <3> QED BY <1>1, <3>1, <3>2 DEF Children
  <2> QED BY <1>3, <2>1, <2>2, UpType DEF Exists
<1>6. TreeInv'
  <2>1. ASSUME NEW e \in Dir, NEW x \in Dir, Exists(e)', Exists(x)',
               PathOf(e)' = PathOf(x)'
        PROVE  e = x
    BY <1>2, <1>4, <2>1 DEF TreeInv
  <2>2. place'[Root] = "here"
    BY <1>1, <1>3, BoxAssumption DEF TreeInv
  <2> QED BY <1>1, <1>3, <1>5, <2>1, <2>2 DEF TreeInv
<1>7. Steady' \subseteq Steady /\ d \notin Steady'
  BY <1>1, <1>4 DEF Steady
<1>8. WatchInv'
  <2> DEFINE m1 == "delete_self"
             m2 == "ignored"
             m3 == "delete"
             none == ""
  <2>1. m1 \in Mask /\ m2 \in Mask /\ m3 \in Mask
    BY DEF Mask
  <2>2. Parent(d) \in Dir /\ name[d] \in Name \cup FileName \cup {""}
        /\ none \in Name \cup FileName \cup {""}
    BY <1>1, ParentType DEF BoxTypeOK
  <2>3. events' = events \o Heard(Event(d, m1, none)) \o Heard(Event(d, m2, none))
                         \o Heard(Event(Parent(d), m3, name[d]))
    BY DEF RemoveDir
  <2> HIDE DEF m1, m2, m3, none
  <2>4. /\ Heard(Event(d, m1, none)) \in Seq(Truthful)
        /\ Heard(Event(d, m2, none)) \in Seq(Truthful)
        /\ Heard(Event(Parent(d), m3, name[d])) \in Seq(Truthful)
    BY <2>1, <2>2, EventTrue, HeardTrue
  <2>5. events' \in Seq(Truthful)
    <3>1. events \in Seq(Truthful)
      BY DEF WatchInv
    <3> QED BY <2>3, <2>4, <3>1, ThreeQueued
  <2>6. Truthful' = Truthful
    BY <1>1 DEF Truthful, MadePath, boxVars
  <2>7. \A e \in DOMAIN descriptor : e \in watched
          => place'[e] = "gone" \/ (place'[e] = "here" /\ e \in watched')
    BY <1>1, <1>3 DEF WatchInv, BoxTypeOK
  <2>8. \A e \in DOMAIN descriptor : place[e] = "gone" => place'[e] = "gone"
    BY <1>3 DEF BoxTypeOK
  <2>9. descriptor' = descriptor /\ watched' \subseteq watched
        /\ moved \subseteq moved' /\ moved' \subseteq Dir
    BY <1>1 DEF boxVars, WatchInv
  <2> QED BY <1>2, <2>5, <2>6, <2>7, <2>8, <2>9, WatchKept
<1>9. ScanInv'
  BY <1>1, <1>2, <1>7, ScanKept
<1>10. BoxTypeOK'
  <2>1. changes' \in 0 .. MaxChanges
    <3>1. Change
      BY DEF RemoveDir
    <3> QED BY <3>1, BoxAssumption DEF Change, BoxTypeOK
  <2> QED BY <1>1, <2>1 DEF BoxTypeOK, boxVars
<1> QED BY <1>1, <1>6, <1>8, <1>9, <1>10 DEF ReportsTruePath, boxVars

\* d gets another name.
Renames(d, to) == name' = [name EXCEPT ![d] = to]

\* Below what is renamed, the path changes in one place.
LEMMA RenamedPath ==
  ASSUME BoxTypeOK, NEW d \in Dir, NEW to \in Name, NEW e \in Dir,
         Renames(d, to)
  PROVE  /\ PathOf(e)' \in Seq(Name)
         /\ Len(PathOf(e)') = Len(Chain[e])
         /\ \A i \in 1 .. Len(Chain[e]) :
              PathOf(e)'[i] = IF Chain[e][i] = d THEN to ELSE name[Chain[e][i]]
         /\ d \notin Up(e) => PathOf(e)' = PathOf(e)
<1>1. name' \in [Dir -> Name]
  BY DEF BoxTypeOK, Renames
<1>2. \A i \in 1 .. Len(Chain[e]) : Chain[e][i] \in Dir
  BY ChainType
<1>3. \A i \in 1 .. Len(Chain[e]) :
        name'[Chain[e][i]] = IF Chain[e][i] = d THEN to ELSE name[Chain[e][i]]
  BY <1>2 DEF BoxTypeOK, Renames
<1>4. /\ PathOf(e)' = [i \in 1 .. Len(Chain[e]) |-> name'[Chain[e][i]]]
      /\ Len(Chain[e]) \in Nat
  BY ChainType DEF PathOf
<1>5. PathOf(e)' \in Seq(Name) /\ Len(PathOf(e)') = Len(Chain[e])
  BY <1>1, <1>2, <1>4
<1>6. ASSUME d \notin Up(e)
      PROVE  PathOf(e)' = PathOf(e)
  <2>1. \A i \in 1 .. Len(Chain[e]) : Chain[e][i] # d
    BY <1>6, ChainType DEF Up, Range
  <2> QED BY <1>3, <1>4, <2>1 DEF PathOf
<1> QED BY <1>3, <1>4, <1>5, <1>6

\* Nothing outside what is renamed gets a path below its new name.
LEMMA RenamedApart ==
  ASSUME BoxTypeOK, NEW d \in Dir, d # Root, NEW to \in Name,
         Renames(d, to),
         At(Append(PathOf(Parent(d)), to)) = {},
         NEW e \in Dir, d \in Up(e),
         NEW x \in Dir, d \notin Up(x), Exists(x), PathOf(e)' = PathOf(x)'
  PROVE  FALSE
<1> DEFINE m == Len(Chain[d])
           y == Chain[x][m]
           p == Parent(d)
           new == Append(PathOf(p), to)
<1>1. m \in 1 .. Len(Chain[e]) /\ Chain[e][m] = d
  BY Depth
<1>2. Len(Chain[e]) = Len(Chain[x])
  BY RenamedPath
<1>3. m \in 1 .. Len(Chain[x])
  BY <1>1, <1>2
<1>4. y \in Dir /\ Len(Chain[y]) = m /\ \A j \in 1 .. m : Chain[y][j] = Chain[x][j]
  BY <1>3, ChainPrefix
<1>5. y \in Up(x)
  BY <1>3, ChainType DEF Up, Range
<1>6. Exists(y)
  BY <1>5, UpTransitive DEF Exists
<1>7. /\ p \in Dir /\ m = Len(Chain[p]) + 1 /\ Len(Chain[p]) \in Nat
      /\ \A j \in 1 .. Len(Chain[p]) : Chain[p][j] = Chain[d][j]
  BY ParentType, ChainType
<1>8. \A j \in 1 .. m : Chain[e][j] = Chain[d][j]
  BY <1>1, ChainPrefix
<1>9. /\ PathOf(p) \in Seq(Name) /\ Len(PathOf(p)) = Len(Chain[p])
      /\ \A j \in 1 .. Len(Chain[p]) : PathOf(p)[j] = name[Chain[p][j]]
  BY <1>7, PathType DEF BoxTypeOK
<1>10. /\ new \in Seq(Name) /\ Len(new) = m /\ new[m] = to
       /\ \A j \in 1 .. Len(Chain[p]) : new[j] = name[Chain[d][j]]
  BY <1>7, <1>9, AppendProperties
<1>11. /\ PathOf(y) \in Seq(Name) /\ Len(PathOf(y)) = m
       /\ \A j \in 1 .. m : PathOf(y)[j] = name[Chain[x][j]]
  BY <1>4, PathType DEF BoxTypeOK
<1>12. \A j \in 1 .. Len(Chain[x]) : Chain[x][j] # d
  BY ChainType DEF Up, Range
<1>13. \A j \in 1 .. Len(Chain[p]) : Chain[d][j] # d
  <2>1. d \notin Up(p) /\ p \in Dir
    BY ParentType
  <2>2. \A j \in 1 .. Len(Chain[p]) : Chain[p][j] \in Up(p)
    BY <2>1, ChainType DEF Up, Range
  <2> HIDE DEF p
  <2> QED BY <1>7, <2>1, <2>2
<1>14. ASSUME NEW j \in 1 .. m
       PROVE  PathOf(y)[j] = new[j]
  <2>1. j \in 1 .. Len(Chain[x]) /\ j \in 1 .. Len(Chain[e])
    BY <1>1, <1>2, <1>3, <1>7
  <2>2. PathOf(x)'[j] = name[Chain[x][j]]
    BY <1>12, <2>1, RenamedPath
  <2>3. PathOf(e)'[j] = IF Chain[d][j] = d THEN to ELSE name[Chain[d][j]]
    BY <1>8, <2>1, RenamedPath
  <2>4. PathOf(y)[j] = IF Chain[d][j] = d THEN to ELSE name[Chain[d][j]]
    BY <1>11, <2>2, <2>3
  <2>5. CASE j = m
    <3>1. Chain[d][j] = d
      BY <2>5, ChainType
    <3> QED BY <1>10, <2>4, <2>5, <3>1
  <2>6. CASE j # m
    <3>1. j \in 1 .. Len(Chain[p])
      BY <1>7, <2>6
    <3> QED BY <1>10, <1>13, <2>4, <3>1
  <2> QED BY <2>5, <2>6
<1>15. PathOf(y) = new
  <2> HIDE DEF y, new, m
  <2> QED BY <1>10, <1>11, <1>14, SeqEqual
<1> QED BY <1>4, <1>6, <1>15 DEF At

\* Two directories below what is renamed have as different paths as before.
LEMMA RenamedTogether ==
  ASSUME BoxTypeOK, NEW d \in Dir, d # Root, NEW to \in Name,
         Renames(d, to),
         NEW e \in Dir, d \in Up(e), NEW x \in Dir, d \in Up(x),
         PathOf(e)' = PathOf(x)'
  PROVE  PathOf(e) = PathOf(x)
<1> DEFINE m == Len(Chain[d])
<1>1. /\ m \in 1 .. Len(Chain[e]) /\ Chain[e][m] = d
      /\ m \in 1 .. Len(Chain[x]) /\ Chain[x][m] = d
  BY Depth
<1>2. Len(Chain[e]) = Len(Chain[x])
  BY RenamedPath
<1>3. /\ PathOf(e) \in Seq(Name) /\ Len(PathOf(e)) = Len(Chain[e])
      /\ PathOf(x) \in Seq(Name) /\ Len(PathOf(x)) = Len(Chain[x])
  BY PathType DEF BoxTypeOK
<1>4. ASSUME NEW i \in 1 .. Len(Chain[e])
      PROVE  PathOf(e)[i] = PathOf(x)[i]
  <2>1. PathOf(e)[i] = name[Chain[e][i]] /\ PathOf(x)[i] = name[Chain[x][i]]
    BY <1>2, PathType DEF BoxTypeOK
  <2>2. CASE i = m
    BY <1>1, <2>1, <2>2
  <2>3. CASE i # m
    <3>1. Len(Chain[Chain[e][i]]) = i /\ Len(Chain[Chain[x][i]]) = i
      BY <1>2, ChainPrefix
    <3>2. Chain[e][i] # d /\ Chain[x][i] # d
      BY <2>3, <3>1
    <3>3. PathOf(e)'[i] = name[Chain[e][i]] /\ PathOf(x)'[i] = name[Chain[x][i]]
      BY <1>2, <3>2, RenamedPath
    <3> QED BY <2>1, <3>3
  <2> QED BY <2>2, <2>3
<1> QED BY <1>2, <1>3, <1>4, SeqEqual

\* A directory is renamed: what lies below it is no longer steady and, if
\* watched, on record as moved.
LEMMA RenameDirInv ==
  ASSUME BoxInv, NEW d \in Dir, NEW to \in Name, RenameDir(d, to)
  PROVE  BoxInv'
<1> USE DEF BoxInv
<1>1. /\ UNCHANGED <<place, files, boxVars, watched>>
      /\ Renames(d, to)
      /\ d # Root
      /\ At(Append(PathOf(Parent(d)), to)) = {}
      /\ moved' = moved \cup (Below(d) \cap watched)
      /\ unsteady' = unsteady \cup Below(d)
  BY DEF RenameDir, Renames
<1>2. \A e \in Dir : e \notin Below(d) => PathOf(e)' = PathOf(e)
  BY <1>1, RenamedPath DEF Below
<1>3. \A e : Exists(e)' <=> Exists(e)
  BY <1>1 DEF Exists
<1>4. \A e \in Dir : \A x \in Up(e) : x \in Below(d) => e \in Below(d)
  BY UpTransitive DEF Below
<1>5. TreeInv'
  <2>1. ASSUME NEW e \in Dir, NEW x \in Dir, Exists(e), Exists(x),
               PathOf(e)' = PathOf(x)'
        PROVE  e = x
    <3>1. CASE e \in Below(d) /\ x \in Below(d)
      <4>1. PathOf(e) = PathOf(x)
        BY <1>1, <2>1, <3>1, RenamedTogether DEF Below
      <4> QED BY <2>1, <4>1 DEF TreeInv
    <3>2. CASE e \in Below(d) /\ x \notin Below(d)
      BY <1>1, <2>1, <3>2, RenamedApart DEF Below
    <3>3. CASE e \notin Below(d) /\ x \in Below(d)
      BY <1>1, <2>1, <3>3, RenamedApart DEF Below
    <3>4. CASE e \notin Below(d) /\ x \notin Below(d)
      BY <1>2, <2>1, <3>4 DEF TreeInv
    <3> QED BY <3>1, <3>2, <3>3, <3>4
  <2>2. \A e \in Dir : \A x \in Up(e) : x \in unsteady' => e \in unsteady'
    BY <1>1, <1>4 DEF TreeInv
  <2> QED BY <1>1, <1>3, <2>1, <2>2 DEF TreeInv
<1>6. Steady' \subseteq Steady
  BY <1>1, <1>3 DEF Steady
<1>7. \A e \in Steady' : \A x \in Up(e) : PathOf(x)' = PathOf(x)
  BY <1>1, <1>2, <1>4, UpType DEF Steady
<1>8. Truthful \subseteq Truthful'
  BY <1>1 DEF Truthful, MadePath, boxVars
<1>9. events' \in Seq(Truthful')
  <2> DEFINE m == "move"
             old == Event(Parent(d), m, name[d])
             new == Event(Parent(d), m, to)
             self == [Event(d, "move_self", "") EXCEPT
                        !.true = Append(PathOf(Parent(d)), to)]
  <2>1. m \in Mask
    BY DEF Mask
  <2>2. Parent(d) \in Dir /\ name[d] \in Name
    BY <1>1, ParentType DEF BoxTypeOK
  <2>3. (old.wd \in watched => old \in Truthful) /\ (new.wd \in watched => new \in Truthful)
    <3> HIDE DEF m
    <3> QED BY <2>1, <2>2, EventTrue
  <2>4. Append(PathOf(Parent(d)), to) \in Seq(Name \cup FileName)
    <3>1. PathOf(Parent(d)) \in Seq(Name)
      BY <2>2, PathType DEF BoxTypeOK
    <3>2. PathOf(Parent(d)) \in Seq(Name \cup FileName)
      BY <3>1, SeqMonotonic
    <3> QED BY <3>2, AppendProperties
  <2>5. self \in EventType /\ self.wd = d
    <3> DEFINE ms == "move_self"
               none == ""
               plain == Event(d, ms, none)
    <3>1. ms \in Mask /\ none \in Name \cup FileName \cup {""}
      BY DEF Mask
    <3>2. plain \in EventType /\ plain.wd = d
      <4> HIDE DEF ms, none
      <4> QED BY <3>1, EventTrue
    <3>3. self = [plain EXCEPT !.true = Append(PathOf(Parent(d)), to)]
      OBVIOUS
    <3> HIDE DEF plain, self
    <3> QED BY <2>4, <3>2, <3>3 DEF EventType
  <2>6. self.wd \in watched => self \in Truthful'
    <3>1. ASSUME d \in watched PROVE d \in moved' /\ d \in DOMAIN descriptor'
      BY <1>1, <3>1, UpType DEF Below, BoxTypeOK, boxVars
    <3> HIDE DEF self
    <3> QED BY <2>5, <3>1 DEF Truthful
  <2>7. events' = events \o Heard(old) \o Heard(new) \o Heard(self)
    BY DEF RenameDir
  <2> HIDE DEF old, new, self
  <2>8. /\ Heard(old) \in Seq(Truthful') /\ Heard(new) \in Seq(Truthful')
        /\ Heard(self) \in Seq(Truthful')
    BY <1>8, <2>3, <2>6, HeardTrue
  <2>9. events \in Seq(Truthful)
    BY DEF WatchInv
  <2> QED BY <1>8, <2>7, <2>8, <2>9, ThreeQueued
<1>10. WatchInv'
  <2>1. descriptor' = descriptor /\ watched' = watched /\ place' = place
        /\ moved \subseteq moved' /\ moved' \subseteq Dir
    BY <1>1 DEF boxVars, WatchInv, Below
  <2>2. \A e \in watched' \ moved' : PathOf(e)' = PathOf(e)
    BY <1>1, <1>2 DEF BoxTypeOK
  <2>3. \A e \in DOMAIN descriptor : e \in watched
          => place'[e] = "gone" \/ (place'[e] = "here" /\ e \in watched')
    BY <2>1 DEF WatchInv
  <2> QED BY <1>9, <2>1, <2>2, <2>3, WatchKept
<1>11. ScanInv'
  BY <1>1, <1>6, <1>7, ScanKept
<1>12. BoxTypeOK'
  <2>1. changes' \in 0 .. MaxChanges
    <3>1. Change
      BY DEF RenameDir
    <3> QED BY <3>1, BoxAssumption DEF Change, BoxTypeOK
  <2>2. name' \in [Dir -> Name]
    BY <1>1 DEF Renames, BoxTypeOK
  <2> QED BY <1>1, <2>1, <2>2 DEF BoxTypeOK, boxVars
<1> QED BY <1>1, <1>5, <1>10, <1>11, <1>12 DEF ReportsTruePath, boxVars

-----------------------------------------------------------------------------
(* What the box's own steps preserve.                                      *)

\* The subdirectories come in some order, each of them.
LEMMA AllListed ==
  ASSUME NEW S, IsFiniteSet(S), NEW order \in SetToSeqs(S)
  PROVE  order \in Seq(S) /\ \A x \in S : \E i \in DOMAIN order : order[i] = x
<1> DEFINE n == Cardinality(S)
<1>1. n \in Nat
  BY FS_CardinalityType
<1>2. order \in [1 .. n -> S] /\ \A i, j \in 1 .. n : i # j => order[i] # order[j]
  BY DEF SetToSeqs
<1>3. order \in Injection(1 .. n, S)
  BY <1>2 DEF Injection, IsInjective
<1>4. Cardinality(1 .. n) = n
  BY <1>1, FS_Interval
<1>5. order \in Surjection(1 .. n, S)
  BY <1>3, <1>4, FS_Injection
<1> QED BY <1>1, <1>2, <1>5 DEF Surjection

\* There are finitely many of them, and they have paths.
LEMMA SubdirectoriesType ==
  ASSUME BoxTypeOK, NEW d \in Dir
  PROVE  IsFiniteSet(Subdirectories(d)) /\ Subdirectories(d) \subseteq Seq(Name)
<1> DEFINE from == Children(d) \cup { l \in LinksTo[d] : Exists(l) }
           f == [e \in from |-> PathOf(e)]
<1>1. from \subseteq Dir
  BY BoxAssumption DEF Children
<1>2. IsFiniteSet(from)
  BY <1>1, BoxAssumption, FS_Subset
<1>3. Subdirectories(d) = { PathOf(e) : e \in from }
  BY DEF Subdirectories
<1> HIDE DEF from
<1>4. f \in Surjection(from, Subdirectories(d))
  BY <1>3 DEF Surjection
<1>5. IsFiniteSet(Subdirectories(d))
  BY <1>2, <1>4, FS_Surjection
<1> QED BY <1>1, <1>3, <1>5, PathType DEF BoxTypeOK

\* As long as nothing is watched or queued, the watches are right.
LEMMA WatchSame ==
  ASSUME WatchInv, UNCHANGED <<treeVars, kernelVars, descriptor>>
  PROVE  WatchInv'
<1>1. \A d : PathOf(d)' = PathOf(d)
  BY TreeKept DEF treeVars
<1>2. Truthful' = Truthful
  BY DEF Truthful, MadePath, kernelVars
<1> QED BY <1>1, <1>2 DEF WatchInv, treeVars, kernelVars

\* What was ahead before a path is scanned is ahead or scanned after.
LEMMA ScanAdvances ==
  ASSUME BoxTypeOK, TreeInv, UNCHANGED treeVars, pending # <<>>,
         NEW d \in At(Head(pending)),
         NEW order \in SetToSeqs(Subdirectories(d)),
         pending' = order \o Tail(pending),
         scanned' = scanned \cup {<<Head(pending), name[d], files[d]>>},
         NEW x \in Dir, Exists(x), WasScanned(x) \/ IsAhead(x)
  PROVE  WasScanned(x)' \/ IsAhead(x)'
<1>0. \A e : PathOf(e)' = PathOf(e)
  BY TreeKept DEF treeVars
<1>1. CASE WasScanned(x)
  BY <1>0, <1>1 DEF WasScanned
<1>2. CASE IsAhead(x)
  <2>1. d \in Dir /\ Exists(d) /\ PathOf(d) = Head(pending)
    BY DEF At
  <2>2. /\ order \in Seq(Seq(Name))
        /\ \A p \in Subdirectories(d) : \E i \in DOMAIN order : order[i] = p
    BY <2>1, SubdirectoriesType, AllListed, SeqMonotonic
  <2>3. /\ pending \in Seq(Seq(Name))
        /\ Tail(pending) \in Seq(Seq(Name))
        /\ Len(Tail(pending)) = Len(pending) - 1
        /\ \A i \in 1 .. Len(Tail(pending)) : Tail(pending)[i] = pending[i + 1]
    BY HeadTailProperties DEF BoxTypeOK
  <2>4. /\ pending' \in Seq(Seq(Name))
        /\ Len(pending') = Len(order) + Len(Tail(pending))
        /\ \A i \in 1 .. Len(order) + Len(Tail(pending)) : pending'[i] =
             IF i <= Len(order) THEN order[i] ELSE Tail(pending)[i - Len(order)]
    BY <2>2, <2>3, ConcatProperties
  <2>5. PICK e \in Up(x), i \in DOMAIN pending : pending[i] = PathOf(e)
    BY <1>2 DEF IsAhead
  <2>6. DOMAIN pending = 1 .. Len(pending) /\ Len(pending) \in Nat
        /\ Len(order) \in Nat /\ DOMAIN order = 1 .. Len(order)
        /\ DOMAIN pending' = 1 .. Len(pending')
    BY <2>2, <2>3, <2>4, LenProperties
  <2>7. CASE i # 1
    <3> DEFINE j == Len(order) + (i - 1)
    <3>1. i - 1 \in 1 .. Len(Tail(pending)) /\ Tail(pending)[i - 1] = pending[i]
      BY <2>3, <2>6, <2>7
    <3>2. j \in 1 .. Len(pending') /\ ~ j <= Len(order) /\ j - Len(order) = i - 1
      BY <2>3, <2>4, <2>6, <3>1
    <3>3. j \in DOMAIN pending' /\ pending'[j] = PathOf(e)
      BY <2>4, <2>5, <2>6, <3>1, <3>2
    <3> QED BY <1>0, <3>3 DEF IsAhead
  <2>8. CASE i = 1
    <3>1. PathOf(e) = PathOf(d)
      BY <2>1, <2>3, <2>5, <2>8
    <3>2. e \in Dir /\ Exists(e)
      BY UpType, UpTransitive DEF Exists
    <3>3. e = d
      BY <2>1, <3>1, <3>2 DEF TreeInv
    <3>4. CASE e = x
      <4> DEFINE s == <<Head(pending), name[d], files[d]>>
      <4>1. s \in scanned' /\ s[1] = PathOf(x)'
        BY <1>0, <2>1, <3>3, <3>4
      <4> QED BY <4>1 DEF WasScanned
    <3>5. CASE e # x
      <4>1. PICK c \in Up(x) : c \in Dir \ {Root} /\ Parent(c) = d
        BY <3>3, <3>5, NextBelow
      <4>2. PathOf(c) \in Subdirectories(d)
        BY <4>1 DEF Subdirectories, Children, Exists
      <4>3. PICK k \in DOMAIN order : order[k] = PathOf(c)
        BY <2>2, <4>2
      <4>4. k \in DOMAIN pending' /\ pending'[k] = PathOf(c)
        BY <2>3, <2>4, <2>6, <4>3
      <4> QED BY <1>0, <4>4 DEF IsAhead
    <3> QED BY <3>4, <3>5
  <2> QED BY <2>7, <2>8
<1> QED BY <1>1, <1>2

\* A path is scanned: its Directory is entered, unless one with the same hash,
\* and so the same name and files, is there.
LEMMA ScanStepInv ==
  ASSUME BoxInv, Scan
  PROVE  BoxInv'
<1> USE DEF BoxInv
<1> DEFINE path == Head(pending)
<1>1. /\ phase = "scanning" /\ pending # <<>>
      /\ UNCHANGED <<treeVars, kernelVars, phase, toWatch, descriptor, report>>
  BY DEF Scan
<1>2. PICK d \in At(path) :
        /\ \E order \in SetToSeqs(Subdirectories(d)) :
             pending' = order \o Tail(pending)
        /\ entries' =
             IF \E entry \in entries : entry.hash = DirectoryHash(d) THEN entries
             ELSE entries \cup {[hash |-> DirectoryHash(d), path |-> path]}
        /\ scanned' = scanned \cup {<<path, name[d], files[d]>>}
  BY DEF Scan
<1>3. PICK order \in SetToSeqs(Subdirectories(d)) : pending' = order \o Tail(pending)
  BY <1>2
<1>4. /\ pending \in Seq(Seq(Name)) /\ path \in Seq(Name)
      /\ Tail(pending) \in Seq(Seq(Name))
  BY <1>1, HeadTailProperties DEF BoxTypeOK
<1>5. d \in Dir
  BY DEF At
<1>6. order \in Seq(Seq(Name))
  BY <1>5, SubdirectoriesType, AllListed, SeqMonotonic
<1>7. pending' \in Seq(Seq(Name))
  BY <1>3, <1>4, <1>6, ConcatProperties
<1> DEFINE here == <<path, name[d], files[d]>>
           made == [hash |-> DirectoryHash(d), path |-> path]
<1>8. /\ here[1] = path /\ here[2] = name[d] /\ here[3] = files[d]
      /\ here \in Seq(Name) \X Name \X [FileName -> 0 .. MaxChanges + 1]
      /\ made = [hash |-> <<ListingHash(here[3]), here[2]>>, path |-> here[1]]
      /\ made.path = path /\ made.hash = DirectoryHash(d)
  BY <1>4, <1>5 DEF BoxTypeOK, DirectoryHash
<1>9. /\ entries' = IF \E entry \in entries : entry.hash = DirectoryHash(d)
                      THEN entries ELSE entries \cup {made}
      /\ scanned' = scanned \cup {here}
  BY <1>2
<1>10. BoxTypeOK'
  <2>1. \A entry \in entries' : entry.path \in Seq(Name)
    BY <1>4, <1>8, <1>9 DEF BoxTypeOK
  <2>2. toWatch' \subseteq entries'
    BY <1>1, <1>9 DEF BoxTypeOK
  <2> QED BY <1>1, <1>7, <2>1, <2>2 DEF BoxTypeOK, treeVars, kernelVars
<1>11. TreeInv' /\ Steady' = Steady
  BY <1>1, TreeKept DEF treeVars
<1>12. WatchInv'
  BY <1>1, WatchSame
<1>13. ScanInv'
  <2>1. \A x \in Steady' : WasScanned(x)' \/ IsAhead(x)'
    <3>1. \A x \in Steady : WasScanned(x) \/ IsAhead(x)
      BY <1>1 DEF ScanInv
    <3>2. ASSUME NEW x \in Steady PROVE WasScanned(x)' \/ IsAhead(x)'
      BY <1>1, <1>2, <1>3, <3>1, ScanAdvances DEF Steady
    <3> QED BY <1>11, <3>2
  <2>2. scanned' \subseteq Seq(Name) \X Name \X [FileName -> 0 .. MaxChanges + 1]
    BY <1>8, <1>9 DEF ScanInv
  <2> HIDE DEF here, made
  <2>3. \A entry \in entries' : \E t \in scanned' :
          entry = [hash |-> <<ListingHash(t[3]), t[2]>>, path |-> t[1]]
    BY <1>8, <1>9 DEF ScanInv
  <2>4. ASSUME NEW s \in scanned'
        PROVE  \/ \E entry \in entries' : entry.path = s[1]
               \/ \E t \in scanned' : t[1] # s[1] /\ <<s[2], s[3]>> = <<t[2], t[3]>>
    <3>1. CASE s \in scanned
      BY <1>9, <2>4, <3>1 DEF ScanInv
    <3>2. CASE s = here /\ ~ \E entry \in entries : entry.hash = DirectoryHash(d)
      BY <1>8, <1>9, <3>2
    <3>3. CASE s = here /\ \E entry \in entries : entry.hash = DirectoryHash(d)
      <4>1. PICK entry \in entries : entry.hash = DirectoryHash(d)
        BY <3>3
      <4>2. PICK t \in scanned :
              entry = [hash |-> <<ListingHash(t[3]), t[2]>>, path |-> t[1]]
        BY DEF ScanInv
      <4>3. /\ <<ListingHash(t[3]), t[2]>> = <<ListingHash(files[d]), name[d]>>
            /\ entry.path = t[1]
        BY <4>1, <4>2 DEF DirectoryHash
      <4>4. ListingHash(t[3]) = ListingHash(files[d]) /\ t[2] = name[d]
        BY <4>3
      <4>5. /\ t[3] \in [FileName -> 0 .. MaxChanges + 1]
            /\ files[d] \in [FileName -> 0 .. MaxChanges + 1]
        BY <1>5 DEF ScanInv, BoxTypeOK
      <4>6. t[3] = files[d]
        BY <4>4, <4>5, HashesDiffer
      <4>7. CASE t[1] = path
        BY <1>8, <1>9, <3>3, <4>3, <4>7
      <4>8. CASE t[1] # path
        BY <1>8, <1>9, <3>3, <4>4, <4>6, <4>8
      <4> QED BY <4>7, <4>8
    <3> QED BY <1>9, <3>1, <3>2, <3>3
  <2> QED BY <1>1, <2>1, <2>2, <2>3, <2>4 DEF ScanInv
<1>14. ReportsTruePath'
  BY <1>1 DEF ReportsTruePath, kernelVars
<1> QED BY <1>10, <1>11, <1>12, <1>13, <1>14

\* The scan fails, or ends and the thread starts, or the loop is entered.
LEMMA PhaseStepInv ==
  ASSUME BoxInv, ScanFails \/ StartThread \/ EnterLoop
  PROVE  BoxInv'
<1> USE DEF BoxInv
<1>1. UNCHANGED <<treeVars, kernelVars, pending, entries, descriptor, report, scanned>>
  BY DEF ScanFails, StartThread, EnterLoop
<1>2. /\ \A d : PathOf(d)' = PathOf(d)
      /\ TreeInv' /\ Steady' = Steady
  BY <1>1, TreeKept DEF treeVars
<1>3. WatchInv' /\ ReportsTruePath'
  BY <1>1, WatchSame DEF ReportsTruePath, kernelVars
<1>4. \A d : WasScanned(d)' <=> WasScanned(d)
  BY <1>1, <1>2 DEF WasScanned
<1>5. CASE ScanFails
  <2>1. phase' = "aborted" /\ UNCHANGED toWatch
    BY <1>5 DEF ScanFails
  <2>2. BoxTypeOK'
    BY <1>1, <2>1 DEF BoxTypeOK, treeVars, kernelVars
  <2>3. ScanInv'
    BY <1>1, <2>1 DEF ScanInv
  <2> QED BY <1>2, <1>3, <2>2, <2>3
<1>6. CASE StartThread
  <2>1. phase = "scanning" /\ phase' = "watching" /\ toWatch' = entries
        /\ pending = <<>>
    BY <1>6 DEF StartThread
  <2>2. BoxTypeOK'
    BY <1>1, <2>1 DEF BoxTypeOK, treeVars, kernelVars
  <2>3. \A d : ~IsAhead(d)
    BY <2>1 DEF IsAhead
  <2>4. \A d \in Steady' : WasScanned(d)'
    BY <1>2, <1>4, <2>1, <2>3 DEF ScanInv
  <2>5. ScanInv'
    BY <1>1, <2>1, <2>4 DEF ScanInv
  <2> QED BY <1>2, <1>3, <2>2, <2>5
<1>7. CASE EnterLoop
  <2>1. phase = "watching" /\ phase' = "running" /\ toWatch' = toWatch
        /\ toWatch = {}
    BY <1>7 DEF EnterLoop
  <2>2. BoxTypeOK'
    BY <1>1, <2>1 DEF BoxTypeOK, treeVars, kernelVars
  <2>3. \A d \in Steady' : WasScanned(d)'
    BY <1>2, <1>4, <2>1 DEF ScanInv
  <2>4. ScanInv'
    BY <1>1, <1>2, <2>1, <2>3 DEF ScanInv, kernelVars
  <2> QED BY <1>2, <1>3, <2>2, <2>4
<1> QED BY <1>5, <1>6, <1>7

\* A watch is added for the directory found under the path of an entry, which
\* is the path it is entered with.
LEMMA AddWatchInv ==
  ASSUME BoxInv, NEW entry \in toWatch, AddWatch(entry)
  PROVE  BoxInv'
<1> USE DEF BoxInv
<1> DEFINE found == At(entry.path)
<1>1. /\ UNCHANGED <<treeVars, events, moved, phase, pending, entries, report, scanned>>
      /\ phase = "watching"
      /\ toWatch' = toWatch \ {entry}
      /\ watched' = watched \cup found
      /\ descriptor' = [d \in DOMAIN descriptor \cup found |->
           IF d \in DOMAIN descriptor THEN descriptor[d] ELSE entry.path]
  BY DEF AddWatch
<1>2. entry \in entries /\ entry.path \in Seq(Name)
  BY DEF BoxTypeOK
<1>3. \A d \in found : d \in Dir /\ Exists(d) /\ PathOf(d) = entry.path /\ place[d] = "here"
  BY UpType DEF At, Exists
<1>4. \A d \in Dir : Exists(d) /\ PathOf(d) = entry.path => d \in found
  BY DEF At
<1> HIDE DEF found
<1>5. /\ \A d : PathOf(d)' = PathOf(d)
      /\ TreeInv' /\ Steady' = Steady
  BY <1>1, TreeKept DEF treeVars
<1>6. BoxTypeOK'
  BY <1>1, <1>3 DEF BoxTypeOK, treeVars
<1>7. WatchInv'
  <2>1. DOMAIN descriptor' = DOMAIN descriptor \cup found
    BY <1>1
  <2>2. \A d \in DOMAIN descriptor' : descriptor'[d] \in Seq(Name)
    BY <1>1, <1>2, <2>1 DEF WatchInv
  <2>3. \A d \in DOMAIN descriptor' :
          place'[d] = "gone" \/ (place'[d] = "here" /\ d \in watched')
    BY <1>1, <1>3, <2>1 DEF WatchInv, treeVars
  <2>4. \A d \in watched' \ moved' : descriptor'[d] = PathOf(d)'
    <3>1. ASSUME NEW d \in watched' \ moved', d \in watched
          PROVE  descriptor'[d] = PathOf(d)'
      BY <1>1, <1>5, <3>1 DEF WatchInv, BoxTypeOK
    <3>2. ASSUME NEW d \in watched' \ moved', d \notin watched
          PROVE  descriptor'[d] = PathOf(d)'
      <4>1. d \in found /\ place[d] = "here"
        BY <1>1, <1>3, <3>2
      <4>2. d \notin DOMAIN descriptor
        BY <3>2, <4>1 DEF WatchInv
      <4> QED BY <1>1, <1>3, <1>5, <4>1, <4>2
    <3> QED BY <3>1, <3>2
  <2>5. events' \in Seq(Truthful')
    <3>1. \A event \in Truthful : MadePath(event)' = MadePath(event)
      BY <1>1 DEF Truthful, MadePath
    <3>2. Truthful \subseteq Truthful'
      BY <1>1, <2>1, <3>1 DEF Truthful
    <3> QED BY <1>1, <3>2, SeqMonotonic DEF WatchInv
  <2>6. descriptor' \in [DOMAIN descriptor' -> Seq(Name)]
    BY <1>1, <2>2
  <2> QED BY <1>1, <2>3, <2>4, <2>5, <2>6 DEF WatchInv
<1>8. ScanInv'
  <2>1. \A d : WasScanned(d)' <=> WasScanned(d)
    BY <1>1, <1>5 DEF WasScanned
  <2>2. ASSUME NEW e \in entries, NEW d \in Steady, e.path = PathOf(d)
        PROVE  e \in toWatch' \/ d \in watched'
    <3>1. e \in toWatch \/ d \in watched
      BY <1>1, <2>2 DEF ScanInv
    <3>2. e = entry => d \in found
      BY <1>4, <2>2 DEF Steady
    <3> QED BY <1>1, <3>1, <3>2
  <2> QED BY <1>1, <1>5, <2>1, <2>2 DEF ScanInv
<1>9. ReportsTruePath'
  BY <1>1 DEF ReportsTruePath
<1> QED BY <1>5, <1>6, <1>7, <1>8, <1>9

\* A queue, the k events read from its front and what is left of it.
LEMMA FrontOfQueue ==
  ASSUME NEW S, NEW q \in Seq(S), NEW k \in 1 .. Len(q)
  PROVE  /\ Head(q) \in S
         /\ Head(SubSeq(q, 1, k)) = Head(q)
         /\ Len(SubSeq(q, 1, k)) = k
         /\ SubSeq(q, k + 1, Len(q)) \in Seq(S)
<1>1. Len(q) \in Nat /\ k \in Nat /\ 1 <= k /\ k <= Len(q)
  BY LenProperties
<1>2. q # <<>>
  BY <1>1
<1>3. \A i \in 1 .. Len(q) : q[i] \in S
  BY ElementOfSeq
<1>4. SubSeq(q, k + 1, Len(q)) \in Seq(S)
  <2>1. \A i \in k + 1 .. Len(q) : q[i] \in S
    BY <1>1, <1>3
  <2> QED BY <1>1, <2>1, SubSeqProperties
<1>5. Len(SubSeq(q, 1, k)) = k /\ SubSeq(q, 1, k) \in Seq(S)
  <2>1. \A i \in 1 .. k : q[i] \in S
    BY <1>1, <1>3
  <2> QED BY <1>1, <2>1
<1>6. Head(SubSeq(q, 1, k)) = q[1]
  <2>1. 1 \in 1 .. Len(q) /\ k \in 1 .. Len(q)
    BY <1>1
  <2> QED BY <2>1, HeadTailOfSubSeq
<1>7. Head(q) = q[1] /\ Head(q) \in S
  BY <1>1, <1>2, <1>3
<1> QED BY <1>4, <1>5, <1>6, <1>7

\* A path without blanks is read back whole,
LEMMA ReadableWhole ==
  ASSUME NEW path, Range(path) \cap Spaced = {}
  PROVE  Readable(path) = path
<1>1. { i \in DOMAIN path : path[i] \in Spaced } = {}
  BY DEF Range
<1> QED BY <1>1 DEF Readable

\* and one with a word behind it as far as that.
LEMMA ReadableEntry ==
  ASSUME NEW S, NEW path \in Seq(S), NEW entry \in S, Range(path) \cap Spaced = {}
  PROVE  IsAtOrIn(Readable(Append(path, entry)), path)
<1> DEFINE n == Len(path)
           longer == Append(path, entry)
           blanks == { i \in DOMAIN longer : longer[i] \in Spaced }
<1>1. n \in Nat /\ DOMAIN path = 1 .. n
  OBVIOUS
<1>2. /\ longer \in Seq(S) /\ Len(longer) = n + 1 /\ DOMAIN longer = 1 .. n + 1
      /\ longer[n + 1] = entry
      /\ \A i \in 1 .. n : longer[i] = path[i]
  OBVIOUS
<1>3. SubSeq(longer, 1, n) = path
  <2>1. SubSeq(longer, 1, n) \in Seq(S) /\ Len(SubSeq(longer, 1, n)) = n
    BY <1>1, <1>2
  <2>2. \A i \in 1 .. n : SubSeq(longer, 1, n)[i] = path[i]
    BY <1>1, <1>2
  <2> HIDE DEF longer
  <2> QED BY <1>1, <2>1, <2>2
<1>4. ASSUME NEW p, NEW T, p \in Seq(T), Len(p) = n + 1, SubSeq(p, 1, n) = path
      PROVE  IsAtOrIn(p, path)
  <2>1. p # <<>>
    BY <1>1, <1>4
  <2>2. Front(p) = SubSeq(p, 1, n)
    BY <1>1, <1>4 DEF Front
  <2> QED BY <1>4, <2>1, <2>2 DEF IsAtOrIn
<1>5. \A i \in 1 .. n : path[i] \notin Spaced
  BY <1>1 DEF Range
<1> HIDE DEF longer, n
<1>6. CASE entry \notin Spaced
  <2>1. blanks = {}
    BY <1>1, <1>2, <1>5, <1>6
  <2>2. Readable(longer) = longer
    BY <2>1 DEF Readable
  <2> QED BY <1>2, <1>3, <1>4, <2>2 DEF longer
<1>7. CASE entry \in Spaced
  <2>1. blanks = {n + 1}
    BY <1>1, <1>2, <1>5, <1>7
  <2>2. Min({n + 1}) = n + 1
    BY <1>1 DEF Min
  <2>3. n + 1 \in blanks
    BY <2>1
  <2>4. Min(blanks) - 1 = n
    <3> DEFINE first == Min(blanks)
    <3> HIDE DEF blanks
    <3>1. first = Min({n + 1})
      BY <2>1, Zenon
    <3> HIDE DEF first
    <3>2. first - 1 = n
      BY <1>1, <2>2, <3>1
    <3> QED BY <3>2, Zenon DEF first
  <2>5. Readable(longer) = Append(path, "cut")
    <3> DEFINE last == Min(blanks) - 1
    <3>1. blanks # {} => Readable(longer) = Append(SubSeq(longer, 1, last), "cut")
      BY DEF Readable
    <3> HIDE DEF blanks, last
    <3>2. blanks # {}
      BY <2>3
    <3>3. last = n
      BY <2>4 DEF last
    <3> QED BY <1>3, <3>1, <3>2, <3>3
  <2> DEFINE cut == Append(path, "cut")
  <2>6. /\ path \in Seq(S \cup {"cut"}) /\ cut \in Seq(S \cup {"cut"})
        /\ Len(cut) = n + 1 /\ \A i \in 1 .. n : cut[i] = path[i]
    BY DEF n
  <2> HIDE DEF cut
  <2>7. SubSeq(cut, 1, n) = path
    <3>1. /\ SubSeq(cut, 1, n) \in Seq(S \cup {"cut"}) /\ Len(SubSeq(cut, 1, n)) = n
          /\ \A i \in 1 .. n : SubSeq(cut, 1, n)[i] = path[i]
      BY <1>1, <2>6
    <3> QED BY <1>1, <2>6, <3>1
  <2>8. IsAtOrIn(cut, path)
    BY <1>4, <2>6, <2>7
  <2> QED BY <2>5, <2>8 DEF cut, longer
<1> QED BY <1>6, <1>7

\* The first of the queued events is reported, with its path.
LEMMA ReportEventInv ==
  ASSUME BoxInv, ReportEvent
  PROVE  BoxInv'
<1> USE DEF BoxInv
<1> DEFINE event == Head(events)
<1>1. /\ UNCHANGED <<treeVars, watched, moved, phase, pending, entries, toWatch,
                     descriptor, scanned>>
  BY DEF ReportEvent
<1> DEFINE Report(entry) ==
             [wd |-> event.wd, path |-> ReportedPath(event, entry),
              true |-> event.true, self |-> event.name = "",
              excused |-> Range(event.true) \cap Spaced # {}]
<1>2. PICK k \in 1 .. Len(events) :
        /\ events' = SubSeq(events, k + 1, Len(events))
        /\ \E entry \in NamesRead(SubSeq(events, 1, k)) :
             report' = IF event.mask = "delete_self" THEN report ELSE Report(entry)
  BY DEF ReportEvent
<1>3. events \in Seq(Truthful)
  BY DEF WatchInv
<1>4. /\ event \in Truthful
      /\ Head(SubSeq(events, 1, k)) = event
      /\ Len(SubSeq(events, 1, k)) = k
      /\ SubSeq(events, k + 1, Len(events)) \in Seq(Truthful)
  BY <1>3, FrontOfQueue
<1>5. /\ \A d : PathOf(d)' = PathOf(d)
      /\ TreeInv' /\ Steady' = Steady
  BY <1>1, TreeKept DEF treeVars
<1>6. BoxTypeOK'
  BY <1>1 DEF BoxTypeOK, treeVars
<1>7. WatchInv'
  <2>1. Truthful' = Truthful
    BY <1>1 DEF Truthful, MadePath
  <2>2. events' \in Seq(Truthful)
    BY <1>2, <1>4
  <2> QED BY <1>1, <1>5, <2>1, <2>2 DEF WatchInv, treeVars
<1>8. ScanInv'
  <2>1. /\ \A d : WasScanned(d)' <=> WasScanned(d)
        /\ \A d : IsAhead(d)' <=> IsAhead(d)
    BY <1>1, <1>5 DEF WasScanned, IsAhead
  <2> QED BY <1>1, <1>5, <2>1 DEF ScanInv
<1>9. ReportsTruePath'
  <2>1. CASE event.mask = "delete_self"
    BY <1>1, <1>2, <2>1 DEF ReportsTruePath
  <2>2. CASE event.mask # "delete_self"
    <3> DEFINE batch == SubSeq(events, 1, k)
    <3>0. PICK entry \in NamesRead(batch) : report' = Report(entry)
      BY <1>2, <2>2
    <3>1. /\ report'.wd = event.wd /\ report'.path = ReportedPath(event, entry)
          /\ report'.true = event.true
          /\ report'.self <=> event.name = ""
          /\ report'.excused <=> Range(event.true) \cap Spaced # {}
      BY <3>0
    <3>2. entry \in NamesRead(batch) /\ Head(batch) = event
      BY <1>4, <3>0
    <3> HIDE DEF batch
    <3>3. ASSUME event.wd \notin moved, Range(event.true) \cap Spaced = {}
          PROVE  IF event.name = "" THEN IsAtOrIn(ReportedPath(event, entry), event.true)
                                    ELSE ReportedPath(event, entry) = event.true
      <4>1. event.true = MadePath(event)
        BY <1>4, <3>3 DEF Truthful
      <4>2. Readable(event.true) = event.true
        BY <3>3, ReadableWhole
      <4>3. CASE event.name # ""
        <5>1. entry = event.name
          BY <3>2, <4>3 DEF NamesRead
        <5> QED BY <4>1, <4>2, <4>3, <5>1 DEF ReportedPath, MadePath
      <4>4. CASE event.name = "" /\ entry = ""
        BY <4>1, <4>2, <4>4 DEF ReportedPath, MadePath, IsAtOrIn
      <4>5. CASE event.name = "" /\ entry # ""
        <5>1. descriptor[event.wd] = event.true
          BY <4>1, <4>5 DEF MadePath
        <5> DEFINE S == Name \cup FileName \cup {"bytes"}
        <5>2. event.true \in Seq(S)
          <6> DEFINE t == event.true
          <6>1. t \in Seq(Name \cup FileName)
            BY <1>4 DEF Truthful, EventType
          <6> HIDE DEF t
          <6>2. t \in Seq(S)
            BY <6>1
          <6> QED BY <6>2 DEF t
        <5>3. entry \in S
          BY <3>2, <4>5 DEF NamesRead
        <5> HIDE DEF S
        <5>4. ReportedPath(event, entry) = Readable(Append(event.true, entry))
          BY <4>5, <5>1 DEF ReportedPath
        <5> QED BY <3>3, <4>5, <5>2, <5>3, <5>4, ReadableEntry DEF IsAtOrIn
      <4> QED BY <4>3, <4>4, <4>5
    <3> QED BY <1>1, <3>1, <3>3 DEF ReportsTruePath
  <2> QED BY <2>1, <2>2
<1> QED BY <1>5, <1>6, <1>7, <1>8, <1>9

-----------------------------------------------------------------------------
\* Every step preserves the invariant.
LEMMA BoxInvStep == BoxInv /\ [Next]_vars => BoxInv'
<1> SUFFICES ASSUME BoxInv, [Next]_vars PROVE BoxInv'
  OBVIOUS
<1>1. CASE Scan
  BY <1>1, ScanStepInv
<1>2. CASE ScanFails \/ StartThread \/ EnterLoop
  BY <1>2, PhaseStepInv
<1>3. ASSUME NEW entry \in toWatch, AddWatch(entry) PROVE BoxInv'
  BY <1>3, AddWatchInv
<1>4. CASE ReportEvent
  BY <1>4, ReportEventInv
<1>5. ASSUME NEW d \in Dir, NEW f \in FileName, WriteFile(d, f) \/ RemoveFile(d, f)
      PROVE  BoxInv'
  BY <1>5, FileStepInv
<1>6. ASSUME NEW d \in Dir, MakeDir(d) PROVE BoxInv'
  BY <1>6, MakeDirInv
<1>7. ASSUME NEW d \in Dir, RemoveDir(d) PROVE BoxInv'
  BY <1>7, RemoveDirInv
<1>8. ASSUME NEW d \in Dir, NEW to \in Name, RenameDir(d, to) PROVE BoxInv'
  BY <1>8, RenameDirInv
<1>9. CASE UNCHANGED vars
  <2>1. UNCHANGED <<treeVars, kernelVars, descriptor>> /\ UNCHANGED boxVars
    BY <1>9 DEF vars, boxVars
  <2>2. /\ \A d : PathOf(d)' = PathOf(d)
        /\ TreeInv' /\ Steady' = Steady
    BY <2>1, TreeKept DEF treeVars, BoxInv
  <2>3. WatchInv'
    BY <2>1, WatchSame DEF BoxInv
  <2>4. ScanInv'
    BY <2>1, <2>2, ScanKept DEF BoxInv, kernelVars
  <2>5. BoxTypeOK' /\ ReportsTruePath'
    BY <2>1 DEF BoxInv, BoxTypeOK, ReportsTruePath, treeVars, boxVars, kernelVars
  <2> QED BY <2>2, <2>3, <2>4, <2>5 DEF BoxInv
<1> QED BY <1>1, <1>2, <1>3, <1>4, <1>5, <1>6, <1>7, <1>8, <1>9
        DEF Next, BoxStep, UserStep

\* The box's paths, entries, watches and counters stay what they are declared to
\* be; a watched directory always has a path in watch_descriptors_
\* (box.cpp:109-115, 138).
THEOREM BoxTypeCorrect == Spec => []BoxTypeOK
<1>1. BoxInv => BoxTypeOK
  BY DEF BoxInv
<1> QED BY <1>1, BoxInvInit, BoxInvStep, PTL DEF Spec

\* Whatever users create, remove and rename while the box is scanned, watched
\* and read, an event is reported with the path of what changed, unless its
\* directory was renamed since it is watched or its path has a blank. Of a change
\* to a watched directory itself the path may be that of something in it, of
\* which nothing is claimed (box.cpp:127-155, constants.cpp:192-205). This is so
\* for every tree and any number of changes.
THEOREM ReportsCorrect == Spec => []ReportsTruePath
<1>1. BoxInv => ReportsTruePath
  BY DEF BoxInv
<1> QED BY <1>1, BoxInvInit, BoxInvStep, PTL DEF Spec

\* Once the loop of run() is entered, every directory there since the start,
\* under the same path, is watched or has a twin (box.cpp:44-115), for every
\* tree and any changes meanwhile.
THEOREM WatchedCorrect == Spec => []WatchedUnlessTwin
<1>1. ASSUME BoxInv PROVE WatchedUnlessTwin
  <2> SUFFICES ASSUME phase = "running", NEW d \in Dir, Exists(d),
                      d \notin unsteady, d \notin watched
               PROVE  HasTwin(d)
    BY DEF WatchedUnlessTwin
  <2>1. d \in Steady
    BY DEF Steady
  <2>2. PICK s \in scanned : s[1] = PathOf(d)
    BY <1>1, <2>1 DEF BoxInv, ScanInv, WasScanned
  <2>3. ~ \E entry \in entries : entry.path = s[1]
    BY <1>1, <2>1, <2>2 DEF BoxInv, ScanInv
  <2>4. PICK t \in scanned : t[1] # s[1] /\ <<s[2], s[3]>> = <<t[2], t[3]>>
    BY <1>1, <2>3 DEF BoxInv, ScanInv
  <2> QED BY <2>2, <2>4 DEF HasTwin
<1>2. BoxInv => WatchedUnlessTwin
  BY <1>1
<1> QED BY <1>2, BoxInvInit, BoxInvStep, PTL DEF Spec

\* However many files a directory has, its tree of hashes has one top, and each
\* level half the nodes of the one below (hash_tree.cpp:34-73).
THEOREM TreeShapeCorrect == Spec => []TreeShape
<1>1. TreeShape
  BY HalvesUpwardsHolds DEF TreeShape
<1> QED BY <1>1, PTL

\* Of two sets of hashes of any size, getChangedHashes finds what they differ in
\* (hash_tree.cpp:105-150).
THEOREM ChangesFoundCorrect == Spec => []ChangesFound
<1>1. ChangesFound
  BY TellsApartHolds DEF ChangesFound
<1> QED BY <1>1, PTL
=============================================================================
