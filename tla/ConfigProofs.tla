---------------------------- MODULE ConfigProofs ----------------------------
(***************************************************************************)
(* What Config computes from every well-formed input: a watch of every box *)
(* with a name and a path of its own, and a subscription to every node with*)
(* a key of its own.                                                       *)
(* Its loops are recursive functions; the proofs go by induction on the    *)
(* number of turns.                                                        *)
(***************************************************************************)
EXTENDS Process, SequenceTheorems, Recursion

-----------------------------------------------------------------------------
(* Maps.                                                                   *)

Maps(K, V) == UNION { [D -> V] : D \in SUBSET K }

\* An element more makes a map a map.
LEMMA WithType ==
  ASSUME NEW K, NEW V, NEW m \in Maps(K, V), NEW k \in K, NEW v \in V
  PROVE  With(m, k, v) \in Maps(K, V)
<1>1. PICK D \in SUBSET K : m \in [D -> V]
  BY DEF Maps
<1>2. With(m, k, v) \in [D \cup {k} -> V]
  BY <1>1 DEF With
<1> QED BY <1>1, <1>2 DEF Maps

\* The empty map.
LEMMA EmptyMap ==
  ASSUME NEW K, NEW V
  PROVE  <<>> \in Maps(K, V) /\ DOMAIN <<>> = {}
<1>1. <<>> \in [{} -> V]
  OBVIOUS
<1> QED BY <1>1 DEF Maps

\* Maps to more are maps.
LEMMA MapsMonotonic ==
  ASSUME NEW K, NEW V, NEW L, NEW W, K \subseteq L, V \subseteq W, NEW m \in Maps(K, V)
  PROVE  m \in Maps(L, W)
<1>1. PICK D \in SUBSET K : m \in [D -> V]
  BY DEF Maps
<1>2. D \in SUBSET L /\ m \in [D -> W]
  BY <1>1
<1> QED BY <1>2 DEF Maps

-----------------------------------------------------------------------------
(* Boxes.                                                                  *)

\* Every box of the map was asked for.
Among(b, asked) ==
  \A name \in DOMAIN b : \E box \in asked : box.name = name /\ IsWatched(b, box)

\* What a turn of the loop or the whole of it does, from old to new: a box with a
\* name and a path of its own that was there stays, and one that is added gets there.
Serves(old, new, added, asked, directories) ==
  /\ Among(new, asked)
  /\ \A own \in asked :
       IsOwn(own, asked, directories) /\ (IsWatched(old, own) \/ own \in added)
         => IsWatched(new, own)

\* A box with a name and a path of its own is added, whatever the map holds; and
\* no other takes its place.
LEMMA WithBoxServes ==
  ASSUME NEW old, NEW asked, NEW box \in asked, NEW directories, Among(old, asked)
  PROVE  Serves(old, WithBox(old, box, directories), {box}, asked, directories)
<1> DEFINE new == [path |-> box.path, symlinks |-> box.symlinks]
           after == With(old, box.name, new)
<1>1. CASE box.path # Garbled /\ Mappable(old, box, directories)
  <2>1. WithBox(old, box, directories) = after
    BY <1>1 DEF WithBox
  <2>2. /\ DOMAIN after = DOMAIN old \cup {box.name}
        /\ \A k \in DOMAIN after : after[k] = IF k = box.name THEN new ELSE old[k]
    BY DEF With
  <2>3. new.path = box.path
    OBVIOUS
  <2> HIDE DEF new, after
  <2>4. IsWatched(after, box)
    BY <2>2, <2>3 DEF IsWatched
  <2>5. Among(after, asked)
    <3> SUFFICES ASSUME NEW k \in DOMAIN after
                 PROVE  \E b \in asked : b.name = k /\ IsWatched(after, b)
      BY DEF Among
    <3>1. CASE k = box.name
      BY <2>4, <3>1
    <3>2. CASE k # box.name
      <4>1. PICK b \in asked : b.name = k /\ IsWatched(old, b)
        BY <2>2, <3>2 DEF Among
      <4> QED BY <2>2, <3>2, <4>1 DEF IsWatched
    <3> QED BY <3>1, <3>2
  <2>6. ASSUME NEW own \in asked, IsOwn(own, asked, directories),
               IsWatched(old, own) \/ own \in {box}
        PROVE  IsWatched(after, own)
    <3>1. CASE own.name = box.name
      <4>1. own.path = box.path
        BY <2>6, <3>1 DEF IsOwn
      <4> QED BY <2>4, <3>1, <4>1 DEF IsWatched
    <3>2. CASE own.name # box.name
      BY <2>2, <2>6, <3>2 DEF IsWatched
    <3> QED BY <3>1, <3>2
  <2> QED BY <2>1, <2>5, <2>6 DEF Serves
<1>2. CASE ~(box.path # Garbled /\ Mappable(old, box, directories))
  <2>1. WithBox(old, box, directories) = old
    BY <1>2 DEF WithBox
  <2>2. ASSUME NEW own \in asked, IsOwn(own, asked, directories), own \in {box}
        PROVE  IsWatched(old, own)
    <3>1. own = box /\ own.path \in directories /\ own.path # Garbled
      BY <2>2 DEF IsOwn
    <3>2. PICK k \in DOMAIN old : old[k].path = own.path
      BY <1>2, <3>1 DEF Mappable
    <3>3. PICK b \in asked : b.name = k /\ IsWatched(old, b)
      BY DEF Among
    <3>4. b.path = own.path
      BY <3>2, <3>3 DEF IsWatched
    <3>5. b.name = own.name
      BY <2>2, <3>4 DEF IsOwn
    <3> QED BY <3>3, <3>4, <3>5 DEF IsWatched
  <2> QED BY <2>1, <2>2 DEF Serves
<1> QED BY <1>1, <1>2

\* The turns of the loop that adds boxes.
AddsBoxes(f, S, old, new, directories) ==
  /\ f \in [0 .. Len(new) -> S]
  /\ f[0] = old
  /\ \A i \in 1 .. Len(new) : f[i] = WithBox(f[i - 1], new[i], directories)

LEMMA AddBoxesRuns ==
  ASSUME NEW K, NEW V, NEW old \in Maps(K, V), NEW new, IsSequence(new),
         NEW directories
  PROVE  \E L, W, f : /\ AddsBoxes(f, Maps(L, W), old, new, directories)
                      /\ AddBoxes(old, new, directories) = f[Len(new)]
<1> DEFINE n == Len(new)
           Of(i) == [path |-> new[i].path, symlinks |-> new[i].symlinks]
           L == K \cup { new[i].name : i \in 1 .. n }
           W == V \cup { Of(i) : i \in 1 .. n }
           S == Maps(L, W)
           g == [p \in (1 .. n) \X S |-> WithBox(p[2], new[p[1]], directories)]
           def(h) == [i \in 0 .. n |->
                        IF i = 0 THEN old ELSE WithBox(h[i - 1], new[i], directories)]
<1>1. n \in Nat
  BY LenProperties DEF IsSequence
<1>2. old \in S
  <2>1. K \subseteq L /\ V \subseteq W
    OBVIOUS
  <2> HIDE DEF L, W
  <2> QED BY <2>1, MapsMonotonic
<1>3. ASSUME NEW i \in 1 .. n, NEW m \in S
      PROVE  WithBox(m, new[i], directories) \in S
  <2>1. new[i].name \in L /\ Of(i) \in W
    OBVIOUS
  <2> HIDE DEF L, W
  <2>2. With(m, new[i].name, Of(i)) \in S
    <3> HIDE DEF Of
    <3> QED BY <1>3, <2>1, WithType
  <2> QED BY <2>2 DEF WithBox
<1> HIDE DEF L, W, S
<1>4. g \in [(1 .. n) \X S -> S]
  BY <1>3
<1>5. PICK f : IsRunOf(f, n, S, old, g)
  <2> HIDE DEF g
  <2> QED BY <1>1, <1>2, <1>4, RunExists
<1>6. \A i \in 1 .. n : f[i - 1] \in S /\ f[i] = WithBox(f[i - 1], new[i], directories)
  <2>1. \A i \in 1 .. n : i - 1 \in 0 .. n
    BY <1>1
  <2>2. \A i \in 1 .. n : f[i - 1] \in S /\ f[i] = g[<<i, f[i - 1]>>]
    BY <1>5, <2>1 DEF IsRunOf
  <2> QED BY <2>2
<1>7. f = def(f)
  <2>1. f \in [0 .. n -> S] /\ f[0] = old
    BY <1>5 DEF IsRunOf
  <2>2. \A i \in 0 .. n : i # 0 => i \in 1 .. n
    BY <1>1
  <2> QED BY <1>6, <2>1, <2>2
<1>8. PICK h : h = def(h) /\ AddBoxes(old, new, directories) = h[n]
  <2> DEFINE c == CHOOSE h : h = def(h)
  <2>1. c = def(c)
    BY <1>7
  <2>2. AddBoxes(old, new, directories) = c[n]
    BY DEF AddBoxes
  <2> QED BY <2>1, <2>2
<1>9. /\ DOMAIN h = 0 .. n /\ h[0] = old
      /\ \A i \in 1 .. n : h[i] = WithBox(h[i - 1], new[i], directories)
  <2>1. 0 \in 0 .. n /\ \A i \in 1 .. n : i \in 0 .. n /\ i # 0
    BY <1>1
  <2>2. \A i \in 0 .. n : h[i] = IF i = 0 THEN old ELSE WithBox(h[i - 1], new[i], directories)
    BY <1>8
  <2>3. DOMAIN h = 0 .. n
    BY <1>8
  <2> QED BY <2>1, <2>2, <2>3
<1>10. \A i \in 0 .. n : h[i] \in S
  <2> DEFINE H == { i \in 0 .. n : h[i] \in S }
  <2>1. 0 \in H
    BY <1>1, <1>2, <1>9
  <2>2. \A i \in 1 .. n : i - 1 \in H => i \in H
    BY <1>1, <1>3, <1>9
  <2> HIDE DEF H
  <2>3. \A i \in 0 .. n : i \in H
    BY <1>1, <2>1, <2>2, UpTo
  <2> QED BY <2>3 DEF H
<1>11. h \in [0 .. n -> S]
  <2>1. h = [i \in 0 .. n |-> h[i]]
    BY <1>8
  <2> QED BY <1>10, <2>1
<1>12. AddsBoxes(h, Maps(L, W), old, new, directories)
  BY <1>9, <1>11 DEF AddsBoxes, S
<1> QED BY <1>8, <1>12

\* So does the loop, however many it adds.
LEMMA AddBoxesServes ==
  ASSUME NEW K, NEW V, NEW old \in Maps(K, V), NEW new, IsSequence(new),
         NEW directories, NEW asked, Range(new) \subseteq asked, Among(old, asked)
  PROVE  /\ Serves(old, AddBoxes(old, new, directories), Range(new), asked, directories)
         /\ \E L, W : AddBoxes(old, new, directories) \in Maps(L, W)
<1> DEFINE n == Len(new)
           Upto(i) == { new[j] : j \in 1 .. i }
<1>1. PICK L, W, f : /\ AddsBoxes(f, Maps(L, W), old, new, directories)
                     /\ AddBoxes(old, new, directories) = f[Len(new)]
  BY AddBoxesRuns
<1>2. /\ n \in Nat /\ DOMAIN new = 1 .. n
      /\ \A i \in 1 .. n : new[i] \in asked
  <2>1. n \in Nat /\ DOMAIN new = 1 .. n
    BY LenProperties DEF IsSequence
  <2> QED BY <2>1 DEF Range
<1> DEFINE H == { i \in 0 .. n : Serves(old, f[i], Upto(i), asked, directories) }
<1>3. 0 \in H
  <2>1. f[0] = old
    BY <1>1 DEF AddsBoxes
  <2>2. Upto(0) = {}
    OBVIOUS
  <2> QED BY <1>2, <2>1, <2>2 DEF Serves
<1>4. ASSUME NEW i \in 1 .. n, i - 1 \in H
      PROVE  i \in H
  <2>1. i \in 0 .. n /\ f[i] = WithBox(f[i - 1], new[i], directories)
    BY <1>1, <1>2 DEF AddsBoxes
  <2>2. Serves(old, f[i - 1], Upto(i - 1), asked, directories)
    BY <1>4
  <2>3. new[i] \in asked
    BY <1>2
  <2>4. Serves(f[i - 1], f[i], {new[i]}, asked, directories)
    BY <2>1, <2>2, <2>3, WithBoxServes DEF Serves
  <2>5. Upto(i) = Upto(i - 1) \cup {new[i]}
    <3>1. \A j \in 1 .. i : j \in 1 .. i - 1 \/ j = i
      BY <1>2
    <3>2. i \in 1 .. i /\ \A j \in 1 .. i - 1 : j \in 1 .. i
      BY <1>2
    <3> QED BY <3>1, <3>2
  <2> HIDE DEF Upto
  <2>6. Serves(old, f[i], Upto(i), asked, directories)
    BY <2>2, <2>4, <2>5 DEF Serves
  <2> QED BY <2>1, <2>6
<1> HIDE DEF H
<1>5. \A i \in 0 .. n : i \in H
  BY <1>2, <1>3, <1>4, UpTo
<1>6. n \in 0 .. n
  BY <1>2
<1>7. Upto(n) = Range(new)
  BY <1>2 DEF Range
<1>8. Serves(old, f[n], Range(new), asked, directories)
  BY <1>5, <1>6, <1>7 DEF H
<1>9. f[n] \in Maps(L, W)
  BY <1>1, <1>6 DEF AddsBoxes
<1> QED BY <1>1, <1>8, <1>9

\* What program_options stores of well-formed inputs are lists.
LEMMA OptionsType ==
  ASSUME NEW in, WellFormed(in)
  PROVE  \A o \in OptionName : IsSequence(Options(in)[o])
<1> DEFINE file == IF in.file = Missing THEN NoOptions ELSE in.file.options
<1>1. DOMAIN in.cli = OptionName
  BY DEF WellFormed
<1>2. \A o \in OptionName : IsSequence(in.cli[o])
  BY DEF WellFormed
<1>3. \A o \in OptionName : IsSequence(file[o])
  <2>1. CASE in.file = Missing
    <3>1. \A o \in OptionName : NoOptions[o] = <<>>
      BY DEF OptionName, NoOptions
    <3>2. IsSequence(<<>>)
      BY EmptySeq DEF IsSequence
    <3> QED BY <2>1, <3>1, <3>2
  <2>2. CASE in.file # Missing
    BY <2>2 DEF WellFormed
  <2> QED BY <2>1, <2>2
<1> HIDE DEF file
<1>4. \A o \in OptionName :
        Stored(in.cli, file)[o] = IF in.cli[o] = <<>> THEN file[o] ELSE in.cli[o]
  BY <1>1 DEF Stored
<1>5. Options(in) = Stored(in.cli, file)
  BY DEF Options, file
<1> QED BY <1>2, <1>3, <1>4, <1>5

\* An accepted input is not given up on.
LEMMA AcceptedType ==
  ASSUME NEW in \in Accepted
  PROVE  /\ WellFormed(in)
         /\ Initialize(in).nodes = NodeMap(Endpoints(Options(in).node), in.keystore)
         /\ Initialize(in).boxes = ConfiguredBoxes(in)
<1>1. WellFormed(in) /\ Initialize(in).ok
  BY SamplesAssumption DEF Accepted
<1>2. GivesUp.ok = FALSE
  BY DEF GivesUp
<1>3. Initialize(in) # GivesUp
  BY <1>1, <1>2
<1>4. Initialize(in) =
        [ok    |-> TRUE,
         nodes |-> NodeMap(Endpoints(Options(in).node), in.keystore),
         hosts |-> Endpoints(Options(in).hostname),
         boxes |-> ConfiguredBoxes(in)]
  BY <1>3 DEF Initialize
<1> QED BY <1>1, <1>4

\* Whatever the config file's blocks and the command line say, and in whatever
\* order, a box with a name and a path of its own is watched, and none that was not
\* asked for (config.cpp:265-296, 398-436, 438-465).
THEOREM BoxesCorrect == Spec => []OwnBoxesWatched
<1>1. OwnBoxesWatched
  <2> SUFFICES ASSUME NEW in \in Accepted
               PROVE  LET asked == AskedBoxes(in)
                          watched == Initialize(in).boxes
                      IN /\ \A box \in asked :
                              IsOwn(box, asked, in.directories) => IsWatched(watched, box)
                         /\ \A name \in DOMAIN watched :
                              \E box \in asked : box.name = name /\ IsWatched(watched, box)
    BY DEF OwnBoxesWatched
  <2> DEFINE asked == AskedBoxes(in)
             dirs == in.directories
             none == <<>>
             listed == IF in.file = Missing THEN {} ELSE Range(in.file.blocks)
             blocks == IF in.file = Missing THEN none
                       ELSE BlockBoxes(in.file.blocks, dirs)
             options == Options(in).box
             K0 == {}
             V0 == {}
  <2>1. none \in Maps(K0, V0) /\ Among(none, asked)
    BY EmptyMap DEF Among
  <2>2. asked = listed \cup Range(options)
    BY DEF AskedBoxes
  <2> HIDE DEF none, K0, V0, asked, options, dirs
  <2>3. Serves(none, blocks, listed, asked, dirs) /\ \E K, V : blocks \in Maps(K, V)
    <3>1. CASE in.file = Missing
      BY <2>1, <3>1 DEF Serves
    <3>2. CASE in.file # Missing
      <4> DEFINE b == in.file.blocks
      <4>1. IsSequence(b) /\ Range(b) \subseteq asked
        BY <2>2, <3>2, AcceptedType DEF WellFormed
      <4>2. blocks = AddBoxes(none, b, dirs) /\ listed = Range(b)
        BY <3>2 DEF BlockBoxes, none
      <4> HIDE DEF b, blocks, listed
      <4> QED BY <2>1, <4>1, <4>2, AddBoxesServes
    <3> QED BY <3>1, <3>2
  <2> HIDE DEF blocks, listed
  <2>4. PICK K, V : blocks \in Maps(K, V)
    BY <2>3
  <2>5. IsSequence(options)
    <3>1. IsSequence(Options(in)["box"])
      BY AcceptedType, OptionsType DEF OptionName
    <3> QED BY <3>1 DEF options
  <2> DEFINE watched == AddBoxes(blocks, options, dirs)
  <2>6. Serves(blocks, watched, Range(options), asked, dirs)
    <3>1. Among(blocks, asked)
      BY <2>3 DEF Serves
    <3> QED BY <2>2, <2>4, <2>5, <3>1, AddBoxesServes
  <2>7. Initialize(in).boxes = watched
    BY AcceptedType DEF ConfiguredBoxes, blocks, none, options, dirs
  <2> HIDE DEF watched
  <2>8. \A own \in asked : IsOwn(own, asked, dirs) => IsWatched(watched, own)
    BY <2>2, <2>3, <2>6 DEF Serves
  <2>9. Among(watched, asked)
    BY <2>6 DEF Serves
  <2> QED BY <2>7, <2>8, <2>9 DEF Among, asked, dirs
<1> QED BY <1>1, PTL

-----------------------------------------------------------------------------
(* Nodes.                                                                  *)

\* What is kept of a list holds all of it, so far.
KeepsAll(u, s, i) == \A j \in 1 .. i : \E k \in 1 .. Len(u) : u[k] = s[j]

\* v holds what u holds, and a.
HoldsToo(v, u, a) ==
  /\ \E k \in 1 .. Len(v) : v[k] = a
  /\ \A j \in 1 .. Len(u) : \E k \in 1 .. Len(v) : v[k] = u[j]

\* A value is left out only where it is held already.
LEMMA WithoutRepeatKeeps ==
  ASSUME NEW S, NEW u \in Seq(S), NEW a \in S
  PROVE  WithoutRepeat(u, a) \in Seq(S) /\ HoldsToo(WithoutRepeat(u, a), u, a)
<1>1. CASE u # <<>> /\ Last(u) = a
  <2>1. WithoutRepeat(u, a) = u
    BY <1>1 DEF WithoutRepeat
  <2>2. Len(u) \in 1 .. Len(u) /\ u[Len(u)] = a
    BY <1>1, EmptySeq DEF Last
  <2> QED BY <2>1, <2>2 DEF HoldsToo
<1>2. CASE ~(u # <<>> /\ Last(u) = a)
  <2> DEFINE v == Append(u, a)
  <2>1. WithoutRepeat(u, a) = v
    BY <1>2 DEF WithoutRepeat
  <2>2. /\ v \in Seq(S) /\ Len(v) = Len(u) + 1 /\ v[Len(u) + 1] = a
        /\ \A j \in 1 .. Len(u) : v[j] = u[j]
        /\ Len(u) \in Nat
    BY AppendProperties, LenProperties
  <2> HIDE DEF v
  <2>3. Len(u) + 1 \in 1 .. Len(v) /\ \A j \in 1 .. Len(u) : j \in 1 .. Len(v)
    BY <2>2
  <2> QED BY <2>1, <2>2, <2>3 DEF HoldsToo
<1> QED BY <1>1, <1>2

\* std::unique leaves a value of every kind it found.
LEMMA UniqueKeeps ==
  ASSUME NEW s, IsSequence(s)
  PROVE  Unique(s) \in Seq(Range(s)) /\ Range(Unique(s)) = Range(s)
<1> DEFINE n == Len(s)
           S == Seq(Range(s))
           g == [p \in (1 .. n) \X S |-> WithoutRepeat(p[2], s[p[1]])]
           def(h) == [i \in 0 .. n |-> IF i = 0 THEN <<>> ELSE WithoutRepeat(h[i - 1], s[i])]
<1>1. n \in Nat /\ s \in S /\ DOMAIN s = 1 .. n
  BY LenProperties DEF IsSequence
<1>2. <<>> \in S
  BY EmptySeq
<1>3. \A i \in 1 .. n, u \in S : WithoutRepeat(u, s[i]) \in S
  <2>1. \A i \in 1 .. n : s[i] \in Range(s)
    BY <1>1 DEF Range
  <2> QED BY <2>1, WithoutRepeatKeeps
<1>4. g \in [(1 .. n) \X S -> S]
  BY <1>3
<1> HIDE DEF S
<1>5. PICK f : IsRunOf(f, n, S, <<>>, g)
  <2> DEFINE none == <<>>
  <2>1. none \in S
    BY <1>2
  <2> HIDE DEF g, none
  <2>2. \E f : IsRunOf(f, n, S, none, g)
    BY <1>1, <1>4, <2>1, RunExists
  <2> QED BY <2>2 DEF none
<1>6. \A i \in 1 .. n : f[i - 1] \in S /\ f[i] = WithoutRepeat(f[i - 1], s[i])
  <2>1. \A i \in 1 .. n : i - 1 \in 0 .. n
    BY <1>1
  <2>2. \A i \in 1 .. n : f[i - 1] \in S /\ f[i] = g[<<i, f[i - 1]>>]
    BY <1>5, <2>1 DEF IsRunOf
  <2> QED BY <2>2
<1>7. f = def(f)
  <2>1. f \in [0 .. n -> S] /\ f[0] = <<>>
    BY <1>5 DEF IsRunOf
  <2>2. \A i \in 0 .. n : i # 0 => i \in 1 .. n
    BY <1>1
  <2> QED BY <1>6, <2>1, <2>2
<1>8. PICK h : h = def(h) /\ Unique(s) = h[n]
  <2> DEFINE c == CHOOSE h : h = def(h)
  <2>1. c = def(c)
    BY <1>7
  <2>2. Unique(s) = c[n]
    BY DEF Unique
  <2> QED BY <2>1, <2>2
<1>9. /\ h[0] = <<>>
      /\ \A i \in 1 .. n : h[i] = WithoutRepeat(h[i - 1], s[i])
  <2>1. 0 \in 0 .. n /\ \A i \in 1 .. n : i \in 0 .. n /\ i # 0
    BY <1>1
  <2>2. \A i \in 0 .. n : h[i] = IF i = 0 THEN <<>> ELSE WithoutRepeat(h[i - 1], s[i])
    BY <1>8
  <2> QED BY <2>1, <2>2
<1> DEFINE H == { i \in 0 .. n : h[i] \in S /\ KeepsAll(h[i], s, i) }
<1>10. 0 \in H
  BY <1>1, <1>2, <1>9 DEF KeepsAll
<1>11. ASSUME NEW i \in 1 .. n, i - 1 \in H
       PROVE  i \in H
  <2> DEFINE u == h[i - 1]
             a == s[i]
             R == Range(s)
             v == WithoutRepeat(u, a)
  <2>1. h[i] = v /\ u \in S /\ KeepsAll(u, s, i - 1) /\ i \in 0 .. n
    BY <1>1, <1>9, <1>11
  <2>2. a \in R /\ u \in Seq(R)
    BY <1>1, <2>1 DEF Range, S
  <2>3. /\ v \in S
        /\ \E k \in 1 .. Len(v) : v[k] = s[i]
        /\ \A j \in 1 .. Len(u) : \E k \in 1 .. Len(v) : v[k] = u[j]
    <3> HIDE DEF u, a, R
    <3>1. v \in Seq(R) /\ HoldsToo(v, u, a)
      BY <2>2, WithoutRepeatKeeps
    <3> HIDE DEF v
    <3> QED BY <3>1 DEF HoldsToo, S, R, a
  <2> HIDE DEF u, v
  <2>4. ASSUME NEW j \in 1 .. i PROVE \E k \in 1 .. Len(v) : v[k] = s[j]
    <3>1. CASE j = i
      BY <2>3, <3>1
    <3>2. CASE j # i
      <4>1. j \in 1 .. i - 1
        BY <1>1, <3>2
      <4>2. PICK l \in 1 .. Len(u) : u[l] = s[j]
        BY <2>1, <4>1 DEF KeepsAll
      <4> QED BY <2>3, <4>2
    <3> QED BY <3>1, <3>2
  <2> QED BY <2>1, <2>3, <2>4 DEF KeepsAll
<1> HIDE DEF H
<1>12. \A i \in 0 .. n : i \in H
  BY <1>1, <1>10, <1>11, UpTo
<1>13. Unique(s) \in S /\ KeepsAll(Unique(s), s, n)
  BY <1>1, <1>8, <1>12 DEF H
<1>14. DOMAIN Unique(s) = 1 .. Len(Unique(s)) /\ \A k \in 1 .. Len(Unique(s)) : Unique(s)[k] \in Range(s)
  BY <1>13, LenProperties DEF S
<1>15. Range(Unique(s)) \subseteq Range(s)
  BY <1>14 DEF Range
<1>16. Range(s) \subseteq Range(Unique(s))
  BY <1>1, <1>13, <1>14 DEF Range, KeepsAll
<1> QED BY <1>13, <1>15, <1>16 DEF S

\* The endpoints are those of the addresses, and all of them.
LEMMA EndpointsAreAll ==
  ASSUME NEW s, IsSequence(s)
  PROVE  /\ Endpoints(s) \in Seq({ Endpoint(a) : a \in Range(s) })
         /\ \A a \in Range(s) : \E j \in 1 .. Len(Endpoints(s)) : Endpoints(s)[j] = Endpoint(a)
<1> DEFINE u == Unique(s)
           R == Range(s)
           E == { Endpoint(a) : a \in R }
           e == [i \in DOMAIN u |-> Endpoint(u[i])]
           n == Len(u)
<1>1. u \in Seq(R) /\ Range(u) = R
  BY UniqueKeeps
<1>2. Endpoints(s) = e
  BY DEF Endpoints
<1> HIDE DEF u
<1>3. n \in Nat /\ DOMAIN u = 1 .. n /\ \A i \in 1 .. n : u[i] \in R
  <2> HIDE DEF R
  <2> QED BY <1>1, LenProperties
<1>4. \A i \in 1 .. n : Endpoint(u[i]) \in E
  BY <1>3
<1> HIDE DEF E, R, n
<1>5. e = [i \in 1 .. n |-> e[i]] /\ \A i \in 1 .. n : e[i] = Endpoint(u[i])
  BY <1>3
<1> HIDE DEF e
<1>6. e \in [1 .. n -> E]
  BY <1>4, <1>5
<1>7. e \in Seq(E) /\ Len(e) = n
  BY <1>3, <1>6, SeqDef, LenProperties
<1>8. \A a \in R : \E j \in 1 .. n : u[j] = a
  BY <1>1, <1>3 DEF Range
<1>9. \A a \in R : \E j \in 1 .. Len(e) : e[j] = Endpoint(a)
  BY <1>5, <1>7, <1>8
<1> QED BY <1>2, <1>7, <1>9 DEF E, R

\* After the first i endpoints: every node is found under its own key, and
\* every key among them has a node.
KeyedUpTo(m, endpoints, keystore, i) ==
  /\ \A k \in DOMAIN m : KeyOf(keystore, m[k]) = k
  /\ \A j \in 1 .. i : KeyOf(keystore, endpoints[j]) \in DOMAIN m

\* A turn of the loop keeps that.
LEMMA WithNodeKeyed ==
  ASSUME NEW m, NEW endpoints, NEW keystore, NEW i \in Nat \ {0},
         KeyedUpTo(m, endpoints, keystore, i - 1)
  PROVE  KeyedUpTo(WithNode(m, KeyOf(keystore, endpoints[i]), endpoints[i]),
                   endpoints, keystore, i)
<1> DEFINE e == endpoints[i]
           k == KeyOf(keystore, e)
           w == WithNode(m, k, e)
<1>1. KeyOf(keystore, e) = k
  OBVIOUS
<1>2. \A j \in 1 .. i : j \in 1 .. i - 1 \/ j = i
  OBVIOUS
<1>3. \A j \in 1 .. i - 1 : KeyOf(keystore, endpoints[j]) \in DOMAIN m
  BY DEF KeyedUpTo
<1>4. \A l \in DOMAIN m : KeyOf(keystore, m[l]) = l
  BY DEF KeyedUpTo
<1> HIDE DEF k
<1>5. CASE k \in DOMAIN m
  <2>1. w = m
    BY <1>5 DEF WithNode
  <2>2. \A j \in 1 .. i : KeyOf(keystore, endpoints[j]) \in DOMAIN m
    BY <1>1, <1>2, <1>3, <1>5
  <2> QED BY <1>4, <2>1, <2>2 DEF KeyedUpTo, k
<1>6. CASE k \notin DOMAIN m
  <2>1. /\ DOMAIN w = DOMAIN m \cup {k}
        /\ \A l \in DOMAIN w : w[l] = IF l = k THEN e ELSE m[l]
    BY <1>6 DEF WithNode, With
  <2> HIDE DEF w
  <2>2. \A j \in 1 .. i : KeyOf(keystore, endpoints[j]) \in DOMAIN w
    BY <1>1, <1>2, <1>3, <2>1
  <2>3. \A l \in DOMAIN w : KeyOf(keystore, w[l]) = l
    BY <1>1, <1>4, <2>1
  <2> QED BY <2>2, <2>3 DEF KeyedUpTo, k, w
<1> QED BY <1>5, <1>6

\* The map of all the endpoints.
LEMMA NodeMapKeyed ==
  ASSUME NEW E, NEW endpoints \in Seq(E), NEW keystore
  PROVE  /\ \E K : NodeMap(endpoints, keystore) \in Maps(K, E)
         /\ KeyedUpTo(NodeMap(endpoints, keystore), endpoints, keystore, Len(endpoints))
<1> DEFINE n == Len(endpoints)
           key(i) == KeyOf(keystore, endpoints[i])
           K == { key(i) : i \in 1 .. n }
           S == Maps(K, E)
           g == [p \in (1 .. n) \X S |-> WithNode(p[2], key(p[1]), endpoints[p[1]])]
           def(h) == [i \in 0 .. n |-> IF i = 0 THEN <<>>
                                       ELSE WithNode(h[i - 1], key(i), endpoints[i])]
<1>1. n \in Nat /\ \A i \in 1 .. n : endpoints[i] \in E
  BY LenProperties
<1>2. <<>> \in S /\ DOMAIN <<>> = {}
  <2> HIDE DEF K
  <2> QED BY EmptyMap
<1>3. \A i \in 1 .. n, m \in S : WithNode(m, key(i), endpoints[i]) \in S
  <2> SUFFICES ASSUME NEW i \in 1 .. n, NEW m \in S
               PROVE  WithNode(m, key(i), endpoints[i]) \in S
    OBVIOUS
  <2> DEFINE k == key(i)
             e == endpoints[i]
  <2>1. k \in K /\ e \in E
    BY <1>1
  <2> HIDE DEF K, k, e
  <2>2. With(m, k, e) \in S
    BY <2>1, WithType
  <2>3. WithNode(m, k, e) \in S
    BY <2>2 DEF WithNode
  <2> QED BY <2>3 DEF k, e
<1> HIDE DEF K, S, key
<1>4. g \in [(1 .. n) \X S -> S]
  BY <1>3
<1>5. PICK f : IsRunOf(f, n, S, <<>>, g)
  <2> DEFINE none == <<>>
  <2>1. none \in S
    BY <1>2
  <2> HIDE DEF g, none
  <2>2. \E f : IsRunOf(f, n, S, none, g)
    BY <1>1, <1>4, <2>1, RunExists
  <2> QED BY <2>2 DEF none
<1>6. \A i \in 1 .. n : f[i] = WithNode(f[i - 1], key(i), endpoints[i])
  <2>1. \A i \in 1 .. n : i - 1 \in 0 .. n
    BY <1>1
  <2>2. \A i \in 1 .. n : f[i - 1] \in S /\ f[i] = g[<<i, f[i - 1]>>]
    BY <1>5, <2>1 DEF IsRunOf
  <2> QED BY <2>2
<1>7. f = def(f)
  <2>1. f \in [0 .. n -> S] /\ f[0] = <<>>
    BY <1>5 DEF IsRunOf
  <2>2. \A i \in 0 .. n : i # 0 => i \in 1 .. n
    BY <1>1
  <2> QED BY <1>6, <2>1, <2>2
<1>8. PICK h : h = def(h) /\ NodeMap(endpoints, keystore) = h[n]
  <2> DEFINE c == CHOOSE h : h = def(h)
  <2>1. c = def(c)
    BY <1>7
  <2>2. NodeMap(endpoints, keystore) = c[n]
    BY DEF NodeMap, key
  <2> QED BY <2>1, <2>2
<1>9. /\ h[0] = <<>>
      /\ \A i \in 1 .. n : h[i] = WithNode(h[i - 1], key(i), endpoints[i])
  <2>1. 0 \in 0 .. n /\ \A i \in 1 .. n : i \in 0 .. n /\ i # 0
    BY <1>1
  <2>2. \A i \in 0 .. n : h[i] = IF i = 0 THEN <<>>
                                 ELSE WithNode(h[i - 1], key(i), endpoints[i])
    BY <1>8
  <2> QED BY <2>1, <2>2
<1> DEFINE H == { i \in 0 .. n : h[i] \in S /\ KeyedUpTo(h[i], endpoints, keystore, i) }
<1>10. 0 \in H
  BY <1>1, <1>2, <1>9 DEF KeyedUpTo
<1>11. ASSUME NEW i \in 1 .. n, i - 1 \in H
       PROVE  i \in H
  <2> DEFINE m == h[i - 1]
  <2>1. m \in S /\ KeyedUpTo(m, endpoints, keystore, i - 1)
    BY <1>11
  <2>2. h[i] = WithNode(m, key(i), endpoints[i]) /\ i \in Nat \ {0} /\ i \in 0 .. n
    BY <1>1, <1>9
  <2> HIDE DEF m
  <2>3. h[i] \in S
    BY <1>3, <2>1, <2>2
  <2>4. KeyedUpTo(WithNode(m, key(i), endpoints[i]), endpoints, keystore, i)
    BY <2>1, <2>2, WithNodeKeyed DEF key
  <2> QED BY <2>2, <2>3, <2>4
<1> HIDE DEF H
<1>12. \A i \in 0 .. n : i \in H
  BY <1>1, <1>10, <1>11, UpTo
<1>13. h[n] \in S /\ KeyedUpTo(h[n], endpoints, keystore, n)
  BY <1>1, <1>12 DEF H
<1> QED BY <1>8, <1>13 DEF S

\* Every node configured with a key of its own is subscribed to, and once,
\* however its address is spelled and repeated (config.cpp:171-183, 362-376).
THEOREM NodesCorrect == Spec => []KeyedNodesHeard
<1>1. KeyedNodesHeard
  <2> SUFFICES ASSUME NEW in \in Accepted
               PROVE  LET n == Initialize(in).nodes
                          endpoints == { Endpoint(a) : a \in Range(Options(in).node) }
                          KeyAt(e) == KeyOf(in.keystore, e)
                      IN \A e \in endpoints :
                           (\A d \in endpoints : KeyAt(d) = KeyAt(e) => d = e) =>
                              { k \in DOMAIN n : n[k] = e } = {KeyAt(e)}
    BY DEF KeyedNodesHeard
  <2> DEFINE s == Options(in).node
             es == Endpoints(s)
             E == { Endpoint(a) : a \in Range(s) }
             ks == in.keystore
             n == NodeMap(es, ks)
  <2>1. IsSequence(s)
    <3>1. IsSequence(Options(in)["node"])
      BY AcceptedType, OptionsType DEF OptionName
    <3> QED BY <3>1
  <2>2. Initialize(in).nodes = n
    BY AcceptedType
  <2> HIDE DEF s, ks
  <2>3. es \in Seq(E) /\ \A e \in E : \E j \in 1 .. Len(es) : es[j] = e
    BY <2>1, EndpointsAreAll
  <2> HIDE DEF es, E
  <2>4. /\ \E K : n \in Maps(K, E)
        /\ KeyedUpTo(n, es, ks, Len(es))
    BY <2>3, NodeMapKeyed
  <2> HIDE DEF n
  <2>5. /\ \A k \in DOMAIN n : n[k] \in E /\ KeyOf(ks, n[k]) = k
        /\ \A e \in E : KeyOf(ks, e) \in DOMAIN n
    <3>1. \A k \in DOMAIN n : n[k] \in E
      BY <2>4 DEF Maps
    <3>2. \A e \in E : KeyOf(ks, e) \in DOMAIN n
      BY <2>3, <2>4 DEF KeyedUpTo
    <3> QED BY <2>4, <3>1, <3>2 DEF KeyedUpTo
  <2>6. ASSUME NEW e \in E, \A d \in E : KeyOf(ks, d) = KeyOf(ks, e) => d = e
        PROVE  { k \in DOMAIN n : n[k] = e } = {KeyOf(ks, e)}
    BY <2>5, <2>6
  <2> QED BY <2>2, <2>6 DEF E, s, ks
<1> QED BY <1>1, PTL
=============================================================================
