--------------------------- MODULE TransferProofs ---------------------------
(***************************************************************************)
(* A receiver that answers "all received" holds what the sender read, for  *)
(* every package size, every content, any number of changes meanwhile and  *)
(* any number of rounds; but what was behind it remains where a round found*)
(* file_metadata_written_ set.                                             *)
(*                                                                         *)
(* CompleteIsFaithful is not inductive: it needs to know what the packages *)
(* under way hold.  TransferInv adds that every package with a status is   *)
(* the first one, and what the copy holds behind the size announced.       *)
(***************************************************************************)
EXTENDS FileTransfer, TLAPS

\* A package with a status holds the bytes of the first read, from the start
\* of the file, and says there are more just when these are not all.
IsFirst(package, o, first) ==
  package.status =>
    /\ o > 0
    /\ package.offset = 0
    /\ package.data = first
    /\ package.dataSize = Len(first)
    /\ package.more <=> Len(first) < size

\* What a file holds behind its first size bytes.
Behind(file) == SubSeq(file, size + 1, Len(file))

TransferInv ==
  /\ TransferTypeOK
  /\ offset = 0 => dataSize = 0 /\ ~fail /\ receiver # "complete"
  /\ receiver = "ready" => ~more
  /\ receiver = "receiving" => Behind(copy) = Remains
  /\ Len(taken) <= Wanted
  /\ \A i \in 1 .. Len(dispatched) : IsFirst(dispatched[i], offset, taken)
  /\ \A i \in 1 .. Len(wire) : IsFirst(wire[i], offset, taken)
  /\ CompleteIsFaithful

-----------------------------------------------------------------------------
\* A function on 1 .. n is a sequence of length n.
LEMMA FunctionIsSeq ==
  ASSUME NEW n \in Nat, NEW S, NEW f \in [1 .. n -> S]
  PROVE  f \in Seq(S) /\ Len(f) = n
OBVIOUS

\* What a file reads as has the length asked for at most.
LEMMA GotType ==
  ASSUME TransferTypeOK
  PROVE  /\ Got \in Seq(Byte) /\ Len(Got) <= Wanted
         /\ Wanted \in Nat /\ Wanted <= P /\ Wanted <= size
<1> USE TransferAssumption DEF TransferTypeOK, P
<1>1. Wanted \in Nat /\ Wanted <= P /\ Wanted <= size
  BY DEF Wanted
<1>2. source \in Seq(Byte)
  OBVIOUS
<1>3. CASE fail
  BY <1>1, <1>3 DEF Got
<1>4. CASE ~fail
  <2> DEFINE last == IF offset + Wanted <= Len(source) THEN offset + Wanted
                                                      ELSE Len(source)
  <2>1. Got = SubSeq(source, offset + 1, last)
    BY <1>4 DEF Got
  <2>2. last \in Nat /\ last <= Len(source) /\ last <= offset + Wanted
    BY <1>1, <1>2
  <2> HIDE DEF last
  <2>3. SubSeq(source, offset + 1, last) \in Seq(Byte)
    BY <1>2, <2>2
  <2>4. Len(SubSeq(source, offset + 1, last))
          = IF offset + 1 <= last THEN last - (offset + 1) + 1 ELSE 0
    BY <1>2, <2>2
  <2> QED BY <1>1, <2>1, <2>2, <2>3, <2>4
<1> QED BY <1>3, <1>4

\* Sequences with the same elements are the same.
LEMMA SameElements ==
  ASSUME NEW S, NEW p \in Seq(S), NEW q \in Seq(S), Len(p) = Len(q),
         \A i \in 1 .. Len(p) : p[i] = q[i]
  PROVE  p = q
OBVIOUS

\* The part of a sequence behind its first k elements.
LEMMA BehindIs ==
  ASSUME NEW S, NEW s \in Seq(S), NEW k \in Nat
  PROVE  LET t == SubSeq(s, k + 1, Len(s)) IN
         /\ t \in Seq(S)
         /\ Len(t) = IF k <= Len(s) THEN Len(s) - k ELSE 0
         /\ \A i \in 1 .. Len(t) : t[i] = s[k + i]
OBVIOUS

\* Writing a package of at most the announced size leaves what is behind that.
LEMMA StoredType ==
  ASSUME TransferTypeOK, NEW data \in Seq(Byte), Len(data) <= Wanted
  PROVE  LET c == Stored(copy, data, Len(data), 0) IN
         /\ c \in Seq(Byte)
         /\ Behind(c) = Behind(copy)
         /\ Len(data) = size => c = data \o Behind(copy)
<1> USE TransferAssumption DEF TransferTypeOK, P
<1>1. Len(data) <= size /\ Len(data) <= P /\ Len(data) \in Nat /\ size \in Nat
  BY DEF Wanted
<1> DEFINE c == Stored(copy, data, Len(data), 0)
           n == IF size <= P /\ size <= Len(data) THEN size
                ELSE IF Len(data) < P THEN Len(data) ELSE P
           end == IF 0 + n > Len(copy) THEN 0 + n ELSE Len(copy)
           filled == [i \in 1 .. end |->
                        IF i \in 0 + 1 .. 0 + n THEN data[i - 0]
                        ELSE IF i <= Len(copy) THEN copy[i] ELSE Zero]
<1>2. n = Len(data)
  BY <1>1
<1>3. c = IF n = 0 THEN copy ELSE filled
  BY DEF Stored
<1> HIDE DEF n
<1>4. end \in Nat /\ end >= n /\ end >= Len(copy) /\ end \in {n, Len(copy)}
  BY <1>1, <1>2
<1>5. filled \in [1 .. end -> Byte]
  BY <1>1, <1>2, <1>4
<1>6. filled \in Seq(Byte) /\ Len(filled) = end
  BY <1>4, <1>5, FunctionIsSeq
<1>7. \A i \in 1 .. end : filled[i] = IF i <= n THEN data[i] ELSE copy[i]
  BY <1>1, <1>2, <1>4
<1> HIDE DEF filled, end, c
<1>8. /\ c \in Seq(Byte) /\ Len(c) = end
      /\ \A i \in 1 .. end : c[i] = IF i <= n THEN data[i] ELSE copy[i]
  <2>1. CASE n = 0
    BY <1>3, <1>4, <2>1
  <2>2. CASE n # 0
    BY <1>3, <1>6, <1>7, <2>2
  <2> QED BY <2>1, <2>2
<1>9. copy \in Seq(Byte)
  OBVIOUS
<1>10. /\ Behind(c) \in Seq(Byte)
       /\ Len(Behind(c)) = IF size <= end THEN end - size ELSE 0
       /\ \A i \in 1 .. Len(Behind(c)) : Behind(c)[i] = c[size + i]
  BY <1>1, <1>8, BehindIs DEF Behind
<1>11. /\ Behind(copy) \in Seq(Byte)
       /\ Len(Behind(copy)) = IF size <= Len(copy) THEN Len(copy) - size ELSE 0
       /\ \A i \in 1 .. Len(Behind(copy)) : Behind(copy)[i] = copy[size + i]
  BY <1>1, <1>9, BehindIs DEF Behind
<1>12. Len(Behind(c)) = Len(Behind(copy))
  BY <1>1, <1>2, <1>4, <1>9, <1>10, <1>11
<1>13. ASSUME NEW i \in 1 .. Len(Behind(c))
       PROVE  Behind(c)[i] = Behind(copy)[i]
  <2>1. size + i \in 1 .. end /\ ~(size + i <= n)
    BY <1>1, <1>2, <1>4, <1>10
  <2>2. c[size + i] = copy[size + i]
    BY <1>8, <2>1
  <2> QED BY <1>10, <1>11, <1>12, <2>2
<1>14. Behind(c) = Behind(copy)
  BY <1>10, <1>11, <1>12, <1>13, SameElements
<1>15. ASSUME Len(data) = size
       PROVE  c = data \o Behind(copy)
  <2> DEFINE rest == Behind(copy)
             joined == data \o rest
  <2>0. rest \in Seq(Byte) /\ Len(rest) \in Nat
    BY <1>11
  <2> HIDE DEF rest
  <2>1. /\ joined \in Seq(Byte) /\ Len(joined) = size + Len(rest)
        /\ \A i \in 1 .. Len(joined) :
             joined[i] = IF i <= size THEN data[i] ELSE rest[i - size]
    BY <1>1, <1>15, <2>0
  <2> USE DEF rest
  <2> HIDE DEF joined
  <2>2. Len(joined) = end
    BY <1>1, <1>2, <1>4, <1>9, <1>11, <1>15, <2>1
  <2>3. ASSUME NEW i \in 1 .. end
        PROVE  c[i] = joined[i]
    <3>1. CASE i <= size
      BY <1>2, <1>8, <1>15, <2>1, <2>2, <3>1
    <3>2. CASE ~(i <= size)
      <4>1. i - size \in 1 .. Len(Behind(copy)) /\ size + (i - size) = i
        BY <1>1, <1>4, <2>1, <2>2, <3>2
      <4>2. Behind(copy)[i - size] = copy[i]
        BY <1>11, <4>1
      <4> QED BY <1>2, <1>8, <1>15, <2>1, <2>2, <3>2, <4>2
    <3> QED BY <3>1, <3>2
  <2>4. c = joined
    BY <1>8, <2>1, <2>2, <2>3, SameElements
  <2> QED BY <2>4 DEF joined
<1> QED BY <1>8, <1>14, <1>15 DEF c

\* A copy cut to the announced size holds nothing behind it.
LEMMA ResizedType ==
  ASSUME NEW old \in Seq(Byte), NEW n \in Nat
  PROVE  Resized(old, n) \in Seq(Byte) /\ Len(Resized(old, n)) = n
<1>1. Resized(old, n) \in [1 .. n -> Byte]
  BY TransferAssumption DEF Resized
<1> QED BY <1>1, FunctionIsSeq

-----------------------------------------------------------------------------
\* A queue of good packages stays one when the next is taken from it.
LEMMA QueueTaken ==
  ASSUME NEW q \in Seq(Package), q # <<>>, NEW o, NEW first,
         \A i \in 1 .. Len(q) : IsFirst(q[i], o, first)
  PROVE  /\ Head(q) \in Package /\ IsFirst(Head(q), o, first)
         /\ Tail(q) \in Seq(Package)
         /\ \A i \in 1 .. Len(Tail(q)) : IsFirst(Tail(q)[i], o, first)
<1>1. Head(q) = q[1] /\ Len(q) > 0
  OBVIOUS
<1>2. Tail(q) \in Seq(Package) /\ Len(Tail(q)) = Len(q) - 1
  OBVIOUS
<1>3. \A i \in 1 .. Len(Tail(q)) : Tail(q)[i] = q[i + 1] /\ i + 1 \in 1 .. Len(q)
  OBVIOUS
<1> QED BY <1>1, <1>2, <1>3

LEMMA TransferInvInit == Init => TransferInv
<1> SUFFICES ASSUME Init PROVE TransferInv
  OBVIOUS
<1> USE TransferAssumption DEF Init
<1>1. /\ more \in BOOLEAN /\ fail \in BOOLEAN /\ lost \in BOOLEAN
      /\ written \in BOOLEAN /\ stale \in BOOLEAN
      /\ signal \in {"heartbeat", "200"}
      /\ receiver \in {"ready", "receiving", "complete", "aborted"}
  BY Zenon
<1>2. /\ offset \in Nat /\ dataSize \in 0 .. offset /\ size \in Nat
      /\ edits \in 0 .. MaxEdits /\ rounds \in 0 .. MaxRounds
  OBVIOUS
<1>3. /\ dispatched \in Seq(Package) /\ wire \in Seq(Package)
      /\ taken \in Seq(Byte) /\ copy \in Seq(Byte) /\ older \in Seq(Byte)
  OBVIOUS
<1>4. TransferTypeOK
  BY <1>1, <1>2, <1>3 DEF TransferTypeOK
<1> QED BY <1>2, <1>4 DEF TransferInv, CompleteIsFaithful, Wanted, P

LEMMA TransferInvStep == TransferInv /\ [Next]_vars => TransferInv'
<1> SUFFICES ASSUME TransferInv, [Next]_vars
             PROVE  TransferInv'
  OBVIOUS
<1> USE TransferAssumption DEF TransferInv, TransferTypeOK
<1> USE DEF senderVars, netVars, receiverVars, roundVars
<1>1. ASSUME NEW c \in Contents, Edit(c)
      PROVE  TransferInv'
  <2>1. source' \in Contents /\ edits' \in 0 .. MaxEdits
    BY <1>1 DEF Edit
  <2>2. UNCHANGED <<senderVars, netVars, receiverVars, roundVars>>
    BY <1>1 DEF Edit
  <2>3. TransferTypeOK'
    BY <2>1, <2>2
  <2> QED BY <2>2, <2>3
          DEF CompleteIsFaithful, Behind, Remains, IsFirst, Wanted
<1>2. CASE BeginRound
  <2>1. size' \in Nat /\ size' = Len(source)
    BY <1>2 DEF BeginRound
  <2>2. Resized(copy, size') \in Seq(Byte) /\ Len(Resized(copy, size')) = size'
    BY <2>1, ResizedType
  <2>3. /\ copy' = IF written THEN copy ELSE Resized(copy, size')
        /\ stale' = written /\ older' = copy
    BY <1>2 DEF BeginRound, StoreMetadata
  <2>4. copy' \in Seq(Byte) /\ older' \in Seq(Byte)
    BY <2>2, <2>3
  <2>5. Behind(copy)' = Remains'
    <3>1. CASE written
      BY <2>3, <3>1 DEF Behind, Remains
    <3>2. CASE ~written
      BY <2>1, <2>2, <2>3, <3>2 DEF Behind, Remains
    <3> QED BY <3>1, <3>2
  <2>6. /\ written' = TRUE /\ stale' \in BOOLEAN /\ receiver' = "receiving"
        /\ rounds' \in 0 .. MaxRounds /\ more' = TRUE /\ offset' = 0 /\ dataSize' = 0
        /\ fail' = FALSE /\ taken' = <<>> /\ lost' = FALSE
        /\ wire' = <<>> /\ dispatched' = <<>>
        /\ UNCHANGED <<source, edits, signal>>
    BY <1>2 DEF BeginRound, StoreMetadata, AtRest
  <2>7. TransferTypeOK'
    <3>1. /\ dispatched' \in Seq(Package) /\ wire' \in Seq(Package)
          /\ taken' \in Seq(Byte) /\ offset' \in Nat /\ dataSize' \in 0 .. offset'
      BY <2>6
    <3>2. more' \in BOOLEAN /\ fail' \in BOOLEAN /\ lost' \in BOOLEAN
      BY <2>6
    <3> QED BY <2>1, <2>4, <2>6, <3>1, <3>2
  <2>8. Len(taken') <= Wanted'
    BY <2>1, <2>6 DEF Wanted, P
  <2> QED BY <2>5, <2>6, <2>7, <2>8 DEF CompleteIsFaithful
<1>3. CASE OtherRound
  <2>1. copy' \in Seq(Byte)
    <3>1. Len(source) \in Nat
      OBVIOUS
    <3>2. Resized(copy, Len(source)) \in Seq(Byte)
      BY <3>1, ResizedType
    <3> QED BY <1>3, <3>2 DEF OtherRound
  <2>2. /\ written' \in BOOLEAN /\ stale' = FALSE /\ receiver' = "ready"
        /\ rounds' \in 0 .. MaxRounds /\ more' = FALSE /\ offset' = 0 /\ dataSize' = 0
        /\ size' = 0 /\ fail' = FALSE /\ taken' = <<>> /\ older' = copy'
        /\ wire' = <<>> /\ dispatched' = <<>>
        /\ UNCHANGED <<source, edits, signal, lost>>
    <3>1. written' \in BOOLEAN
      BY <1>3 DEF OtherRound
    <3>2. rounds' \in 0 .. MaxRounds
      BY <1>3 DEF OtherRound, AtRest
    <3> QED BY <1>3, <3>1, <3>2 DEF OtherRound, AtRest
  <2>3. TransferTypeOK'
    <3>1. /\ dispatched' \in Seq(Package) /\ wire' \in Seq(Package)
          /\ taken' \in Seq(Byte) /\ offset' \in Nat /\ dataSize' \in 0 .. offset'
          /\ size' \in Nat /\ older' \in Seq(Byte)
      BY <2>1, <2>2
    <3>2. more' \in BOOLEAN /\ fail' \in BOOLEAN /\ stale' \in BOOLEAN
      BY <2>2
    <3> QED BY <2>1, <2>2, <3>1, <3>2
  <2>4. Len(taken') <= Wanted'
    BY <2>2 DEF Wanted, P
  <2> QED BY <2>2, <2>3, <2>4 DEF CompleteIsFaithful
<1>4. CASE SendPackage
  <2> DEFINE package == [status |-> offset = 0, offset |-> offset,
                         dataSize |-> dataSize', more |-> more', data |-> Got]
  <2>1. Got \in Seq(Byte) /\ Len(Got) <= Wanted /\ Wanted \in Nat /\ Wanted <= P
    BY GotType
  <2>2. /\ offset' \in Nat /\ offset' > 0 /\ offset' = offset + P
        /\ dataSize' \in 0 .. offset' /\ more' \in BOOLEAN /\ fail' \in BOOLEAN
        /\ taken' \in Seq(Byte) /\ Len(taken') <= Wanted
    <3>1. offset' = offset + P /\ dataSize' = dataSize + Len(Got)
      BY <1>4 DEF SendPackage, NextOffset
    <3>2. P \in Nat /\ P > 0 /\ Len(Got) \in Nat /\ Len(Got) <= P
      BY <2>1 DEF P
    <3>3. offset' \in Nat /\ offset' > 0 /\ dataSize' \in 0 .. offset'
      BY <3>1, <3>2
    <3>4. more' \in BOOLEAN /\ fail' \in BOOLEAN
      BY <1>4 DEF SendPackage, More
    <3>5. taken' = Got \/ taken' = taken
      BY <1>4 DEF SendPackage
    <3> QED BY <2>1, <3>1, <3>3, <3>4, <3>5
  <2>3. package \in Package
    BY <2>1, <2>2 DEF Package
  <2>4. dispatched' = Append(dispatched, package)
    BY <1>4 DEF SendPackage
  <2>5. IsFirst(package, offset', taken')
    <3> SUFFICES ASSUME offset = 0
                 PROVE  IsFirst(package, offset', taken')
      BY DEF IsFirst
    <3>1. taken' = Got
      BY <1>4 DEF SendPackage
    <3>2. dataSize' = Len(Got)
      BY <1>4, <2>1 DEF SendPackage
    <3>3. offset + Len(Got) = Len(Got)
      BY <2>1
    <3>4. more' <=> Len(Got) < size
      BY <1>4, <3>3 DEF SendPackage, More
    <3> QED BY <2>2, <3>1, <3>2, <3>4 DEF IsFirst
  <2>6. offset > 0 => taken' = taken
    BY <1>4 DEF SendPackage
  <2>7. ASSUME NEW i \in 1 .. Len(dispatched)
        PROVE  IsFirst(dispatched[i], offset', taken')
    <3>1. IsFirst(dispatched[i], offset, taken)
      OBVIOUS
    <3> QED BY <2>2, <2>6, <3>1 DEF IsFirst
  <2>8. ASSUME NEW i \in 1 .. Len(wire)
        PROVE  IsFirst(wire[i], offset', taken')
    <3>1. IsFirst(wire[i], offset, taken)
      OBVIOUS
    <3> QED BY <2>2, <2>6, <3>1 DEF IsFirst
  <2> HIDE DEF package
  <2>9. \A i \in 1 .. Len(dispatched') : IsFirst(dispatched'[i], offset', taken')
    BY <2>3, <2>4, <2>5, <2>7
  <2>10. CompleteIsFaithful'
    BY <1>4 DEF SendPackage, CompleteIsFaithful, Remains
  <2>11. TransferTypeOK'
    <3>1. dispatched' \in Seq(Package)
      BY <2>3, <2>4
    <3>2. UNCHANGED <<source, edits, signal, wire, lost, receiverVars, roundVars>>
      BY <1>4 DEF SendPackage
    <3> QED BY <2>2, <3>1, <3>2
  <2>12. /\ offset' = 0 => dataSize' = 0 /\ ~fail' /\ receiver' # "complete"
         /\ receiver' = "ready" => ~more'
         /\ receiver' = "receiving" => Behind(copy)' = Remains'
         /\ Len(taken') <= Wanted'
    <3>1. receiver' = "ready" => ~more'
      BY <1>4 DEF SendPackage
    <3>2. Behind(copy)' = Behind(copy) /\ Remains' = Remains /\ receiver' = receiver
      BY <1>4 DEF SendPackage, Behind, Remains
    <3>3. Wanted' = Wanted
      BY <1>4 DEF SendPackage, Wanted
    <3> QED BY <2>2, <3>1, <3>2, <3>3
  <2>13. size' = size
    BY <1>4 DEF SendPackage
  <2>14. wire' = wire
    BY <1>4 DEF SendPackage
  <2> QED BY <2>8, <2>9, <2>10, <2>11, <2>12, <2>13, <2>14 DEF IsFirst
<1>5. CASE PublishHeartbeat
  BY <1>5
     DEF PublishHeartbeat, CompleteIsFaithful, Behind, Remains, IsFirst, Wanted
<1>6. CASE PublishPackage
  <2>1. Head(dispatched) \in Package /\ IsFirst(Head(dispatched), offset, taken)
    BY <1>6, QueueTaken DEF PublishPackage
  <2>2. /\ dispatched' \in Seq(Package)
        /\ \A i \in 1 .. Len(dispatched') : IsFirst(dispatched'[i], offset, taken)
    BY <1>6, QueueTaken DEF PublishPackage
  <2>3. wire' = Append(wire, Head(dispatched)) \/ wire' = wire
    BY <1>6 DEF PublishPackage
  <2>4. /\ wire' \in Seq(Package)
        /\ \A i \in 1 .. Len(wire') : IsFirst(wire'[i], offset, taken)
    <3>1. CASE wire' = wire
      BY <3>1
    <3>2. CASE wire' = Append(wire, Head(dispatched))
      <4>1. wire' \in Seq(Package) /\ Len(wire') = Len(wire) + 1
        BY <2>1, <3>2
      <4>2. \A i \in 1 .. Len(wire) : wire'[i] = wire[i]
        BY <2>1, <3>2
      <4>3. wire'[Len(wire) + 1] = Head(dispatched)
        BY <2>1, <3>2
      <4>4. ASSUME NEW i \in 1 .. Len(wire')
            PROVE  IsFirst(wire'[i], offset, taken)
        <5>1. i \in 1 .. Len(wire) \/ i = Len(wire) + 1
          BY <4>1
        <5> QED BY <2>1, <4>2, <4>3, <5>1
      <4> QED BY <4>1, <4>4
    <3> QED BY <2>3, <3>1, <3>2
  <2>5. signal' \in {"heartbeat", "200"}
    BY <1>6 DEF PublishPackage
  <2> QED BY <1>6, <2>2, <2>4, <2>5
          DEF PublishPackage, CompleteIsFaithful, Behind, Remains, IsFirst, Wanted
<1>7. CASE PublishBoth
  <2>1. /\ dispatched' \in Seq(Package)
        /\ \A i \in 1 .. Len(dispatched') : IsFirst(dispatched'[i], offset, taken)
    BY <1>7, QueueTaken DEF PublishBoth
  <2> QED BY <1>7, <2>1
          DEF PublishBoth, CompleteIsFaithful, Behind, Remains, IsFirst, Wanted
<1>8. CASE ReceivePackage
  <2> DEFINE package == Head(wire)
  <2>1. /\ package \in Package
        /\ offset > 0 /\ package.offset = 0 /\ package.data = taken
        /\ package.dataSize = Len(taken)
        /\ package.more <=> Len(taken) < size
    <3>1. wire # <<>> /\ package.status
      BY <1>8 DEF ReceivePackage
    <3>2. package \in Package /\ IsFirst(package, offset, taken)
      BY <3>1, QueueTaken
    <3> QED BY <3>1, <3>2 DEF IsFirst
  <2>2. /\ wire' \in Seq(Package)
        /\ \A i \in 1 .. Len(wire') : IsFirst(wire'[i], offset, taken)
    BY <1>8, QueueTaken DEF ReceivePackage
  <2>3. copy' = Stored(copy, taken, Len(taken), 0)
    BY <1>8, <2>1 DEF ReceivePackage
  <2>4. /\ copy' \in Seq(Byte) /\ SubSeq(copy', size + 1, Len(copy')) = Remains
        /\ Len(taken) = size => copy' = taken \o Remains
    <3>1. receiver = "receiving"
      BY <1>8 DEF ReceivePackage
    <3> QED BY <2>3, <3>1, StoredType DEF Behind
  <2>5. /\ receiver' \in {"receiving", "complete"}
        /\ receiver' = "complete" => ~(Len(taken) < size)
    BY <1>8, <2>1 DEF ReceivePackage
  <2>6. Len(taken) <= size
    BY DEF Wanted, P
  <2>7. UNCHANGED <<source, edits, senderVars, dispatched, signal, lost, written,
                    roundVars>>
    BY <1>8 DEF ReceivePackage
  <2>8. Remains' = Remains
    BY <2>7 DEF Remains
  <2>9. CompleteIsFaithful'
    BY <2>4, <2>5, <2>6, <2>7, <2>8 DEF CompleteIsFaithful
  <2> HIDE DEF package
  <2>10. Behind(copy)' = Remains'
    BY <2>4, <2>7, <2>8 DEF Behind
  <2> QED BY <2>1, <2>2, <2>4, <2>5, <2>7, <2>9, <2>10 DEF IsFirst, Wanted
<1>9. CASE ReceiveMisaligned
  <2>1. /\ wire' \in Seq(Package)
        /\ \A i \in 1 .. Len(wire') : IsFirst(wire'[i], offset, taken)
    BY <1>9, QueueTaken DEF ReceiveMisaligned
  <2> QED BY <1>9, <2>1
          DEF ReceiveMisaligned, CompleteIsFaithful, Behind, Remains, IsFirst, Wanted
<1>10. CASE UNCHANGED vars
  BY <1>10
     DEF vars, CompleteIsFaithful, Behind, Remains, IsFirst, Wanted
<1> QED BY <1>1, <1>2, <1>3, <1>4, <1>5, <1>6, <1>7, <1>8,
           <1>9, <1>10 DEF Next

\* A receiver that answers "all received" has what the sender's dispatcher
\* read, for any file, package size, changes meanwhile and rounds before; and
\* behind it what it had there, where the metadata was skipped
\* (boxoffice.cpp:521-525 and 789-828, file.cpp:286-352).
THEOREM TransferFaithful == Spec => []CompleteIsFaithful
<1>1. TransferInv => CompleteIsFaithful
  BY DEF TransferInv
<1> QED BY <1>1, TransferInvInit, TransferInvStep, PTL DEF Spec

\* For any contents and package size, the queues hold packages, the copies bytes,
\* and the dispatcher never counts more data than its offset has passed
\* (dispatcher.cpp:127-200).
THEOREM TransferTypeCorrect == Spec => []TransferTypeOK
<1>1. TransferInv => TransferTypeOK
  BY DEF TransferInv
<1> QED BY <1>1, TransferInvInit, TransferInvStep, PTL DEF Spec

-----------------------------------------------------------------------------
(* The refinement.                                                         *)

LEMMA AtomicInit == Init => Atomic!Init
BY DEF Init, Atomic!Init

LEMMA AtomicStep ==
  ASSUME TransferInv, TransferInv', [Next]_vars
  PROVE  [Atomic!Next]_(Atomic!atomicVars)
<1> USE DEF senderVars, netVars, receiverVars, roundVars
<1>0. /\ source \in Seq(Byte) /\ taken \in Seq(Byte)
      /\ size \in Nat /\ offset \in Nat
      /\ offset = 0 => ~fail /\ receiver # "complete"
      /\ receiver = "ready" => ~more
      /\ P \in Nat \ {0}
  BY TransferAssumption DEF TransferInv, TransferTypeOK, P
<1>1. ASSUME NEW c \in Contents, Edit(c)
      PROVE  Atomic!Write
  BY <1>1 DEF Edit, Atomic!Write
<1>2. CASE BeginRound
  <2>1. receiver \in {"ready", "complete"}
    BY <1>2 DEF BeginRound, AtRest
  <2>2. /\ size' = Len(source) /\ stale' = written /\ written' = TRUE
        /\ receiver' = "receiving" /\ older' = copy /\ offset' = 0
        /\ source' = source
    BY <1>2 DEF BeginRound, StoreMetadata
  <2>3. Atomic!Begin
    BY <2>1, <2>2 DEF Atomic!Begin
  <2> QED BY <2>3 DEF Atomic!Next
<1>3. CASE OtherRound
  <2>1. receiver \in {"ready", "complete"}
    BY <1>3 DEF OtherRound, AtRest
  <2>2. /\ \/ written' = TRUE /\ copy' = copy
           \/ /\ written' = FALSE
              /\ copy' \in {copy, Atomic!Cut(copy, Len(source))} \cup Contents
        /\ receiver' = "ready" /\ stale' = FALSE /\ size' = 0 /\ offset' = 0
        /\ source' = source
    BY <1>3 DEF OtherRound, Resized, Atomic!Cut
  <2>3. Atomic!Other
    BY <2>1, <2>2 DEF Atomic!Other
  <2> QED BY <2>3 DEF Atomic!Next
<1>4. CASE SendPackage /\ offset = 0
  <2> DEFINE k == IF Wanted <= Len(source) THEN Wanted ELSE Len(source)
  <2>1. Wanted \in Nat /\ Wanted <= size
    BY GotType DEF TransferInv
  <2>2. k \in 0 .. size /\ k <= Len(source)
    BY <1>0, <2>1
  <2>3. taken' = SubSeq(source, 1, k)
    <3>1. 0 + Wanted = Wanted /\ 0 + 1 = 1
      BY <2>1
    <3> QED BY <1>0, <1>4, <3>1 DEF SendPackage, Got
  <2>4. offset' # 0
    BY <1>0, <1>4 DEF SendPackage, NextOffset
  <2> HIDE DEF k
  <2>5. UNCHANGED <<source, size, receiver, copy, written, stale, older>>
    BY <1>4 DEF SendPackage
  <2>6. receiver \notin {"ready", "complete"}
    BY <1>0, <1>4 DEF SendPackage
  <2>7. Atomic!Read
    BY <1>4, <2>2, <2>3, <2>4, <2>5, <2>6 DEF Atomic!Read
  <2> QED BY <2>7 DEF Atomic!Next
<1>5. CASE SendPackage /\ offset # 0
  <2>1. offset' # 0
    BY <1>0, <1>5 DEF SendPackage, NextOffset
  <2> QED BY <1>0, <1>5, <2>1 DEF SendPackage, Atomic!atomicVars
<1>6. CASE PublishHeartbeat
  BY <1>6 DEF PublishHeartbeat, Atomic!atomicVars
<1>7. CASE PublishPackage
  BY <1>7 DEF PublishPackage, Atomic!atomicVars
<1>8. CASE PublishBoth
  BY <1>8 DEF PublishBoth, Atomic!atomicVars
<1>9. CASE ReceivePackage
  <2>1. /\ receiver = "receiving"
        /\ UNCHANGED <<source, size, offset, taken, written, stale, older>>
    BY <1>9 DEF ReceivePackage
  <2>2. CASE receiver' = "complete"
    <3>1. copy' = taken \o Remains /\ Len(taken) = size /\ offset # 0
      BY <2>1, <2>2 DEF TransferInv, CompleteIsFaithful, Remains
    <3>2. taken # Nothing
      BY <1>0, TransferAssumption
    <3>3. Atomic!Arrive
      BY <2>1, <2>2, <3>1, <3>2 DEF Atomic!Arrive, Remains
    <3> QED BY <3>3 DEF Atomic!Next
  <2>3. CASE receiver' # "complete"
    <3>1. receiver' = "receiving"
      BY <1>9, <2>3 DEF ReceivePackage
    <3> QED BY <2>1, <3>1 DEF Atomic!atomicVars
  <2> QED BY <2>2, <2>3
<1>10. CASE ReceiveMisaligned
  BY <1>10 DEF ReceiveMisaligned, Atomic!atomicVars
<1>11. CASE UNCHANGED vars
  BY <1>11 DEF vars, Atomic!atomicVars
<1> QED BY <1>1, <1>2, <1>3, <1>4, <1>5, <1>6, <1>7, <1>8, <1>9, <1>10, <1>11
        DEF Next, Atomic!Next

\* Round after round, a transfer is one read and one write, whatever happens
\* meanwhile: what Flock takes it for (dispatcher.cpp:129-180,
\* boxoffice.cpp:506-589 and 789-828).
THEOREM TransferIsAtomic == Spec => IsAtomic
<1> QED BY AtomicInit, AtomicStep, TransferInvInit, TransferInvStep, PTL
        DEF Spec, IsAtomic, Atomic!Spec
=============================================================================
