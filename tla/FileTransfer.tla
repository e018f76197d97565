---------------------------- MODULE FileTransfer ----------------------------
(***************************************************************************)
(* The data part of the rounds about one file, byte by byte: the dispatcher*)
(* of the sender cuts the file into packages, its publisher forwards them, *)
(* and the boxoffice of a receiver writes them into its copy.  Flock has   *)
(* the round around it and takes a transfer for one step; this module says *)
(* when that is right.  Users keep writing to the file while it is sent.   *)
(*                                                                         *)
(* Rounds follow each other, and the receiver's file_metadata_written_     *)
(* survives from one to the next: a data round that finds it set does not  *)
(* resize the copy.  Rounds of which nothing but that flag and the copy    *)
(* matters here, about other files, of metadata or the receiver's own, are *)
(* single steps.  The file exists at the receiver, which would end in      *)
(* File::storeMetadata otherwise.                                          *)
(*                                                                         *)
(* size is size_ of the File object, taken from disk when the change was   *)
(* reported and serialised into the order and the heartbeats: sender and   *)
(* receiver work with the same number, whatever the file is by now.        *)
(***************************************************************************)
EXTENDS Integers, Sequences

CONSTANTS
  F_MAXIMUM_FILE_PACKAGE_SIZE,   \* include/constants.hpp:70
  Byte,                          \* the bytes,
  Zero,                          \* the one a file is extended with,
  Contents,                      \* and the contents users give the file
  Nothing,                       \* no content
  PollsApart,                    \* TRUE: no heartbeat waits beside a package
  MaxEdits,                      \* bound: rewrites of the file
  MaxRounds                      \* bound: rounds

ASSUME TransferAssumption ==
  /\ F_MAXIMUM_FILE_PACKAGE_SIZE \in Nat \ {0}
  /\ Zero \in Byte
  /\ Contents \subseteq Seq(Byte)
  /\ Nothing \notin Seq(Byte)
  /\ PollsApart \in BOOLEAN
  /\ MaxEdits \in Nat
  /\ MaxRounds \in Nat

VARIABLES
  source,     \* the file on the sender's disk
  size,       \* size_ of the File of this round
  more,       \* the dispatcher's *more: its loop goes on
  offset,     \* the dispatcher's offset
  dataSize,   \* the dispatcher's data_size
  fail,       \* the failbit of the fstream the file is read through
  dispatched, \* packages on their way to the publisher
  signal,     \* msg_signal in the publisher: of the last readable message
  wire,       \* messages from the publisher to the receiver's boxoffice
  copy,       \* the file on the receiver's disk
  written,    \* file_metadata_written_ of the receiver
  receiver,   \* "ready", "receiving", "complete" (113) or "aborted"
  stale,      \* history: written was set when this round began,
  older,      \*          and the copy was this
  taken,      \* history: the bytes of the first package
  lost,       \* history: a package disappeared behind a heartbeat
  rounds,     \* the number of rounds
  edits       \* the number of rewrites

senderVars == <<more, offset, dataSize, fail, taken>>
netVars == <<dispatched, signal, wire, lost>>
receiverVars == <<copy, written, receiver>>
roundVars == <<size, stale, older, rounds>>

vars == <<source, edits, senderVars, netVars, receiverVars, roundVars>>

P == F_MAXIMUM_FILE_PACKAGE_SIZE

\* A package; the status in front of the first one only (dispatcher.cpp:134).
Package == [status : BOOLEAN, offset : Nat, dataSize : Nat, more : BOOLEAN,
            data : Seq(Byte)]

TransferTypeOK ==
  /\ source \in Contents
  /\ size \in Nat
  /\ more \in BOOLEAN
  /\ offset \in Nat
  /\ dataSize \in 0 .. offset
  /\ fail \in BOOLEAN
  /\ dispatched \in Seq(Package)
  /\ signal \in {"heartbeat", "200"}
  /\ wire \in Seq(Package)
  /\ copy \in Seq(Byte)
  /\ receiver \in {"ready", "receiving", "complete", "aborted"}
  /\ written \in BOOLEAN
  /\ stale \in BOOLEAN
  /\ older \in Seq(Byte)
  /\ taken \in Seq(Byte)
  /\ lost \in BOOLEAN
  /\ rounds \in 0 .. MaxRounds
  /\ edits \in 0 .. MaxEdits

\* Faulty: a file that is too long is not cut.
ResizedUp(c, length) ==
  [i \in 1 .. (IF length > Len(c) THEN length ELSE Len(c)) |->
     IF i <= Len(c) THEN c[i] ELSE Zero]

\* File::resize
Resized(c, length) ==
  [i \in 1 .. length |-> IF i <= Len(c) THEN c[i] ELSE Zero]

\* The nodes have started, with files of any content.
Init ==
  /\ source \in Contents
  /\ size = 0
  /\ more = FALSE
  /\ offset = 0
  /\ dataSize = 0
  /\ fail = FALSE
  /\ dispatched = <<>>
  /\ signal = "heartbeat"
  /\ wire = <<>>
  /\ copy \in Contents
  /\ written = FALSE
  /\ receiver = "ready"
  /\ stale = FALSE
  /\ older = copy
  /\ taken = <<>>
  /\ lost = FALSE
  /\ rounds = 0
  /\ edits = 0

-----------------------------------------------------------------------------
\* Someone rewrites the file; deleted, it is created again, empty.
Edit(c) ==
  /\ edits < MaxEdits
  /\ more \/ rounds < MaxRounds
  /\ source' = c
  /\ edits' = edits + 1
  /\ UNCHANGED <<senderVars, netVars, receiverVars, roundVars>>

\* The flock has no round under way: the receiver is back in the ready state,
\* or will be by the end of the round it completed.
AtRest ==
  /\ receiver \in {"ready", "complete"}
  /\ ~more
  /\ dispatched = <<>>
  /\ wire = <<>>
  /\ rounds < MaxRounds

\* 130 at the receiver.
StoreMetadata ==
  /\ copy' = IF written THEN copy ELSE Resized(copy, size')
  /\ written' = TRUE

\* A data round begins: the file is announced, the receiver has its metadata, and
\* both dispatchers the order.
BeginRound ==
  /\ AtRest
  /\ size' = Len(source)
  /\ StoreMetadata
  /\ receiver' = "receiving"
  /\ stale' = written
  /\ older' = copy
  /\ rounds' = rounds + 1
  /\ more' = TRUE
  /\ offset' = 0
  /\ dataSize' = 0
  /\ fail' = FALSE
  /\ taken' = <<>>
  /\ lost' = FALSE
  /\ UNCHANGED <<source, edits, dispatched, signal, wire>>

\* A round of another kind, seen from its end at the receiver: a data round about
\* another file; a metadata round, which may resize the copy; or one of its own,
\* after its user changed this file or another.
OtherRound ==
  /\ AtRest
  /\ \/ written' = TRUE /\ copy' = copy
     \/ written' = FALSE /\ copy' \in {copy, Resized(copy, Len(source))}
     \/ written' = FALSE /\ copy' \in Contents
  /\ receiver' = "ready"
  /\ stale' = FALSE
  /\ older' = copy'
  /\ size' = 0
  /\ rounds' = rounds + 1
  /\ offset' = 0
  /\ dataSize' = 0
  /\ fail' = FALSE
  /\ taken' = <<>>
  /\ UNCHANGED <<source, edits, more, netVars>>

-----------------------------------------------------------------------------
\* Faulty: the size of a package is not looked at.
WantedAll == size

\* What File::readFileData asks for.
Wanted == IF size <= P THEN size ELSE P

\* What it gets: a stream that once ended returns nothing more.
Got ==
  IF fail THEN <<>>
  ELSE SubSeq(source, offset + 1,
              IF offset + Wanted <= Len(source) THEN offset + Wanted
                                                ELSE Len(source))

\* Faulty: a file read to its end is taken for unfinished.
MoreAtEnd == offset + Len(Got) <= size

\* Faulty: a package that is not full is taken for the last.
MoreIfFull == Len(Got) = P

More == offset + Len(Got) < size

\* Faulty: the offset advances by what was read.
NextOffsetRead == offset + Len(Got)

NextOffset == offset + P

\* One turn of the dispatcher's loop.  data_size is the sum of all packages.
SendPackage ==
  /\ more
  /\ more' = More
  /\ fail' = (Len(Got) < Wanted)
  /\ dataSize' = dataSize + Len(Got)
  /\ offset' = NextOffset
  /\ taken' = IF offset = 0 THEN Got ELSE taken
  /\ dispatched' = Append(dispatched,
       [status |-> offset = 0, offset |-> offset, dataSize |-> dataSize',
        more |-> more', data |-> Got])
  /\ UNCHANGED <<source, edits, signal, wire, lost, receiverVars, roundVars>>

-----------------------------------------------------------------------------
\* The publisher passes a heartbeat on.  (What receivers do with it is the
\* business of Flock.)
PublishHeartbeat ==
  /\ dispatched = <<>>
  /\ signal' = "heartbeat"
  /\ UNCHANGED <<source, edits, senderVars, dispatched, wire, lost, receiverVars,
                 roundVars>>

\* The publisher reads a status from the package, cuts five bytes off and puts
\* the status in front.  Where there is none, msg_signal keeps its last value:
\* behind a heartbeat's status the rest is a heartbeat with trailing bytes,
\* which receivers do not look at.
PublishPackage ==
  LET package == Head(dispatched)
      status == IF package.status THEN "200" ELSE signal IN
  /\ dispatched # <<>>
  /\ dispatched' = Tail(dispatched)
  /\ signal' = status
  /\ wire' = IF status = "200" THEN Append(wire, package) ELSE wire
  /\ UNCHANGED <<source, edits, senderVars, lost, receiverVars, roundVars>>

\* s_recv concatenates what waits on four sockets: a heartbeat in the same
\* poll comes first, and the package is its trailing bytes.
PublishBoth ==
  /\ ~PollsApart
  /\ dispatched # <<>>
  /\ dispatched' = Tail(dispatched)
  /\ signal' = "heartbeat"
  /\ lost' = TRUE
  /\ UNCHANGED <<source, edits, senderVars, wire, receiverVars, roundVars>>

-----------------------------------------------------------------------------
\* File::storeFileData; writing past the end leaves a hole.
Stored(c, data, length, at) ==
  LET n == IF size <= P /\ size <= length THEN size
           ELSE IF length < P THEN length ELSE P
      end == IF at + n > Len(c) THEN at + n ELSE Len(c)
  IN IF n = 0 THEN c
     ELSE [i \in 1 .. end |->
             IF i \in at + 1 .. at + n THEN data[i - at]
             ELSE IF i <= Len(c) THEN c[i] ELSE Zero]

\* A package as it was meant: it is stored, and the last one answered by 113.
ReceivePackage ==
  LET package == Head(wire) IN
  /\ receiver = "receiving"
  /\ wire # <<>>
  /\ package.status
  /\ wire' = Tail(wire)
  /\ copy' = Stored(copy, package.data, package.dataSize, package.offset)
  /\ receiver' = IF package.more THEN "receiving" ELSE "complete"
  /\ UNCHANGED <<source, edits, senderVars, dispatched, signal, lost, written,
                 roundVars>>

\* A package without a status has lost five bytes of its offset instead: what
\* is read as data_size are three bytes of the real one, the more byte and four
\* of data.  An allocation of 2^40 bytes or more fails and ends the process.
\* Only if nothing was ever read is it small; then the File, read from an
\* exhausted current_file_, is whatever was in memory, which checkArguments
\* refuses (the process ends) or which is some other file.
ReceiveMisaligned ==
  LET package == Head(wire) IN
  /\ receiver = "receiving"
  /\ wire # <<>>
  /\ ~package.status
  /\ wire' = Tail(wire)
  /\ \/ receiver' = "aborted"
     \/ package.dataSize = 0 /\ receiver' = "receiving"
  /\ UNCHANGED <<source, edits, senderVars, dispatched, signal, lost, copy,
                 written, roundVars>>

Next ==
  \/ \E c \in Contents : Edit(c)
  \/ BeginRound
  \/ OtherRound
  \/ SendPackage
  \/ PublishHeartbeat
  \/ PublishPackage
  \/ PublishBoth
  \/ ReceivePackage
  \/ ReceiveMisaligned

Spec == Init /\ [][Next]_vars

\* Dispatcher, publisher and boxoffice are threads that go on.
Fairness ==
  /\ WF_vars(SendPackage)
  /\ WF_vars(PublishPackage \/ PublishBoth)
  /\ WF_vars(ReceivePackage \/ ReceiveMisaligned)

FairSpec == Spec /\ Fairness

-----------------------------------------------------------------------------
\* What a round that did not resize the copy leaves of it.
Remains == IF stale THEN SubSeq(older, size + 1, Len(older)) ELSE <<>>

\* A receiver that answers 113, all received, holds just the bytes the
\* dispatcher read, all of the size announced, and of its older content at most
\* what was longer than that, and only if no round since the last data round had
\* reset file_metadata_written_ (boxoffice.cpp:521-525, 800-827, file.cpp:286-352).
CompleteIsFaithful ==
  receiver = "complete" => Len(taken) = size /\ copy = taken \o Remains

\* Users, dispatcher, publisher and boxoffice together do, round after round, what
\* one read at the sender and one write at the receiver would: no content is mixed
\* from two reads, and what a receiver reported complete is not touched again
\* until the next round (boxoffice.cpp:506-589, 789-828, dispatcher.cpp:129-180).
Atomic == INSTANCE AtomicTransfer WITH
  reading <- IF offset = 0 THEN Nothing ELSE taken,
  stored <- written,
  open <- receiver \notin {"ready", "complete"},
  held <- IF receiver \in {"ready", "complete"} THEN copy ELSE older

IsAtomic == Atomic!Spec

\* The dispatcher's loop ends, though the file may shrink under it and its
\* stream fail (dispatcher.cpp:139).
LoopEnds == more ~> ~more

\* The file takes more than one package, was cut short before it was read, or
\* its package disappeared.
Hindered == size > P \/ (offset > 0 /\ Len(taken) < size) \/ lost

\* Whatever else happens meanwhile, a receiver completes every round
\* (dispatcher.cpp:139-180, boxoffice.cpp:789-828).
ArrivesUnlessHindered ==
  receiver = "receiving" ~> receiver = "complete" \/ Hindered

\* Every file arrives (README.md:10, "Synchronise files and all changes with
\* connected nodes").
Arrives == receiver = "receiving" ~> receiver = "complete"
=============================================================================
