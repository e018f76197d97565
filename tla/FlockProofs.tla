---------------------------- MODULE FlockProofs -----------------------------
(***************************************************************************)
(* Proofs about Flock, for any set of nodes, paths and bounds and whatever *)
(* timing is granted.                                                      *)
(*                                                                         *)
(* TypeOK alone is not inductive: a 130 is parsed as a File, and that it   *)
(* carries one was decided when its sender queued it.  FrontDefined needs  *)
(* the types of the queues.  So the inductive invariant is the conjunction *)
(* of the three.                                                           *)
(***************************************************************************)
EXTENDS Flock, SequenceTheorems, TLAPS

IInv == TypeOK /\ PayloadsPresent /\ FrontDefined

\* A queue stays a queue.
LEMMA AppendTyped ==
  ASSUME NEW S, NEW q \in Seq(S), NEW e \in S
  PROVE  Append(q, e) \in Seq(S)
  BY AppendProperties

-----------------------------------------------------------------------------
(* The state machine.                                                      *)

\* What a row that changes the state leads to: a status, a state; heartbeats
\* with a File only on the way into a state that announces metadata; and the
\* announcing states only from a local change.
Shape(row) ==
  /\ row[4] \in Nat
  /\ row[5] \in State
  /\ row[4] \in {130, 134, 170, 174} => row[5] \in SendingMetadataStates
  /\ row[4] # 200
  /\ row[5] \in {"announcing_new_file", "announcing_new_file_with_more"}
       => row[3] \in {300, 304}
  /\ row[5] \in {"announcing_file_metadata_change",
                 "announcing_file_metadata_change_with_more"}
       => \/ row[3] \in {320, 324}
          \/ row[1] = "announcing_file_metadata_change"

\* Every row of the table has that shape.
LEMMA MovesShape == \A row \in Moves : Shape(row)
<1> USE DEF Shape, State, SendingMetadataStates
<1>1. \A row \in MovesAnnouncing : Shape(row)
  BY DEF MovesAnnouncing, AnnouncingStates, AcknowledgingStates, NewFile,
         NewMetadata
<1>2. \A row \in MovesSending : Shape(row)
  BY DEF MovesSending, SendingFileStates
<1>3. \A row \in MovesAcknowledging : Shape(row)
  BY DEF MovesAcknowledging, AcknowledgingStates, ReceivingMetadataStates,
         FakeFileStates
<1>4. \A row \in MovesReceiving : Shape(row)
  BY DEF MovesReceiving, ReceivingMetadataStates, BroadcastingStates
<1>5. \A row \in MovesBroadcasting : Shape(row)
  BY DEF MovesBroadcasting, ReceivingMetadataStates, FakeFileStates
<1>6. \A row \in MovesLeaving : Shape(row)
  BY DEF MovesLeaving
<1>7. QED
  BY <1>1, <1>2, <1>3, <1>4, <1>5, <1>6 DEF Moves

-----------------------------------------------------------------------------
(* The end of processEvent.                                                *)

\* What FsmContinue sets.
Continued ==
  /\ state \in [Node -> State]
  /\ hbq \in [Node -> Seq(WellFormed)]
  /\ dispq \in [Node -> Seq(WellFormedOrder)]
  /\ fileListData \in [Node -> Seq(File)]
  /\ fileListMetadata \in [Node -> Seq(File)]
  /\ stopSync \in [Node -> BOOLEAN]
  /\ currentFile \in [Node -> File \cup {NoFile}]

\* What FsmContinue and UpdateHeartbeat set keeps its type, and a heartbeat
\* that has to carry a File does.
LEMMA ContinueTyped ==
  ASSUME IInv, NEW n \in Node, NEW status,
         NEW data \in Seq(File), NEW meta \in Seq(File), NEW stop \in BOOLEAN,
         NEW orders \in Seq(WellFormedOrder),
         FsmContinue(n, status, data, meta, stop, orders)
  PROVE  Continued'
<1> DEFINE moves == MovesFor(state[n], get_event_by_status_code(status), status)
<1>0. Continued
  BY DEF Continued, IInv, TypeOK, BoxofficeTypeOK, PayloadsPresent
<1>1. CASE /\ UNCHANGED <<state, hbq, currentFile>>
           /\ fileListData' = [fileListData EXCEPT ![n] = data]
           /\ fileListMetadata' = [fileListMetadata EXCEPT ![n] = meta]
           /\ stopSync' = [stopSync EXCEPT ![n] = stop]
           /\ dispq' = [dispq EXCEPT ![n] = orders]
  BY <1>0, <1>1 DEF Continued
<1>2. ASSUME NEW row \in moves, state' = [state EXCEPT ![n] = row[5]],
             UpdateHeartbeat(n, row[4], row[5], data, meta, stop, orders)
      PROVE  Continued'
  <2>1. Shape(row)
    BY MovesShape DEF MovesFor
  <2>2. state' \in [Node -> State]
    BY <1>0, <1>2, <2>1 DEF Shape, Continued
  <2>3. ASSUME NEW m \in WellFormed
        PROVE  Append(hbq[n], m) \in Seq(WellFormed)
    BY <1>0, AppendProperties DEF Continued
  <2>4. CASE row[5] \in {"sending_new_file_metadata",
                         "sending_new_file_metadata_with_more"}
    <3>1. /\ data # <<>>
          /\ hbq' = [hbq EXCEPT ![n] =
                       Append(@, Msg(row[4], Head(data), TRUE))]
          /\ currentFile' = [currentFile EXCEPT ![n] = Head(data)]
          /\ fileListData' = [fileListData EXCEPT ![n] = Tail(data)]
          /\ fileListMetadata' = [fileListMetadata EXCEPT ![n] = meta]
          /\ stopSync' = [stopSync EXCEPT ![n] = stop]
          /\ dispq' = [dispq EXCEPT ![n] = orders]
      BY <1>2, <2>4 DEF UpdateHeartbeat, SendingMetadataStates
    <3>2. Head(data) \in File /\ Tail(data) \in Seq(File)
      BY <3>1, HeadTailProperties
    <3>3. Msg(row[4], Head(data), TRUE) \in WellFormed
      BY <2>1, <3>2, WiresAssumption DEF Shape, Msg, Message, WellFormed, Carrying
    <3>4. QED
      BY <1>0, <2>2, <2>3, <3>1, <3>2, <3>3 DEF Continued
  <2>5. CASE row[5] \in {"sending_file_metadata_change",
                         "sending_file_metadata_change_with_more"}
    <3>1. /\ meta # <<>>
          /\ hbq' = [hbq EXCEPT ![n] =
                       Append(@, Msg(row[4], Head(meta), FALSE))]
          /\ currentFile' = [currentFile EXCEPT ![n] = Head(meta)]
          /\ fileListMetadata' = [fileListMetadata EXCEPT ![n] = Tail(meta)]
          /\ fileListData' = [fileListData EXCEPT ![n] = data]
          /\ stopSync' = [stopSync EXCEPT ![n] = stop]
          /\ dispq' = [dispq EXCEPT ![n] = orders]
      BY <1>2, <2>5 DEF UpdateHeartbeat, SendingMetadataStates
    <3>2. Head(meta) \in File /\ Tail(meta) \in Seq(File)
      BY <3>1, HeadTailProperties
    <3>3. Msg(row[4], Head(meta), FALSE) \in WellFormed
      BY <2>1, <3>2, WiresAssumption DEF Shape, Msg, Message, WellFormed, Carrying
    <3>4. QED
      BY <1>0, <2>2, <2>3, <3>1, <3>2, <3>3 DEF Continued
  <2>6. CASE row[5] \notin SendingMetadataStates
    <3> DEFINE stamped == row[5] = "syncing_stop" /\ ~stop
    <3>1. /\ hbq' = [hbq EXCEPT ![n] = Append(@, Msg(row[4], NoFile, stamped))]
          /\ stopSync' = [stopSync EXCEPT ![n] = stop \/ stamped]
          /\ dispq' = [dispq EXCEPT ![n] =
               IF stamped THEN Append(orders, Msg(155, NoFile, TRUE))
                          ELSE orders]
          /\ fileListData' = [fileListData EXCEPT ![n] = data]
          /\ fileListMetadata' = [fileListMetadata EXCEPT ![n] = meta]
          /\ UNCHANGED currentFile
      BY <1>2, <2>6 DEF UpdateHeartbeat, SendingMetadataStates
    <3>2. stamped \in BOOLEAN /\ (stop \/ stamped) \in BOOLEAN
      OBVIOUS
    <3>3. Msg(row[4], NoFile, stamped) \in WellFormed
      BY <2>1, <2>6, <3>2 DEF Shape, Msg, Message, WellFormed, Carrying
    <3>4. Append(orders, Msg(155, NoFile, TRUE)) \in Seq(WellFormedOrder)
      <4>1. Msg(155, NoFile, TRUE) \in WellFormedOrder
        BY DEF Msg, Message, WellFormedOrder, Carrying
      <4>2. QED
        BY <4>1, AppendTyped, Zenon
    <3> HIDE DEF stamped
    <3>5. QED
      BY <1>0, <2>2, <2>3, <3>1, <3>2, <3>3, <3>4 DEF Continued
  <2>7. QED
    BY <2>4, <2>5, <2>6 DEF SendingMetadataStates
<1>3. QED
  BY <1>1, <1>2 DEF FsmContinue

\* If the call has not emptied a queue so far, and a local change is queued
\* when its status is acted on, an announcing node still has what it announces.
LEMMA ContinueFront ==
  ASSUME IInv, NEW n \in Node, NEW status,
         NEW data, NEW meta, NEW stop, NEW orders,
         fileListData[n] # <<>> => data # <<>>,
         fileListMetadata[n] # <<>> => meta # <<>>,
         status \in {300, 304} => data # <<>>,
         status \in {320, 324} => meta # <<>>,
         FsmContinue(n, status, data, meta, stop, orders)
  PROVE  FrontDefined'
<1> DEFINE A == {"announcing_new_file", "announcing_new_file_with_more"}
           B == {"announcing_file_metadata_change",
                 "announcing_file_metadata_change_with_more"}
<1>0. /\ state \in [Node -> State]
      /\ fileListData \in [Node -> Seq(File)]
      /\ fileListMetadata \in [Node -> Seq(File)]
  BY DEF IInv, TypeOK, BoxofficeTypeOK
<1>1. \A m \in Node : /\ state[m] \in A => fileListData[m] # <<>>
                      /\ state[m] \in B => fileListMetadata[m] # <<>>
  BY DEF IInv, FrontDefined
<1>2. CASE /\ UNCHANGED state
           /\ fileListData' = [fileListData EXCEPT ![n] = data]
           /\ fileListMetadata' = [fileListMetadata EXCEPT ![n] = meta]
  BY <1>0, <1>1, <1>2 DEF FrontDefined
<1>3. ASSUME NEW row \in
               MovesFor(state[n], get_event_by_status_code(status), status),
             state' = [state EXCEPT ![n] = row[5]],
             UpdateHeartbeat(n, row[4], row[5], data, meta, stop, orders)
      PROVE  FrontDefined'
  <2>1. Shape(row) /\ row[1] = state[n] /\ row[3] = status
    BY MovesShape DEF MovesFor
  <2>2. row[5] \in A => data # <<>>
    BY <2>1 DEF Shape
  <2>3. row[5] \in B => meta # <<>>
    BY <2>1, <1>1 DEF Shape
  <2>4. /\ \E q : fileListData' = [fileListData EXCEPT ![n] = q]
        /\ \E q : fileListMetadata' = [fileListMetadata EXCEPT ![n] = q]
    BY <1>3 DEF UpdateHeartbeat
  <2>5. row[5] \in A \cup B =>
          /\ fileListData' = [fileListData EXCEPT ![n] = data]
          /\ fileListMetadata' = [fileListMetadata EXCEPT ![n] = meta]
    BY <1>3 DEF UpdateHeartbeat, SendingMetadataStates
  <2>6. ASSUME NEW m \in Node \ {n}
        PROVE  /\ state'[m] = state[m]
               /\ fileListData'[m] = fileListData[m]
               /\ fileListMetadata'[m] = fileListMetadata[m]
    BY <1>0, <1>3, <2>4
  <2>7. /\ state'[n] = row[5]
        /\ row[5] \in A => fileListData'[n] # <<>>
        /\ row[5] \in B => fileListMetadata'[n] # <<>>
    BY <1>0, <1>3, <2>2, <2>3, <2>5
  <2>8. QED
    BY <1>1, <2>6, <2>7 DEF FrontDefined
<1>4. QED
  BY <1>2, <1>3 DEF FsmContinue

-----------------------------------------------------------------------------
(* The router socket.                                                      *)

\* Taking a message from a peer leaves well-formed ones behind, and the one
\* taken is well-formed.
LEMMA TakesTyped ==
  ASSUME IInv, NEW n \in Node, NEW src \in Node, NEW statuses,
         Takes(n, src, statuses)
  PROVE  /\ net' \in [Node -> [Node -> Seq(WellFormed)]]
         /\ Heard(n, src) \in WellFormed
         /\ Heard(n, src).status \in statuses
<1>1. /\ net \in [Node -> [Node -> Seq(WellFormed)]]
      /\ net[src][n] # <<>>
      /\ net' = [net EXCEPT ![src][n] = Tail(@)]
      /\ Head(net[src][n]).status \in statuses
  BY DEF IInv, PayloadsPresent, Takes
<1>2. Head(net[src][n]) \in WellFormed /\ Tail(net[src][n]) \in Seq(WellFormed)
  BY <1>1, HeadTailProperties
<1>3. QED
  BY <1>1, <1>2 DEF Heard

\* Taking a batch of inotify events leaves events behind.
LEMMA TakesLocalTyped ==
  ASSUME IInv, NEW n \in Node, NEW status, TakesLocal(n, status)
  PROVE  /\ inotify' \in [Node -> Seq(FileEvent)]
         /\ LocalEvent(n) \in FileEvent
<1>1. inotify \in [Node -> Seq(FileEvent)] /\ inotify[n] # <<>>
  BY DEF IInv, TypeOK, WiresTypeOK, TakesLocal
<1>2. PICK batch \in 1 .. Len(inotify[n]) :
        inotify' = [inotify EXCEPT ![n] = SubSeq(@, batch + 1, Len(@))]
  BY DEF TakesLocal
<1>3. Len(inotify[n]) \in Nat /\ batch \in Nat
  BY <1>1, LenProperties
<1>4. \A i \in batch + 1 .. Len(inotify[n]) : inotify[n][i] \in FileEvent
  BY <1>1, <1>3, ElementOfSeq
<1>5. SubSeq(inotify[n], batch + 1, Len(inotify[n])) \in Seq(FileEvent)
  BY <1>3, <1>4, SubSeqProperties
<1>6. QED
  BY <1>1, <1>2, <1>5, HeadTailProperties DEF LocalEvent

\* The kernel's queue holds events.
LEMMA NotifyTyped ==
  ASSUME NEW queue \in Seq(FileEvent), NEW event \in FileEvent
  PROVE  Notify(queue, event) \in Seq(FileEvent)
BY AppendProperties DEF Notify

\* Publishing a well-formed message keeps the links so.
LEMMA PublishTyped ==
  ASSUME IInv, NEW n \in Node, NEW m \in WellFormed, Publish(n, m)
  PROVE  net' \in [Node -> [Node -> Seq(WellFormed)]]
<1>1. net \in [Node -> [Node -> Seq(WellFormed)]]
  BY DEF IInv, PayloadsPresent
<1>2. ASSUME NEW s \in Node, NEW d \in Node
      PROVE  Append(net[s][d], m) \in Seq(WellFormed)
  BY <1>1, AppendProperties
<1>3. QED
  BY <1>1, <1>2 DEF Publish

-----------------------------------------------------------------------------
(* Putting the parts of the invariant together.                            *)

\* The sockets, the disk and the inotify queue, with well-formed messages.
WiresWellFormed ==
  /\ proc \in [Node -> {"running", "failed", "aborted"}]
  /\ hbq \in [Node -> Seq(WellFormed)]
  /\ dispq \in [Node -> Seq(WellFormedOrder)]
  /\ posts \in [Node -> Seq({132, 156})]
  /\ net \in [Node -> [Node -> Seq(WellFormed)]]
  /\ disk \in [Node -> [Path -> Copy]]
  /\ inotify \in [Node -> Seq(FileEvent)]

\* Well-formed messages are messages.
LEMMA WellFormedMessages ==
  /\ WellFormed \subseteq Message
  /\ Seq(WellFormed) \subseteq Seq(Message)
  /\ Seq(WellFormedOrder) \subseteq Seq(Message)
<1>1. WellFormed \subseteq Message /\ WellFormedOrder \subseteq Message
  BY DEF WellFormed, WellFormedOrder, Carrying
<1>2. ASSUME NEW S \in SUBSET Message, NEW q \in Seq(S)
      PROVE  q \in Seq(Message)
  <2>1. Len(q) \in Nat /\ q \in [1 .. Len(q) -> Message]
    BY LenProperties
  <2>2. QED
    BY <2>1
<1>3. QED
  BY <1>1, <1>2

\* The invariant says so.
LEMMA Typed ==
  ASSUME IInv
  PROVE  WiresWellFormed /\ BoxofficeTypeOK /\ HeartbeaterTypeOK
           /\ DispatcherTypeOK /\ version \in Version
BY DEF IInv, TypeOK, WiresTypeOK, PayloadsPresent, WiresWellFormed

\* A step of the boxoffice has three things to show.
LEMMA RouterStep ==
  ASSUME IInv, UNCHANGED <<heartbeaterVars, dispatcherVars, version>>,
         BoxofficeTypeOK', WiresWellFormed', FrontDefined'
  PROVE  IInv'
<1>1. WiresTypeOK'
  BY WellFormedMessages DEF WiresWellFormed, WiresTypeOK
<1>2. HeartbeaterTypeOK' /\ DispatcherTypeOK' /\ (version \in Version)'
  BY Typed DEF HeartbeaterTypeOK, DispatcherTypeOK, heartbeaterVars,
               dispatcherVars
<1>3. PayloadsPresent'
  BY DEF IInv, PayloadsPresent, WiresWellFormed, heartbeaterVars, dispatcherVars
<1>4. QED
  BY <1>1, <1>2, <1>3 DEF IInv, TypeOK

\* FsmContinue after a call that touched no queue, for any status but a local
\* change.
LEMMA PlainTyped ==
  ASSUME IInv, NEW n \in Node, NEW status \in Nat \ {300, 304, 320, 324},
         PlainContinue(n, status)
  PROVE  Continued' /\ FrontDefined'
<1>1. /\ fileListData[n] \in Seq(File)
      /\ fileListMetadata[n] \in Seq(File)
      /\ stopSync[n] \in BOOLEAN
      /\ dispq[n] \in Seq(WellFormedOrder)
  BY Typed DEF BoxofficeTypeOK, WiresWellFormed
<1>2. FsmContinue(n, status, fileListData[n], fileListMetadata[n], stopSync[n],
                  dispq[n])
  BY DEF PlainContinue
<1>3. FrontDefined'
  BY <1>2, ContinueFront
<1>4. Continued'
  BY <1>1, <1>2, ContinueTyped
<1>5. QED
  BY <1>3, <1>4

-----------------------------------------------------------------------------
(* One lemma per group of boxoffice actions.                               *)

\* A step that leaves state and queues alone keeps FrontDefined.
LEMMA FrontKept ==
  ASSUME IInv, UNCHANGED <<state, fileListData, fileListMetadata>>
  PROVE  FrontDefined'
BY DEF IInv, FrontDefined

\* A file read from a heartbeat: what it leaves on disk and in the inotify
\* queue.
LEMMA ReadFileTyped ==
  ASSUME IInv, NEW n \in Node, NEW f \in File, ReadFile(n, f),
         NEW first \in {"modify", "attrib"}, NEW second \in {"modify", "attrib"},
         EchoOfReadFile(n, f, first, second)
  PROVE  /\ disk' \in [Node -> [Path -> Copy]]
         /\ inotify' \in [Node -> Seq(FileEvent)]
<1>1. /\ disk \in [Node -> [Path -> Copy]]
      /\ inotify \in [Node -> Seq(FileEvent)]
      /\ 0 \in Version /\ f.version \in Version /\ f.path \in Path
  BY Typed, WiresAssumption DEF WiresWellFormed, File, Version
<1>2. /\ [exists |-> FALSE, meta |-> 0, data |-> 0] \in Copy
      /\ [exists |-> TRUE, meta |-> f.version, data |-> disk[n][f.path].data]
           \in Copy
      /\ [exists |-> TRUE, meta |-> disk[n][f.path].meta,
          data |-> disk[n][f.path].data] \in Copy
  BY <1>1 DEF Copy
<1>3. disk' \in [Node -> [Path -> Copy]]
  BY <1>1, <1>2 DEF ReadFile
<1>4. \A kind \in {"modify", "attrib", "delete", "moved"} :
        FileEventOf(kind, f.path) \in FileEvent
  BY <1>1 DEF FileEventOf, FileEvent
<1> DEFINE created == IF disk[n][f.path].exists THEN inotify[n]
                      ELSE Notify(inotify[n], FileEventOf("attrib", f.path))
<1>5. created \in Seq(FileEvent)
  BY <1>1, <1>4, NotifyTyped
<1>6. Notify(inotify[n], FileEventOf("delete", f.path)) \in Seq(FileEvent)
  BY <1>1, <1>4, NotifyTyped
<1>7. Notify(Notify(created, FileEventOf(first, f.path)),
             FileEventOf(second, f.path)) \in Seq(FileEvent)
  BY <1>4, <1>5, NotifyTyped
<1>8. inotify' \in [Node -> Seq(FileEvent)]
  <2>1. \E q \in Seq(FileEvent) : inotify' = [inotify EXCEPT ![n] = q]
    BY <1>1, <1>5, <1>6, <1>7 DEF EchoOfReadFile
  <2>2. QED
    BY <1>1, <2>1
<1>9. QED
  BY <1>3, <1>8

\* Every message of a peer keeps the invariant.
LEMMA PeerStepKeeps ==
  ASSUME IInv, NEW n \in Node, NEW src \in Peers(n), PeerStep(n, src)
  PROVE  IInv'
<1> DEFINE m == Heard(n, src)
<1> USE DEF Peers
<1>1. HearFrom(n, src) /\ UNCHANGED <<heartbeaterVars, dispatcherVars, version>>
  BY DEF PeerStep
<1> SUFFICES BoxofficeTypeOK' /\ WiresWellFormed' /\ FrontDefined'
  BY <1>1, RouterStep
<1>2. WiresWellFormed /\ BoxofficeTypeOK
  BY Typed
<1>3. \A s \in HeartbeatStatus : s \in Nat \ {300, 304, 320, 324}
  BY DEF HeartbeatStatus
<1>4. CASE IgnoreMessage(n, src)
  <2>1. net' \in [Node -> [Node -> Seq(WellFormed)]]
    BY <1>4, TakesTyped DEF IgnoreMessage
  <2>2. FrontDefined'
    BY <1>4, FrontKept DEF IgnoreMessage, boVars
  <2>3. QED
    BY <1>2, <1>4, <2>1, <2>2
    DEF IgnoreMessage, boVars, BoxofficeTypeOK, WiresWellFormed
<1>5. CASE HearPlain(n, src)
  <2>1. net' \in [Node -> [Node -> Seq(WellFormed)]] /\ m.status \in HeartbeatStatus
    BY <1>5, TakesTyped DEF HearPlain, Hears
  <2>2. Continued' /\ FrontDefined'
    <3>1. m.status \in Nat \ {300, 304, 320, 324}
      BY <1>3, <2>1
    <3>2. PlainContinue(n, m.status)
      BY <1>5 DEF HearPlain
    <3>3. QED
      BY <3>1, <3>2, PlainTyped
  <2>3. QED
    BY <1>2, <1>5, <2>1, <2>2
    DEF HearPlain, Continued, BoxofficeTypeOK, WiresWellFormed
<1>6. CASE Hear100(n, src)
  <2>1. net' \in [Node -> [Node -> Seq(WellFormed)]]
    BY <1>6, TakesTyped DEF Hear100, Hears
  <2>2. FrontDefined'
    BY <1>6, FrontKept DEF Hear100
  <2>3. QED
    BY <1>2, <1>6, <2>1, <2>2 DEF Hear100, BoxofficeTypeOK, WiresWellFormed
<1>7. CASE HearReply(n, src)
  <2>1. /\ net' \in [Node -> [Node -> Seq(WellFormed)]]
        /\ m.status \in {121, 161, 165, 140, 141}
    BY <1>7, TakesTyped DEF HearReply, Hears, ReplyStatus
  <2>2. Continued' /\ FrontDefined'
    BY <1>7, <2>1, PlainTyped DEF HearReply
  <2>3. replied' \in [Node -> SUBSET Node]
    BY <1>2, <1>7 DEF HearReply, BoxofficeTypeOK
  <2>4. QED
    BY <1>2, <1>7, <2>1, <2>2, <2>3
    DEF HearReply, Continued, BoxofficeTypeOK, WiresWellFormed
<1>8. CASE HearLastReply(n, src)
  <2> DEFINE status == StatusOnceAllReplied(n, m.status)
  <2>1. /\ net' \in [Node -> [Node -> Seq(WellFormed)]]
        /\ m.status \in {121, 161, 165, 140, 141}
    BY <1>8, TakesTyped DEF HearLastReply, Hears, ReplyStatus
  <2>2. status \in {122, 162, 166, 142, 174, 178, 177, 172}
    BY <2>1 DEF StatusOnceAllReplied
  <2>3. /\ replied' = [replied EXCEPT ![n] = {}]
        /\ fileMetadataWritten' = [fileMetadataWritten EXCEPT ![n] =
                                     @ /\ status # 122]
        /\ UNCHANGED <<notifiedDispatch, posts, disk, inotify>>
    BY <1>8 DEF HearLastReply, ForgetReplies
  <2> HIDE DEF status
  <2>4. /\ replied' \in [Node -> SUBSET Node]
        /\ fileMetadataWritten' \in [Node -> BOOLEAN]
        /\ notifiedDispatch' \in [Node -> BOOLEAN]
        /\ posts' \in [Node -> Seq({132, 156})]
        /\ disk' \in [Node -> [Path -> Copy]]
        /\ inotify' \in [Node -> Seq(FileEvent)]
    BY <1>2, <2>3 DEF BoxofficeTypeOK, WiresWellFormed
  <2>5. CASE /\ status \in {122, 177} => fileListData[n] # <<>>
             /\ FsmContinue(n, status, fileListData[n], fileListMetadata[n],
                            stopSync[n], SendOrders(n, status))
             /\ UNCHANGED proc
    <3>1. /\ fileListData[n] \in Seq(File)
          /\ fileListMetadata[n] \in Seq(File)
          /\ stopSync[n] \in BOOLEAN
          /\ dispq[n] \in Seq(WellFormedOrder)
      BY <1>2 DEF BoxofficeTypeOK, WiresWellFormed
    <3>2. ASSUME status \in {122, 177}
          PROVE  Msg(status, Head(fileListData[n]), TRUE) \in WellFormedOrder
      <4>1. Head(fileListData[n]) \in File
        BY <2>5, <3>1, <3>2, HeadTailProperties
      <4>2. QED
        BY <3>2, <4>1, WiresAssumption
        DEF Msg, Message, WellFormedOrder, Carrying
    <3>3. SendOrders(n, status) \in Seq(WellFormedOrder)
      BY <3>1, <3>2, AppendProperties DEF SendOrders
    <3>4. Continued'
      BY <2>5, <3>1, <3>3, ContinueTyped
    <3>5. FrontDefined'
      BY <2>2, <2>5, ContinueFront
    <3>6. QED
      BY <1>2, <2>1, <2>4, <2>5, <3>4, <3>5
      DEF Continued, BoxofficeTypeOK, WiresWellFormed
  <2>6. CASE /\ proc' = [proc EXCEPT ![n] = "failed"]
             /\ UNCHANGED <<state, fileListData, fileListMetadata, stopSync,
                            currentFile, hbq, dispq>>
    <3>1. FrontDefined'
      BY <2>6, FrontKept
    <3>2. QED
      BY <1>2, <2>1, <2>4, <2>6, <3>1 DEF BoxofficeTypeOK, WiresWellFormed
  <2>7. QED
    BY <1>8, <2>5, <2>6 DEF HearLastReply, status
<1>9. CASE HearAnnouncement(n, src)
  <2>1. net' \in [Node -> [Node -> Seq(WellFormed)]] /\ m.status \in {120, 124}
    BY <1>9, TakesTyped DEF HearAnnouncement, Hears
  <2>2. Continued' /\ FrontDefined'
    BY <1>9, <2>1, PlainTyped DEF HearAnnouncement
  <2>3. QED
    BY <1>2, <1>9, <2>1, <2>2
    DEF HearAnnouncement, Continued, BoxofficeTypeOK, WiresWellFormed
<1>10. CASE Hear160(n, src)
  <2>1. net' \in [Node -> [Node -> Seq(WellFormed)]]
    BY <1>10, TakesTyped DEF Hear160, Hears
  <2>2. Continued' /\ FrontDefined'
    BY <1>10, PlainTyped DEF Hear160
  <2>3. QED
    BY <1>2, <1>10, <2>1, <2>2
    DEF Hear160, Continued, BoxofficeTypeOK, WiresWellFormed
<1>11. ASSUME NEW f, f = m.file, m.status \in {130, 170, 174, 200},
              m \in WellFormed
       PROVE  f \in File
  BY <1>11 DEF WellFormed, Carrying, Message
<1>12. CASE Hear130(n, src)
  <2>1. /\ net' \in [Node -> [Node -> Seq(WellFormed)]]
        /\ m \in WellFormed /\ m.status = 130
    BY <1>12, TakesTyped DEF Hear130, Promote, Hears
  <2>2. m.file \in File
    BY <1>11, <2>1
  <2>3. /\ disk' \in [Node -> [Path -> Copy]]
        /\ inotify' \in [Node -> Seq(FileEvent)]
    BY <1>12, <2>2, ReadFileTyped DEF Hear130, Promote
  <2>4. Append(dispq[n], Msg(130, NoFile, TRUE)) \in Seq(WellFormedOrder)
    <3>1. Msg(130, NoFile, TRUE) \in WellFormedOrder
      BY DEF Msg, Message, WellFormedOrder, Carrying
    <3>2. dispq[n] \in Seq(WellFormedOrder)
      BY <1>2 DEF WiresWellFormed
    <3>3. QED
      BY <3>1, <3>2, AppendTyped, Zenon
  <2>5. FrontDefined'
    BY <1>12, FrontKept DEF Hear130, Promote
  <2>6. QED
    BY <1>2, <1>12, <2>1, <2>2, <2>3, <2>4, <2>5
    DEF Hear130, Promote, BoxofficeTypeOK, WiresWellFormed
<1>13. CASE Hear170(n, src)
  <2>1. /\ net' \in [Node -> [Node -> Seq(WellFormed)]]
        /\ m \in WellFormed /\ m.status = 170
    BY <1>13, TakesTyped DEF Hear170, Hears
  <2>2. m.file \in File
    BY <1>11, <2>1
  <2>3. /\ disk' \in [Node -> [Path -> Copy]]
        /\ inotify' \in [Node -> Seq(FileEvent)]
    BY <1>13, <2>2, ReadFileTyped DEF Hear170
  <2>4. Continued' /\ FrontDefined'
    BY <1>13, PlainTyped DEF Hear170
  <2>5. QED
    BY <1>2, <1>13, <2>1, <2>3, <2>4
    DEF Hear170, Continued, BoxofficeTypeOK, WiresWellFormed
<1>14. CASE Hear174(n, src)
  <2>1. /\ net' \in [Node -> [Node -> Seq(WellFormed)]]
        /\ m \in WellFormed /\ m.status = 174
    BY <1>14, TakesTyped DEF Hear174, Hears
  <2>2. m.file \in File
    BY <1>11, <2>1
  <2>3. /\ disk' \in [Node -> [Path -> Copy]]
        /\ inotify' \in [Node -> Seq(FileEvent)]
    BY <1>14, <2>2, ReadFileTyped DEF Hear174
  <2>4. Append(hbq[n], Msg(141, NoFile, FALSE)) \in Seq(WellFormed)
    <3>1. Msg(141, NoFile, FALSE) \in WellFormed
      BY DEF Msg, Message, WellFormed, Carrying
    <3>2. hbq[n] \in Seq(WellFormed)
      BY <1>2 DEF WiresWellFormed
    <3>3. QED
      BY <3>1, <3>2, AppendTyped, Zenon
  <2>5. state' = [state EXCEPT ![n] = "broadcasting_all_metadata_received"]
          /\ UNCHANGED <<fileListData, fileListMetadata>>
    BY <1>14 DEF Hear174
  <2>6. FrontDefined'
    BY <1>2, <2>5 DEF IInv, FrontDefined, BoxofficeTypeOK
  <2>7. state' \in [Node -> State]
    BY <1>2, <2>5 DEF BoxofficeTypeOK, State, BroadcastingStates
  <2>8. /\ fileMetadataWritten' \in [Node -> BOOLEAN]
        /\ notifiedDispatch' \in [Node -> BOOLEAN]
        /\ currentFile' \in [Node -> File \cup {NoFile}]
    BY <1>2, <1>14, <2>2 DEF Hear174, BoxofficeTypeOK, File
  <2>9. BoxofficeTypeOK'
    BY <1>2, <1>14, <2>7, <2>8 DEF Hear174, BoxofficeTypeOK
  <2>10. WiresWellFormed'
    BY <1>2, <1>14, <2>1, <2>3, <2>4 DEF Hear174, WiresWellFormed
  <2>11. QED
    BY <2>6, <2>9, <2>10
<1>15. CASE Hear150InReady(n, src)
  <2>1. net' \in [Node -> [Node -> Seq(WellFormed)]]
    BY <1>15, TakesTyped DEF Hear150InReady, Hears
  <2>2. Append(hbq[n], Msg(100, NoFile, FALSE)) \in Seq(WellFormed)
    <3>1. Msg(100, NoFile, FALSE) \in WellFormed
      BY DEF Msg, Message, WellFormed, Carrying
    <3>2. hbq[n] \in Seq(WellFormed)
      BY <1>2 DEF WiresWellFormed
    <3>3. QED
      BY <3>1, <3>2, AppendTyped, Zenon
  <2>3. hbq' \in [Node -> Seq(WellFormed)]
    BY <1>2, <1>15, <2>2 DEF Hear150InReady, WiresWellFormed
  <2>4. FrontDefined'
    BY <1>15, FrontKept DEF Hear150InReady, boVars
  <2>5. QED
    BY <1>2, <1>15, <2>1, <2>3, <2>4
    DEF Hear150InReady, boVars, BoxofficeTypeOK, WiresWellFormed
<1>16. CASE Hear155(n, src)
  <2>1. net' \in [Node -> [Node -> Seq(WellFormed)]] /\ m \in WellFormed
    BY <1>16, TakesTyped DEF Hear155, Hears
  <2>2. Append(dispq[n], Msg(155, NoFile, m.stamp)) \in Seq(WellFormedOrder)
    <3>1. Msg(155, NoFile, m.stamp) \in WellFormedOrder
      BY <2>1 DEF Msg, Message, WellFormed, WellFormedOrder, Carrying
    <3>2. QED
      BY <1>2, <3>1, AppendProperties DEF WiresWellFormed
  <2>3. FsmContinue(n, 155, fileListData[n], fileListMetadata[n], TRUE,
                    Append(dispq[n], Msg(155, NoFile, m.stamp)))
    BY <1>16 DEF Hear155, StopOrder
  <2>4. Continued'
    <3>1. fileListData[n] \in Seq(File) /\ fileListMetadata[n] \in Seq(File)
      BY <1>2 DEF BoxofficeTypeOK
    <3>2. QED
      BY <2>2, <2>3, <3>1, ContinueTyped
  <2>5. FrontDefined'
    <3> DEFINE orders == Append(dispq[n], Msg(155, NoFile, m.stamp))
               status == 155
    <3>1. FsmContinue(n, status, fileListData[n], fileListMetadata[n], TRUE,
                      orders)
      BY <2>3, Zenon
    <3>2. status \notin {300, 304} /\ status \notin {320, 324}
      OBVIOUS
    <3> HIDE DEF orders, status
    <3>3. QED
      BY <3>1, <3>2, ContinueFront
  <2>6. QED
    BY <1>2, <1>16, <2>1, <2>4, <2>5
    DEF Hear155, Continued, BoxofficeTypeOK, WiresWellFormed
<1>17. CASE HearData(n, src)
  <2>0. PICK first \in {"modify", "attrib"}, second \in {"modify", "attrib"} :
          StoreData(n, src, first, second)
    BY <1>17 DEF HearData
  <2> DEFINE p == currentFile[n].path
             q == IF disk[n][p].exists THEN inotify[n]
                  ELSE Notify(inotify[n], FileEventOf("attrib", p))
  <2>1. /\ net' \in [Node -> [Node -> Seq(WellFormed)]]
        /\ m \in WellFormed /\ m.status = 200
    BY <2>0, TakesTyped DEF StoreData, Hears
  <2>2. m.file.version \in Version /\ p \in Path
    <3>1. m.file \in File
      BY <1>11, <2>1
    <3>2. currentFile[n] \in File
      BY <1>2, <2>0 DEF StoreData, BoxofficeTypeOK
    <3>3. QED
      BY <3>1, <3>2 DEF File
  <2>3. disk' \in [Node -> [Path -> Copy]]
    <3> DEFINE copy == [disk[n][p] EXCEPT !.exists = TRUE,
                                          !.data = m.file.version]
    <3>1. disk \in [Node -> [Path -> Copy]]
      BY <1>2 DEF WiresWellFormed
    <3>2. copy \in Copy
      <4>1. disk[n][p] \in Copy
        BY <2>2, <3>1
      <4> HIDE DEF p
      <4>2. QED
        BY <2>2, <4>1 DEF Copy
    <3>3. disk' = [disk EXCEPT ![n][p] = copy]
      BY <2>0 DEF StoreData
    <3> HIDE DEF copy
    <3>4. QED
      BY <2>2, <3>1, <3>2, <3>3
  <2>4. \A kind \in {"modify", "attrib"} : FileEventOf(kind, p) \in FileEvent
    BY <2>2 DEF FileEventOf, FileEvent
  <2>5. inotify[n] \in Seq(FileEvent)
    BY <1>2 DEF WiresWellFormed
  <2>6. q \in Seq(FileEvent)
    BY <2>4, <2>5, NotifyTyped
  <2>7. Notify(Notify(q, FileEventOf(first, p)), FileEventOf(second, p))
          \in Seq(FileEvent)
    BY <2>4, <2>6, NotifyTyped
  <2>8. inotify' \in [Node -> Seq(FileEvent)]
    BY <1>2, <2>0, <2>7 DEF StoreData, WiresWellFormed
  <2>9. Continued' /\ FrontDefined'
    BY <2>0, PlainTyped DEF StoreData
  <2>10. QED
    BY <1>2, <2>0, <2>1, <2>3, <2>8, <2>9
    DEF StoreData, Continued, BoxofficeTypeOK, WiresWellFormed
<1>18. QED
  BY <1>1, <1>4, <1>5, <1>6, <1>7, <1>8, <1>9, <1>10, <1>12, <1>13, <1>14,
     <1>15, <1>16, <1>17 DEF HearFrom

\* So does a 132 or 156 of the dispatcher.
LEMMA PostStepKeeps ==
  ASSUME IInv, NEW n \in Node, PostStep(n)
  PROVE  IInv'
<1>1. /\ HearDispatcher(n)
      /\ UNCHANGED <<heartbeaterVars, dispatcherVars, version>>
  BY DEF PostStep
<1>2. WiresWellFormed /\ BoxofficeTypeOK
  BY Typed
<1>3. Head(posts[n]) \in {132, 156} /\ Tail(posts[n]) \in Seq({132, 156})
  BY <1>1, <1>2, HeadTailProperties DEF HearDispatcher, WiresWellFormed
<1>4. Continued' /\ FrontDefined'
  <2>1. Head(posts[n]) \in Nat \ {300, 304, 320, 324}
    BY <1>3
  <2>2. PlainContinue(n, Head(posts[n]))
    BY <1>1 DEF HearDispatcher
  <2>3. QED
    BY <2>1, <2>2, PlainTyped
<1>5. BoxofficeTypeOK' /\ WiresWellFormed'
  BY <1>1, <1>2, <1>3, <1>4
  DEF HearDispatcher, Continued, BoxofficeTypeOK, WiresWellFormed
<1>6. QED
  BY <1>1, <1>4, <1>5, RouterStep

\* And a change the box reports.
LEMMA BoxStepKeeps ==
  ASSUME IInv, NEW n \in Node, BoxStep(n)
  PROVE  IInv'
<1> DEFINE e == LocalEvent(n)
<1>0. PICK status \in LocalStatus : HearLocal(n, status)
  BY DEF BoxStep
<1>1. UNCHANGED <<heartbeaterVars, dispatcherVars, version>>
  BY DEF BoxStep
<1> SUFFICES BoxofficeTypeOK' /\ WiresWellFormed' /\ FrontDefined'
  BY <1>1, RouterStep
<1>2. WiresWellFormed /\ BoxofficeTypeOK
  BY Typed
<1>3. TakesLocal(n, status)
  BY <1>0 DEF HearLocal, IgnoreLocal, LocalPathTooLong, LocalFileMissing,
              LocalReportedTwice, LocalQueued
<1>4. /\ inotify' \in [Node -> Seq(FileEvent)]
      /\ e \in FileEvent
      /\ UNCHANGED <<notifiedDispatch, fileMetadataWritten, posts, net, disk>>
  BY <1>3, TakesLocalTyped DEF TakesLocal
<1>5. CASE /\ \E p \in {"running", "failed", "aborted"} :
                proc' = [proc EXCEPT ![n] = p]
           /\ UNCHANGED <<state, fileListData, fileListMetadata, replied,
                          stopSync, currentFile, hbq, dispq>>
  <2>1. FrontDefined'
    BY <1>5, FrontKept
  <2>2. QED
    BY <1>2, <1>4, <1>5, <2>1 DEF BoxofficeTypeOK, WiresWellFormed
<1>6. CASE IgnoreLocal(n, status)
  <2>1. proc' = [proc EXCEPT ![n] = proc[n]] /\ proc[n] = "running"
    BY <1>2, <1>6 DEF IgnoreLocal, TakesLocal, Running, WiresWellFormed
  <2>2. QED
    BY <1>5, <1>6, <2>1 DEF IgnoreLocal
<1>7. CASE LocalPathTooLong(n, status) \/ LocalFileMissing(n, status)
  BY <1>5, <1>7 DEF LocalPathTooLong, LocalFileMissing
<1>8. CASE LocalReportedTwice(n, status)
  <2>1. Continued' /\ FrontDefined'
    BY <1>8, PlainTyped DEF LocalReportedTwice
  <2>2. replied' \in [Node -> SUBSET Node] /\ UNCHANGED proc
    BY <1>2, <1>8 DEF LocalReportedTwice, ForgetReplies, BoxofficeTypeOK
  <2>3. QED
    BY <1>2, <1>4, <2>1, <2>2 DEF Continued, BoxofficeTypeOK, WiresWellFormed
<1>9. CASE LocalQueued(n, status)
  <2> DEFINE f      == NewLocalFile(n, e)
             data   == IF status = 300 THEN Append(fileListData[n], f)
                                       ELSE fileListData[n]
             meta   == IF status = 320 THEN Append(fileListMetadata[n], f)
                                       ELSE fileListMetadata[n]
  <2>1. f \in File
    <3>1. e.path \in Path /\ e.kind \in {"modify", "attrib", "delete", "moved"}
      BY <1>4 DEF FileEvent
    <3>2. disk[n][e.path] \in Copy
      BY <1>2, <3>1 DEF WiresWellFormed
    <3>3. QED
      BY <3>1, <3>2 DEF NewLocalFile, File, Copy
  <2>2. status \in {300, 320, 0}
    BY DEF LocalStatus, NoStatus
  <2>3. /\ fileListData[n] \in Seq(File) /\ fileListMetadata[n] \in Seq(File)
        /\ stopSync[n] \in BOOLEAN /\ dispq[n] \in Seq(WellFormedOrder)
    BY <1>2 DEF BoxofficeTypeOK, WiresWellFormed
  <2> HIDE DEF f
  <2>4. \A q \in Seq(File) : Append(q, f) \in Seq(File) /\ Append(q, f) # <<>>
    BY <2>1, AppendProperties, AppendIsConcat, EmptySeq
  <2>5. data \in Seq(File) /\ meta \in Seq(File)
    BY <2>3, <2>4
  <2>6. /\ fileListData[n] # <<>> => data # <<>>
        /\ fileListMetadata[n] # <<>> => meta # <<>>
        /\ status \in {300, 304} => data # <<>>
        /\ status \in {320, 324} => meta # <<>>
    BY <2>2, <2>3, <2>4
  <2>7. FsmContinue(n, status, data, meta, stopSync[n], dispq[n])
    BY <1>9 DEF LocalQueued, f
  <2>8. replied' \in [Node -> SUBSET Node] /\ UNCHANGED proc
    BY <1>2, <1>9 DEF LocalQueued, ForgetReplies, BoxofficeTypeOK
  <2> HIDE DEF data, meta
  <2>9. Continued'
    BY <2>3, <2>5, <2>7, ContinueTyped
  <2>10. FrontDefined'
    BY <2>6, <2>7, ContinueFront
  <2>11. QED
    BY <1>2, <1>4, <2>8, <2>9, <2>10
    DEF Continued, BoxofficeTypeOK, WiresWellFormed
<1>10. QED
  BY <1>0, <1>6, <1>7, <1>8, <1>9 DEF HearLocal

-----------------------------------------------------------------------------
(* The other threads, and users.                                           *)

\* Every step of a dispatcher keeps the invariant.
LEMMA DispatcherStepKeeps ==
  ASSUME IInv, NEW n \in Node, DispatcherStep(n)
  PROVE  IInv'
<1>1. UNCHANGED <<boVars, heartbeaterVars, version>>
  BY DEF DispatcherStep
<1>2. /\ BoxofficeTypeOK' /\ HeartbeaterTypeOK' /\ (version \in Version)'
      /\ FrontDefined' /\ beat' \in [Node -> WellFormed]
  BY <1>1, Typed, FrontKept
  DEF boVars, heartbeaterVars, BoxofficeTypeOK, HeartbeaterTypeOK, IInv,
      PayloadsPresent
<1> DEFINE JobKnown == \A m \in Node :
             phase[m] \in {"armed_send", "sending"} => job[m] # NoFile
<1> SUFFICES WiresWellFormed' /\ DispatcherTypeOK' /\ JobKnown'
  BY <1>2, WellFormedMessages
  DEF IInv, TypeOK, WiresTypeOK, WiresWellFormed, PayloadsPresent
<1>3. WiresWellFormed /\ DispatcherTypeOK /\ JobKnown
  BY Typed DEF IInv, PayloadsPresent
<1> USE DEF Phase
<1>4. CASE TakeOrder(n)
  <2>1. Head(dispq[n]) \in WellFormedOrder /\ Tail(dispq[n]) \in Seq(WellFormedOrder)
    BY <1>3, <1>4, HeadTailProperties DEF TakeOrder, WiresWellFormed
  <2>2. WiresWellFormed'
    BY <1>3, <1>4, <2>1 DEF TakeOrder, WiresWellFormed
  <2>3. /\ Head(dispq[n]).file \in File \cup {NoFile}
        /\ Head(dispq[n]).status \in {122, 177} => Head(dispq[n]).file # NoFile
    BY <2>1 DEF WellFormedOrder, Carrying, Message
  <2>4. DispatcherTypeOK' /\ JobKnown'
    <3> DEFINE order == Head(dispq[n])
    <3>1. UNCHANGED waitingForStop
      BY <1>4 DEF TakeOrder
    <3>2. \/ /\ order.status \in {122, 177}
             /\ phase' = [phase EXCEPT ![n] = "armed_send"]
             /\ job' = [job EXCEPT ![n] = order.file]
             /\ timingOffset' = [timingOffset EXCEPT ![n] = "relative"]
          \/ /\ phase' = [phase EXCEPT ![n] = "armed_fake"]
             /\ timingOffset' = [timingOffset EXCEPT ![n] = "relative"]
             /\ UNCHANGED job
          \/ UNCHANGED <<phase, job, timingOffset>>
      BY <1>4 DEF TakeOrder
    <3> HIDE DEF order
    <3>3. DispatcherTypeOK'
      BY <1>3, <2>3, <3>1, <3>2 DEF DispatcherTypeOK, order
    <3>4. JobKnown'
      BY <1>3, <2>3, <3>2 DEF DispatcherTypeOK, order
    <3>5. QED
      BY <3>3, <3>4
  <2>5. QED
    BY <2>2, <2>4
<1>5. CASE OffsetElapsed(n)
  <2>1. Append(posts[n], 132) \in Seq({132, 156})
    BY <1>3, AppendProperties DEF WiresWellFormed
  <2>2. WiresWellFormed'
    BY <1>3, <1>5, <2>1 DEF OffsetElapsed, WiresWellFormed
  <2>3. DispatcherTypeOK' /\ JobKnown'
    BY <1>3, <1>5 DEF OffsetElapsed, DispatcherTypeOK
  <2>4. QED
    BY <2>2, <2>3
<1>6. CASE SendDataAborts(n)
  BY <1>3, <1>6 DEF SendDataAborts, WiresWellFormed, DispatcherTypeOK
<1>7. ASSUME phase[n] = "sending", ReadBack(n)
      PROVE  /\ job[n] \in File
             /\ disk[n][job[n].path].data \in Version
             /\ disk' \in [Node -> [Path -> Copy]]
             /\ inotify' \in [Node -> Seq(FileEvent)]
  <2>1. job[n] \in File
    BY <1>3, <1>7 DEF DispatcherTypeOK
  <2>2. job[n].path \in Path
    BY <2>1 DEF File
  <2>3. disk \in [Node -> [Path -> Copy]] /\ inotify \in [Node -> Seq(FileEvent)]
    BY <1>3 DEF WiresWellFormed
  <2>4. disk[n][job[n].path].data \in Version
    BY <2>2, <2>3 DEF Copy
  <2>5. [exists |-> TRUE, meta |-> 0, data |-> 0] \in Copy
    BY WiresAssumption DEF Copy, Version
  <2>6. disk' \in [Node -> [Path -> Copy]]
    <3>1. \/ disk' = disk
          \/ \E c \in Copy : disk' = [disk EXCEPT ![n][job[n].path] = c]
      BY <1>7, <2>5 DEF ReadBack
    <3>2. \/ disk' = disk
          \/ \E c \in Copy, p \in Path : disk' = [disk EXCEPT ![n][p] = c]
      BY <2>2, <3>1, Zenon
    <3>3. CASE disk' = disk
      BY <2>3, <3>3
    <3>4. ASSUME NEW c \in Copy, NEW p \in Path,
                 disk' = [disk EXCEPT ![n][p] = c]
          PROVE  disk' \in [Node -> [Path -> Copy]]
      BY <2>3, <3>4
    <3>5. QED
      BY <3>2, <3>3, <3>4
  <2>7. Notify(inotify[n], FileEventOf("attrib", job[n].path)) \in Seq(FileEvent)
    <3>1. FileEventOf("attrib", job[n].path) \in FileEvent
      BY <2>2 DEF FileEventOf, FileEvent
    <3>2. QED
      BY <2>3, <3>1, NotifyTyped
  <2>8. inotify' \in [Node -> Seq(FileEvent)]
    BY <1>7, <2>3, <2>7 DEF ReadBack
  <2>9. QED
    BY <2>1, <2>4, <2>6, <2>8
<1>8. CASE SendData(n)
  <2> DEFINE v == disk[n][job[n].path].data
             package == Msg(200, [job[n] EXCEPT !.version = v], FALSE)
  <2>1. phase[n] = "sending" /\ ReadBack(n)
    BY <1>8 DEF SendData
  <2>2. [job[n] EXCEPT !.version = v] \in File
    BY <1>7, <2>1 DEF File
  <2>3. package \in WellFormed
    BY <2>2, WiresAssumption DEF Msg, Message, WellFormed, Carrying
  <2>4. net' \in [Node -> [Node -> Seq(WellFormed)]]
    <3>1. Publish(n, package)
      BY <1>8 DEF SendData
    <3> HIDE DEF package
    <3>2. QED
      BY <2>3, <3>1, PublishTyped
  <2>5. WiresWellFormed'
    BY <1>3, <1>7, <1>8, <2>1, <2>4 DEF SendData, WiresWellFormed
  <2>6. DispatcherTypeOK' /\ JobKnown'
    BY <1>3, <1>8 DEF SendData, DispatcherTypeOK
  <2>7. QED
    BY <2>5, <2>6
<1>9. CASE SendDataSwallowed(n)
  <2>1. phase[n] = "sending" /\ ReadBack(n)
    BY <1>9 DEF SendDataSwallowed
  <2>2. WiresWellFormed'
    BY <1>3, <1>7, <1>9, <2>1 DEF SendDataSwallowed, WiresWellFormed
  <2>3. DispatcherTypeOK' /\ JobKnown'
    BY <1>3, <1>9 DEF SendDataSwallowed, DispatcherTypeOK
  <2>4. QED
    BY <2>2, <2>3
<1>10. CASE StopReceives(n)
  <2>1. Tail(dispq[n]) \in Seq(WellFormedOrder)
    BY <1>3, <1>10, HeadTailProperties DEF StopReceives, WiresWellFormed
  <2>2. WiresWellFormed'
    BY <1>3, <1>10, <2>1 DEF StopReceives, WiresWellFormed
  <2>3. DispatcherTypeOK' /\ JobKnown'
    <3>1. UNCHANGED <<phase, job>>
      BY <1>10 DEF StopReceives
    <3>2. /\ \/ UNCHANGED waitingForStop
             \/ waitingForStop' = [waitingForStop EXCEPT ![n] = TRUE]
          /\ \/ UNCHANGED timingOffset
             \/ \E t \in {"deadline", "blank"} :
                  timingOffset' = [timingOffset EXCEPT ![n] = t]
      BY <1>10 DEF StopReceives
    <3>3. JobKnown'
      BY <1>3, <3>1
    <3>4. waitingForStop' \in [Node -> BOOLEAN]
      BY <1>3, <3>2 DEF DispatcherTypeOK
    <3>5. timingOffset' \in [Node -> {"relative", "deadline", "blank"}]
      BY <1>3, <3>2 DEF DispatcherTypeOK
    <3>6. QED
      BY <1>3, <3>1, <3>3, <3>4, <3>5 DEF DispatcherTypeOK
  <2>4. QED
    BY <2>2, <2>3
<1>11. CASE StopElapsed(n)
  <2>1. Append(posts[n], 156) \in Seq({132, 156})
    BY <1>3, AppendProperties DEF WiresWellFormed
  <2>2. WiresWellFormed'
    BY <1>3, <1>11, <2>1 DEF StopElapsed, WiresWellFormed
  <2>3. DispatcherTypeOK' /\ JobKnown'
    BY <1>3, <1>11 DEF StopElapsed, DispatcherTypeOK
  <2>4. QED
    BY <2>2, <2>3
<1>12. QED
  BY <1>4, <1>5, <1>6, <1>8, <1>9, <1>10, <1>11 DEF DispatcherStep

\* Every heartbeat does.
LEMMA HeartbeaterStepKeeps ==
  ASSUME IInv, NEW n \in Node, HeartbeaterStep(n)
  PROVE  IInv'
<1>1. /\ Beat(n)
      /\ UNCHANGED <<boVars, dispatcherVars, version>>
  BY DEF HeartbeaterStep
<1>2. WiresWellFormed /\ HeartbeaterTypeOK /\ beat \in [Node -> WellFormed]
  BY Typed DEF IInv, PayloadsPresent
<1>3. net' \in [Node -> [Node -> Seq(WellFormed)]]
  BY <1>1, <1>2, PublishTyped DEF Beat
<1>4. hbq' \in [Node -> Seq(WellFormed)] /\ beat' \in [Node -> WellFormed]
  <2>1. hbq[n] # <<>> => /\ Head(hbq[n]) \in WellFormed
                         /\ Tail(hbq[n]) \in Seq(WellFormed)
    BY <1>2, HeadTailProperties DEF WiresWellFormed
  <2>2. CASE hbq[n] = <<>>
    BY <1>1, <1>2, <2>2 DEF Beat, PopUpdate, WiresWellFormed
  <2>3. CASE hbq[n] # <<>>
    <3>1. /\ beat' = [beat EXCEPT ![n] = Head(hbq[n])]
          /\ hbq' = [hbq EXCEPT ![n] = Tail(hbq[n])]
      BY <1>1, <2>3 DEF Beat, PopUpdate
    <3>2. QED
      BY <1>2, <2>1, <2>3, <3>1 DEF WiresWellFormed
  <2>4. QED
    BY <2>2, <2>3
<1>5. beaten' \in SUBSET Node
  BY <1>1, <1>2 DEF Beat, NextPeriod, HeartbeaterTypeOK
<1>6. WiresWellFormed'
  BY <1>1, <1>2, <1>3, <1>4 DEF Beat, WiresWellFormed
<1>7. /\ BoxofficeTypeOK' /\ DispatcherTypeOK' /\ (version \in Version)'
      /\ FrontDefined'
  BY <1>1, Typed, FrontKept
  DEF boVars, dispatcherVars, BoxofficeTypeOK, DispatcherTypeOK
<1>8. HeartbeaterTypeOK' /\ WiresTypeOK'
  BY <1>4, <1>5, <1>6, WellFormedMessages
  DEF HeartbeaterTypeOK, WiresTypeOK, WiresWellFormed
<1>9. PayloadsPresent'
  BY <1>1, <1>4, <1>6 DEF IInv, PayloadsPresent, WiresWellFormed, dispatcherVars
<1>10. QED
  BY <1>7, <1>8, <1>9 DEF IInv, TypeOK

\* Every change of a user does.
LEMMA UserStepKeeps ==
  ASSUME IInv, NEW n \in Node, UserStep(n)
  PROVE  IInv'
<1>1. PICK p \in Path, kind \in Kinds : UserChange(n, p, kind)
  BY DEF UserStep
<1>2. UNCHANGED <<boVars, heartbeaterVars, dispatcherVars>>
  BY DEF UserStep
<1>3. WiresWellFormed /\ version \in Version
  BY Typed
<1>4. version' \in Version /\ version + 1 \in Version /\ 0 \in Version
  BY <1>1, <1>3, WiresAssumption DEF UserChange, Version
<1>5. kind \in {"modify", "attrib", "delete", "moved"}
  BY FlockAssumption
<1>6. disk' \in [Node -> [Path -> Copy]]
  <2>1. disk \in [Node -> [Path -> Copy]]
    BY <1>3 DEF WiresWellFormed
  <2>2. /\ [exists |-> TRUE, meta |-> version + 1, data |-> version + 1] \in Copy
        /\ [exists |-> TRUE, meta |-> version + 1, data |-> disk[n][p].data]
             \in Copy
        /\ [exists |-> FALSE, meta |-> 0, data |-> 0] \in Copy
    BY <1>4, <2>1 DEF Copy
  <2>3. \E c \in Copy : disk' = [disk EXCEPT ![n][p] = c]
    <3>1. CASE kind = "modify" \/ (kind = "moved" /\ ~disk[n][p].exists)
      BY <1>1, <2>1, <2>2, <3>1 DEF UserChange
    <3>2. CASE kind = "attrib"
      BY <1>1, <2>1, <2>2, <3>2 DEF UserChange
    <3>3. CASE kind = "delete" \/ (kind = "moved" /\ disk[n][p].exists)
      BY <1>1, <2>1, <2>2, <3>3 DEF UserChange
    <3>4. QED
      BY <1>5, <3>1, <3>2, <3>3
  <2>4. QED
    BY <2>1, <2>3
<1>7. inotify' \in [Node -> Seq(FileEvent)]
  <2>1. FileEventOf(kind, p) \in FileEvent
    BY <1>5 DEF FileEventOf, FileEvent
  <2>2. Notify(inotify[n], FileEventOf(kind, p)) \in Seq(FileEvent)
    BY <1>3, <2>1, NotifyTyped DEF WiresWellFormed
  <2>3. QED
    BY <1>1, <1>3, <2>2 DEF UserChange, WiresWellFormed
<1>8. WiresWellFormed'
  BY <1>1, <1>3, <1>6, <1>7 DEF UserChange, WiresWellFormed
<1>9. BoxofficeTypeOK' /\ HeartbeaterTypeOK' /\ DispatcherTypeOK' /\ FrontDefined'
  BY <1>2, Typed, FrontKept
  DEF boVars, heartbeaterVars, dispatcherVars, BoxofficeTypeOK,
      HeartbeaterTypeOK, DispatcherTypeOK
<1>10. WiresTypeOK'
  BY <1>8, WellFormedMessages DEF WiresTypeOK, WiresWellFormed
<1>11. PayloadsPresent'
  BY <1>2, <1>8
  DEF IInv, PayloadsPresent, WiresWellFormed, heartbeaterVars, dispatcherVars
<1>12. QED
  BY <1>4, <1>9, <1>10, <1>11 DEF IInv, TypeOK

-----------------------------------------------------------------------------
(* The theorems.                                                           *)

\* The first state.
LEMMA InitEstablishes == Init => IInv
<1> SUFFICES ASSUME Init PROVE IInv
  OBVIOUS
<1>1. 0 \in Version
  BY WiresAssumption DEF Version
<1>2. WiresTypeOK
  BY <1>1, EmptySeq DEF Init, WiresInit, WiresTypeOK, Copy
<1>3. BoxofficeTypeOK
  BY EmptySeq, FlockAssumption DEF Init, BoxofficeInit, BoxofficeTypeOK, State
<1>4. Msg(100, NoFile, FALSE) \in WellFormed
  BY DEF Msg, Message, WellFormed, Carrying
<1>5. HeartbeaterTypeOK /\ beat \in [Node -> WellFormed]
  BY <1>4, WellFormedMessages DEF Init, HeartbeaterInit, HeartbeaterTypeOK
<1>6. DispatcherTypeOK
  BY DEF Init, DispatcherInit, DispatcherTypeOK, Phase
<1>7. PayloadsPresent
  BY <1>5, EmptySeq DEF Init, WiresInit, DispatcherInit, PayloadsPresent
<1>8. FrontDefined
  BY DEF Init, BoxofficeInit, FrontDefined
<1>9. QED
  BY <1>1, <1>2, <1>3, <1>5, <1>6, <1>7, <1>8 DEF IInv, TypeOK, Init

\* Every step, or none.
LEMMA NextKeeps == IInv /\ [Next]_vars => IInv'
<1> SUFFICES ASSUME IInv, [Next]_vars PROVE IInv'
  OBVIOUS
<1>1. CASE Next
  <2>1. \A n \in Writers : n \in Node
    BY FlockAssumption
  <2>2. QED
    BY <1>1, <2>1, PeerStepKeeps, PostStepKeeps, BoxStepKeeps,
       DispatcherStepKeeps, HeartbeaterStepKeeps, UserStepKeeps DEF Next
<1>2. CASE UNCHANGED vars
  BY <1>2 DEF vars, wireVars, boVars, heartbeaterVars, dispatcherVars, IInv,
              TypeOK, WiresTypeOK, BoxofficeTypeOK, HeartbeaterTypeOK,
              DispatcherTypeOK, PayloadsPresent, FrontDefined
<1>3. QED
  BY <1>1, <1>2

\* The conjunction is an invariant of every behaviour.
LEMMA Invariance == Spec => []IInv
BY InitEstablishes, NextKeeps, PTL DEF Spec

\* Every variable of every thread keeps its type, in every flock.
THEOREM TypeCorrect == Spec => []TypeOK
<1>1. IInv => TypeOK
  BY DEF IInv
<1>2. QED
  BY <1>1, Invariance, PTL

\* No handler parses a File out of a payload that has none, in every flock.
THEOREM PayloadsCorrect == Spec => []PayloadsPresent
<1>1. IInv => PayloadsPresent
  BY DEF IInv
<1>2. QED
  BY <1>1, Invariance, PTL

\* No announcing boxoffice calls front() on an empty queue, in every flock.
THEOREM FrontCorrect == Spec => []FrontDefined
<1>1. IInv => FrontDefined
  BY DEF IInv
<1>2. QED
  BY <1>1, Invariance, PTL
=============================================================================
