------------------------------ MODULE Boxoffice -----------------------------
(***************************************************************************)
(* The boxoffice thread (src/boxoffice.cpp): one message of its router     *)
(* socket at a time, runRouter and processEvent.  Each action is one whole *)
(* call of processEvent for one kind of message, and names the case it     *)
(* takes; FsmContinue is the common end of the call (performAction,        *)
(* updateHeartbeat and prepareHeartbeatMessage included).                  *)
(***************************************************************************)
EXTENDS Wires

VARIABLES
  state,                 \* state_
  fileListData,          \* file_list_data_
  fileListMetadata,      \* file_list_metadata_
  replied,               \* the subscribers whose replied flag is set
  notifiedDispatch,      \* notified_dispatch_
  fileMetadataWritten,   \* file_metadata_written_
  stopSync,              \* stop_sync_timeout_received_
  currentFile            \* current_file_

boVars == <<state, fileListData, fileListMetadata, replied, notifiedDispatch,
            fileMetadataWritten, stopSync, currentFile>>

BoxofficeTypeOK ==
  /\ state \in [Node -> State]
  /\ fileListData \in [Node -> Seq(File)]
  /\ fileListMetadata \in [Node -> Seq(File)]
  /\ replied \in [Node -> SUBSET Node]
  /\ notifiedDispatch \in [Node -> BOOLEAN]
  /\ fileMetadataWritten \in [Node -> BOOLEAN]
  /\ stopSync \in [Node -> BOOLEAN]
  /\ currentFile \in [Node -> File \cup {NoFile}]

\* replied is not in this list: node_t leaves it uninitialised.
BoxofficeInit ==
  /\ state = [n \in Node |-> "ready"]
  /\ fileListData = [n \in Node |-> <<>>]
  /\ fileListMetadata = [n \in Node |-> <<>>]
  /\ notifiedDispatch = [n \in Node |-> FALSE]
  /\ fileMetadataWritten = [n \in Node |-> FALSE]
  /\ stopSync = [n \in Node |-> FALSE]
  /\ currentFile = [n \in Node |-> NoFile]

-----------------------------------------------------------------------------
(* The end of processEvent.  data, meta, stop and orders are the queues,   *)
(* the stop flag and the dispatcher's socket as the call left them so far. *)

\* prepareHeartbeatMessage and updateHeartbeat.
UpdateHeartbeat(n, status, to, data, meta, stop, orders) ==
  \/ /\ to \in {"sending_new_file_metadata",
                "sending_new_file_metadata_with_more"}
     /\ data # <<>>
     /\ hbq' = [hbq EXCEPT ![n] = Append(@, Msg(status, Head(data), TRUE))]
     /\ currentFile' = [currentFile EXCEPT ![n] = Head(data)]
     /\ fileListData' = [fileListData EXCEPT ![n] = Tail(data)]
     /\ fileListMetadata' = [fileListMetadata EXCEPT ![n] = meta]
     /\ stopSync' = [stopSync EXCEPT ![n] = stop]
     /\ dispq' = [dispq EXCEPT ![n] = orders]
  \/ /\ to \in {"sending_file_metadata_change",
                "sending_file_metadata_change_with_more"}
     /\ meta # <<>>
     /\ hbq' = [hbq EXCEPT ![n] = Append(@, Msg(status, Head(meta), FALSE))]
     /\ currentFile' = [currentFile EXCEPT ![n] = Head(meta)]
     /\ fileListMetadata' = [fileListMetadata EXCEPT ![n] = Tail(meta)]
     /\ fileListData' = [fileListData EXCEPT ![n] = data]
     /\ stopSync' = [stopSync EXCEPT ![n] = stop]
     /\ dispq' = [dispq EXCEPT ![n] = orders]
  \/ /\ to \notin SendingMetadataStates
     /\ LET stamped == to = "syncing_stop" /\ ~stop IN
          /\ hbq' = [hbq EXCEPT ![n] = Append(@, Msg(status, NoFile, stamped))]
          /\ stopSync' = [stopSync EXCEPT ![n] = stop \/ stamped]
          /\ dispq' = [dispq EXCEPT ![n] =
               IF stamped THEN Append(orders, Msg(155, NoFile, TRUE))
                          ELSE orders]
     /\ fileListData' = [fileListData EXCEPT ![n] = data]
     /\ fileListMetadata' = [fileListMetadata EXCEPT ![n] = meta]
     /\ UNCHANGED currentFile

\* "FSM CONTINUE": nothing is done unless the state changes.
FsmContinue(n, status, data, meta, stop, orders) ==
  LET moves == MovesFor(state[n], get_event_by_status_code(status), status) IN
  \/ /\ moves = {}
     /\ fileListData' = [fileListData EXCEPT ![n] = data]
     /\ fileListMetadata' = [fileListMetadata EXCEPT ![n] = meta]
     /\ stopSync' = [stopSync EXCEPT ![n] = stop]
     /\ dispq' = [dispq EXCEPT ![n] = orders]
     /\ UNCHANGED <<state, hbq, currentFile>>
  \/ \E row \in moves :
       /\ get_action(row[2]) = "send_heartbeat"
       /\ state' = [state EXCEPT ![n] = row[5]]
       /\ UpdateHeartbeat(n, row[4], row[5], data, meta, stop, orders)

\* FsmContinue when the call touched none of the four before.
PlainContinue(n, status) ==
  FsmContinue(n, status, fileListData[n], fileListMetadata[n], stopSync[n],
              dispq[n])

Accepts(n, status) ==
  check_event(state[n], get_event_by_status_code(status), status)

-----------------------------------------------------------------------------
(* runRouter: the next message is one some thread of this process pushed.  *)

\* A message of src is next, and its status is one of statuses.
Takes(n, src, statuses) ==
  /\ Running(n)
  /\ net[src][n] # <<>>
  /\ Head(net[src][n]).status \in statuses
  /\ "inotify" \in Timely => inotify[n] = <<>>
  /\ net' = [net EXCEPT ![src][n] = Tail(@)]

\* The same, with a status the current state handles.
Hears(n, src, statuses) ==
  /\ Takes(n, src, statuses)
  /\ Accepts(n, Head(net[src][n]).status)

Heard(n, src) == Head(net[src][n])

\* "unhandled event, ignoring..."
IgnoreMessage(n, src) ==
  /\ Takes(n, src, HeartbeatStatus \cup {200})
  /\ ~Accepts(n, Heard(n, src).status)
  /\ UNCHANGED <<boVars, proc, hbq, dispq, posts, disk, inotify>>

\* Faulty: notified_dispatch_ is not looked at.
ArmsAgain(n) == state[n] = "promoting_new_file_metadata"

\* The condition of case 130.
ArmsDispatcher(n) ==
  state[n] = "promoting_new_file_metadata" /\ ~notifiedDispatch[n]

\* Statuses without a case of their own in the switch, and 130, 155, 170 and
\* 174 where their case's condition is false.
HearPlain(n, src) ==
  LET status == Heard(n, src).status IN
  /\ Hears(n, src, HeartbeatStatus)
  /\ \/ status \in {110, 111, 114, 115, 116, 117, 125, 131, 134, 135, 145,
                    147, 164, 171, 175, 410}
     \/ status = 150 /\ state[n] # "ready"
     \/ status = 155 /\ stopSync[n]
     \/ status = 130 /\ ~ArmsDispatcher(n)
     \/ status = 170 /\ state[n] # "receiving_file_metadata_change"
     \/ /\ status = 174
        /\ state[n] # "receiving_file_metadata_change_with_more"
  /\ PlainContinue(n, status)
  /\ UNCHANGED <<replied, notifiedDispatch, fileMetadataWritten,
                 proc, posts, disk, inotify>>

\* case 100
Hear100(n, src) ==
  /\ Hears(n, src, {100})
  /\ stopSync' = [stopSync EXCEPT ![n] = FALSE]
  /\ UNCHANGED <<state, fileListData, fileListMetadata, replied,
                 notifiedDispatch, fileMetadataWritten, currentFile,
                 proc, hbq, dispq, posts, disk, inotify>>

-----------------------------------------------------------------------------
(* cases 121, 161, 165, 140 and 141: counting replies.                     *)

\* Faulty: the flags of the last count stay set.
KeepReplies(n) == UNCHANGED replied

ForgetReplies(n) == replied' = [replied EXCEPT ![n] = {}]

ReplyStatus == {121, 161, 165, 140, 141}

\* Faulty: "nothing more to send" and "more metadata" swapped.
StatusSwapped(n, status) ==
  CASE status = 121 -> 122
    [] status = 161 -> 162
    [] status = 165 -> 166
    [] status = 140 -> 142
    [] status = 141 -> IF fileListMetadata[n] = <<>> THEN 174 ELSE 172

\* The status the call goes on with once every subscriber has replied.
StatusOnceAllReplied(n, status) ==
  CASE status = 121 -> 122
    [] status = 161 -> 162
    [] status = 165 -> 166
    [] status = 140 -> 142
    [] status = 141 -> IF fileListMetadata[n] # <<>> THEN 174
                       ELSE IF Len(fileListData[n]) > 1 THEN 178
                       ELSE IF Len(fileListData[n]) > 0 THEN 177
                       ELSE 172

\* Faulty: one reply is enough.
AnyReplied(n, src) == src \in Peers(n)

\* Faulty: the node waits for its own reply too.
SelfReplied(n, src) == Node \subseteq replied[n] \cup {src}

AllReplied(n, src) == Peers(n) \subseteq replied[n] \cup {src}

HearReply(n, src) ==
  /\ Hears(n, src, ReplyStatus)
  /\ ~AllReplied(n, src)
  /\ replied' = [replied EXCEPT ![n] = @ \cup {src}]
  /\ PlainContinue(n, Heard(n, src).status)
  /\ UNCHANGED <<notifiedDispatch, fileMetadataWritten,
                 proc, posts, disk, inotify>>

\* Faulty: the order goes out without the file.
OrdersWithoutFile(n, status) ==
  IF status \in {122, 177}
    THEN Append(dispq[n], Msg(status, NoFile, TRUE))
    ELSE dispq[n]

\* With 122 and 177 the dispatcher is told to send the first queued file.
SendOrders(n, status) ==
  IF status \in {122, 177}
    THEN Append(dispq[n], Msg(status, Head(fileListData[n]), TRUE))
    ELSE dispq[n]

HearLastReply(n, src) ==
  LET status == StatusOnceAllReplied(n, Heard(n, src).status) IN
  /\ Hears(n, src, ReplyStatus)
  /\ AllReplied(n, src)
  /\ ForgetReplies(n)
  /\ fileMetadataWritten' = [fileMetadataWritten EXCEPT ![n] =
                               @ /\ status # 122]
  /\ \/ /\ Accepts(n, status)
        /\ status \in {122, 177} => fileListData[n] # <<>>
        /\ FsmContinue(n, status, fileListData[n], fileListMetadata[n],
                       stopSync[n], SendOrders(n, status))
        /\ UNCHANGED proc
     \/ /\ ~Accepts(n, status)     \* return 1: the boxoffice shuts down
        /\ proc' = [proc EXCEPT ![n] = "failed"]
        /\ UNCHANGED <<state, fileListData, fileListMetadata, stopSync,
                       currentFile, hbq, dispq>>
  /\ UNCHANGED <<notifiedDispatch, posts, disk, inotify>>

-----------------------------------------------------------------------------
(* cases 120/124, 130, 160, 170, 174, 150 and 155.                         *)

HearAnnouncement(n, src) ==
  /\ Hears(n, src, {120, 124})
  /\ notifiedDispatch' = [notifiedDispatch EXCEPT ![n] = FALSE]
  /\ PlainContinue(n, Heard(n, src).status)
  /\ UNCHANGED <<replied, fileMetadataWritten, proc, posts, disk, inotify>>

Hear160(n, src) ==
  /\ Hears(n, src, {160})
  /\ fileMetadataWritten' = [fileMetadataWritten EXCEPT ![n] = FALSE]
  /\ PlainContinue(n, 160)
  /\ UNCHANGED <<replied, notifiedDispatch, proc, posts, disk, inotify>>

\* Faulty: metadata is stored only when it already was.
ReadFileInverted(n, f) ==
  LET p == f.path IN
  disk' = [disk EXCEPT ![n][p] =
    IF f.deleted THEN [exists |-> FALSE, meta |-> 0, data |-> 0]
    ELSE [exists |-> TRUE,
          meta   |-> IF fileMetadataWritten[n] THEN f.version ELSE @.meta,
          data   |-> @.data]]

\* A File is read from a heartbeat's payload.  operator>> itself removes a
\* deleted file and creates a missing one; storeMetadata and resize are left
\* out when file_metadata_written_ is set.
ReadFile(n, f) ==
  LET p == f.path IN
  disk' = [disk EXCEPT ![n][p] =
    IF f.deleted THEN [exists |-> FALSE, meta |-> 0, data |-> 0]
    ELSE [exists |-> TRUE,
          meta   |-> IF fileMetadataWritten[n] THEN @.meta ELSE f.version,
          data   |-> @.data]]

\* What inotify sees of that: removal or creation, then truncation ("modify")
\* and chmod with utime ("attrib") in the order of the case.
EchoOfReadFile(n, f, first, second) ==
  LET p == f.path
      created == IF disk[n][p].exists THEN inotify[n]
                 ELSE Notify(inotify[n], FileEventOf("attrib", p))
  IN inotify' = [inotify EXCEPT ![n] =
       IF f.deleted
         THEN IF disk[n][p].exists THEN Notify(@, FileEventOf("delete", p))
                                   ELSE @
       ELSE IF fileMetadataWritten[n] THEN created
       ELSE Notify(Notify(created, FileEventOf(first, p)),
                   FileEventOf(second, p))]

\* The second 130: store the metadata, keep the file to write packages to, arm
\* the dispatcher.
Promote(n, src, kept) ==
  LET f == Heard(n, src).file IN
  /\ Hears(n, src, {130})
  /\ ArmsDispatcher(n)
  /\ ReadFile(n, f)
  /\ EchoOfReadFile(n, f, "attrib", "modify")
  /\ fileMetadataWritten' = [fileMetadataWritten EXCEPT ![n] = TRUE]
  /\ currentFile' = [currentFile EXCEPT ![n] = kept]
  /\ dispq' = [dispq EXCEPT ![n] = Append(@, Msg(130, NoFile, TRUE))]
  /\ notifiedDispatch' = [notifiedDispatch EXCEPT ![n] = TRUE]
  /\ UNCHANGED <<state, fileListData, fileListMetadata, replied, stopSync,
                 proc, hbq, posts>>

\* Faulty: current_file_ is not set.
Hear130Keeping(n, src) == Promote(n, src, currentFile[n])

Hear130(n, src) == Promote(n, src, Heard(n, src).file)

Hear170(n, src) ==
  LET f == Heard(n, src).file IN
  /\ Hears(n, src, {170})
  /\ state[n] = "receiving_file_metadata_change"
  /\ ReadFile(n, f)
  /\ EchoOfReadFile(n, f, "modify", "attrib")
  /\ fileMetadataWritten' = [fileMetadataWritten EXCEPT ![n] = FALSE]
  /\ PlainContinue(n, 173)
  /\ UNCHANGED <<replied, notifiedDispatch, proc, posts>>

\* As 170, but file_metadata_written_ stays set, current_file_ is kept and
\* notified_dispatch_ is reset.
Hear174(n, src) ==
  LET f == Heard(n, src).file IN
  /\ Hears(n, src, {174})
  /\ state[n] = "receiving_file_metadata_change_with_more"
  /\ ReadFile(n, f)
  /\ EchoOfReadFile(n, f, "modify", "attrib")
  /\ fileMetadataWritten' = [fileMetadataWritten EXCEPT ![n] =
                               @ \/ ~f.deleted]
  /\ notifiedDispatch' = [notifiedDispatch EXCEPT ![n] = FALSE]
  /\ state' = [state EXCEPT ![n] = "broadcasting_all_metadata_received"]
  /\ hbq' = [hbq EXCEPT ![n] = Append(@, Msg(141, NoFile, FALSE))]
  /\ currentFile' = [currentFile EXCEPT ![n] = f]
  /\ UNCHANGED <<fileListData, fileListMetadata, replied, stopSync,
                 proc, dispq, posts>>

\* A ready node answers 150 with 100, every time it hears it.  A 100 behind
\* an equal one still waiting is not queued again: the heartbeater would only
\* publish one heartbeat twice, as it does anyway.
Hear150InReady(n, src) ==
  LET update == Msg(100, NoFile, FALSE) IN
  /\ Hears(n, src, {150})
  /\ state[n] = "ready"
  /\ hbq' = [hbq EXCEPT ![n] =
               IF @ # <<>> /\ @[Len(@)] = update THEN @ ELSE Append(@, update)]
  /\ UNCHANGED <<boVars, proc, dispq, posts, disk, inotify>>

\* Faulty: the deadline is not handed on.
StopOrderBlank(m) == Msg(155, NoFile, FALSE)

\* The deadline is read from behind the timestamp whether or not the sender
\* of the 155 wrote one there.
StopOrder(m) == Msg(155, NoFile, m.stamp)

Hear155(n, src) ==
  /\ Hears(n, src, {155})
  /\ ~stopSync[n]
  /\ FsmContinue(n, 155, fileListData[n], fileListMetadata[n], TRUE,
                 Append(dispq[n], StopOrder(Heard(n, src))))
  /\ UNCHANGED <<replied, notifiedDispatch, fileMetadataWritten,
                 proc, posts, disk, inotify>>

-----------------------------------------------------------------------------
(* File data.                                                              *)

\* The content goes into the file current_file_ names, created if missing: the
\* package itself names none.  (current_file_ was cut off after 32 bytes too,
\* but where that matters no dispatcher lives to send a package.)  The content
\* is written before the modification time is set, or, when it is so small that
\* the stream buffers it, after.
StoreData(n, src, first, second) ==
  LET p == currentFile[n].path IN
  /\ Hears(n, src, {200})
  /\ currentFile[n] # NoFile
  /\ disk' = [disk EXCEPT ![n][p] =
                [@ EXCEPT !.exists = TRUE, !.data = Heard(n, src).file.version]]
  /\ inotify' = [inotify EXCEPT ![n] =
       LET created == IF disk[n][p].exists THEN @
                      ELSE Notify(@, FileEventOf("attrib", p))
       IN Notify(Notify(created, FileEventOf(first, p)),
                 FileEventOf(second, p))]
  /\ PlainContinue(n, 113)
  /\ UNCHANGED <<replied, notifiedDispatch, fileMetadataWritten, proc, posts>>

HearData(n, src) ==
  \/ StoreData(n, src, "modify", "attrib")
  \/ StoreData(n, src, "attrib", "modify")

-----------------------------------------------------------------------------
(* Messages of the dispatcher and of the box.                              *)

\* 132 or 156
HearDispatcher(n) ==
  LET status == Head(posts[n]) IN
  /\ Running(n)
  /\ posts[n] # <<>>
  /\ posts' = [posts EXCEPT ![n] = Tail(@)]
  /\ PlainContinue(n, status)
  /\ UNCHANGED <<replied, notifiedDispatch, fileMetadataWritten,
                 proc, net, disk, inotify>>

\* A number that is no status code, and the statuses a local event may have.
NoStatus == 0
LocalStatus == {300, 320, NoStatus}

LocalEvent(n) == Head(inotify[n])

\* The status Box::run gives an event.  IN_MOVE is two bits, of which an event
\* has one: neither branch is taken for IN_MOVED_FROM and IN_MOVED_TO, and
\* status keeps what was in memory, the last event's status or no status at all.
BoxStatus(kind) ==
  CASE kind = "modify"              -> {300}
    [] kind \in {"attrib", "delete"} -> {320}
    [] kind = "moved"               -> {300, 320, NoStatus}

\* Box::run reads a batch of events and forwards only the first.
TakesLocal(n, status) ==
  /\ Running(n)
  /\ inotify[n] # <<>>
  /\ status \in BoxStatus(LocalEvent(n).kind)
  /\ \E batch \in 1 .. Len(inotify[n]) :
       inotify' = [inotify EXCEPT ![n] = SubSeq(@, batch + 1, Len(@))]
  /\ UNCHANGED <<notifiedDispatch, fileMetadataWritten, posts, net, disk>>

IgnoreLocal(n, status) ==
  /\ TakesLocal(n, status)
  /\ ~Accepts(n, status)
  /\ UNCHANGED <<state, fileListData, fileListMetadata, replied, stopSync,
                 currentFile, proc, hbq, dispq>>

\* The path has more than 128 characters: return 1.
LocalPathTooLong(n, status) ==
  /\ TakesLocal(n, status)
  /\ Accepts(n, status)
  /\ LocalEvent(n).path \in LongPath
  /\ proc' = [proc EXCEPT ![n] = "failed"]
  /\ UNCHANGED <<state, fileListData, fileListMetadata, replied, stopSync,
                 currentFile, hbq, dispq>>

\* File's constructor throws: the file is gone and the event is no IN_DELETE.
LocalFileMissing(n, status) ==
  /\ TakesLocal(n, status)
  /\ Accepts(n, status)
  /\ LocalEvent(n).path \notin LongPath
  /\ LocalEvent(n).kind # "delete"
  /\ ~disk[n][LocalEvent(n).path].exists
  /\ proc' = [proc EXCEPT ![n] = "aborted"]
  /\ UNCHANGED <<state, fileListData, fileListMetadata, replied, stopSync,
                 currentFile, hbq, dispq>>

Constructible(n, event) ==
  /\ event.path \notin LongPath
  /\ event.kind = "delete" \/ disk[n][event.path].exists

NewLocalFile(n, event) ==
  [path |-> event.path, deleted |-> event.kind = "delete",
   version |-> disk[n][event.path].meta]

\* In announcing_new_file the new File is looked up in the queue by its
\* address, never found, and dropped as "reported twice" (301).
LocalReportedTwice(n, status) ==
  /\ TakesLocal(n, status)
  /\ Accepts(n, status)
  /\ Constructible(n, LocalEvent(n))
  /\ state[n] = "announcing_new_file"
  /\ ForgetReplies(n)
  /\ PlainContinue(n, 301)
  /\ UNCHANGED proc

\* Faulty: a metadata change is acted on, but not queued.
LocalForgotten(n, status) ==
  LET f == NewLocalFile(n, LocalEvent(n)) IN
  /\ TakesLocal(n, status)
  /\ Accepts(n, status)
  /\ Constructible(n, LocalEvent(n))
  /\ state[n] # "announcing_new_file"
  /\ ForgetReplies(n)
  /\ FsmContinue(n, status,
       IF status = 300 THEN Append(fileListData[n], f) ELSE fileListData[n],
       fileListMetadata[n], stopSync[n], dispq[n])
  /\ UNCHANGED proc

LocalQueued(n, status) ==
  LET f == NewLocalFile(n, LocalEvent(n)) IN
  /\ TakesLocal(n, status)
  /\ Accepts(n, status)
  /\ Constructible(n, LocalEvent(n))
  /\ state[n] # "announcing_new_file"
  /\ ForgetReplies(n)
  /\ FsmContinue(n, status,
       IF status = 300 THEN Append(fileListData[n], f) ELSE fileListData[n],
       IF status = 320 THEN Append(fileListMetadata[n], f)
                       ELSE fileListMetadata[n],
       stopSync[n], dispq[n])
  /\ UNCHANGED proc
=============================================================================
