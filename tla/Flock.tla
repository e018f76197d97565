------------------------------- MODULE Flock --------------------------------
(***************************************************************************)
(* A flock: every node runs a boxoffice, a heartbeater and a dispatcher,   *)
(* users change files of the box, and the nodes synchronise them by the    *)
(* Flock protocol.                                                         *)
(***************************************************************************)
EXTENDS Boxoffice, Heartbeater, Dispatcher

CONSTANTS
  Writers,         \* the nodes whose users change files
  Kinds,           \* the changes they make, by the inotify event each causes
  UninitReplied    \* TRUE: node_t.replied starts with whatever is in memory

ASSUME FlockAssumption ==
  /\ Writers \subseteq Node
  /\ Kinds \subseteq {"modify", "attrib", "delete", "moved"}
  /\ UninitReplied \in BOOLEAN

VARIABLE version   \* the number of local changes so far; names the newest

vars == <<wireVars, boVars, heartbeaterVars, dispatcherVars, version>>

TypeOK ==
  /\ WiresTypeOK
  /\ BoxofficeTypeOK
  /\ HeartbeaterTypeOK
  /\ DispatcherTypeOK
  /\ version \in Version

Init ==
  /\ WiresInit
  /\ BoxofficeInit
  /\ HeartbeaterInit
  /\ DispatcherInit
  /\ version = 0
  /\ disk \in { [n \in Node |-> [p \in Path |->
                   [exists |-> e, meta |-> 0, data |-> 0]]] : e \in BOOLEAN }
  /\ replied \in [Node -> SUBSET Node]
  /\ \A n \in Node : replied[n] \subseteq IF UninitReplied THEN Peers(n) ELSE {}

-----------------------------------------------------------------------------
\* Long after the last round: everyone is ready, beats 100 and has heard it.
Quiet ==
  \A n \in Node :
    /\ state[n] = "ready" /\ ~stopSync[n] /\ phase[n] = "idle"
    /\ beat[n].status = 100 /\ hbq[n] = <<>> /\ inotify[n] = <<>>
    /\ \A s \in Node : \A i \in DOMAIN net[s][n] : net[s][n][i].status = 100

\* A user writes to a file, touches or creates one, deletes one, or moves one
\* out of the box or into it.
UserChange(n, p, kind) ==
  /\ version < MaxVersion
  /\ "quiet" \in Timely => Quiet
  /\ Running(n)
  /\ kind \in {"attrib", "moved"} \/ disk[n][p].exists
  /\ version' = version + 1
  /\ disk' = [disk EXCEPT ![n][p] =
       CASE kind = "modify" \/ (kind = "moved" /\ ~@.exists) ->
              [exists |-> TRUE, meta |-> version + 1, data |-> version + 1]
         [] kind = "attrib" ->
              [exists |-> TRUE, meta |-> version + 1, data |-> @.data]
         [] kind = "delete" \/ (kind = "moved" /\ @.exists) ->
              [exists |-> FALSE, meta |-> 0, data |-> 0]]
  /\ inotify' = [inotify EXCEPT ![n] = Notify(@, FileEventOf(kind, p))]
  /\ UNCHANGED <<proc, hbq, dispq, posts, net>>

(* What "clocks" grants.  The send instant lies at least                   *)
(* F_MINIMUM_SEND_OFFSET = 3 s ahead, time for the heartbeater to publish  *)
(* the 130 once and for every node to hear it; the heartbeat under way is a*)
(* second 130.  The data follows 250 ms after the instant.                 *)

\* n has not yet heard a 130 of this round.
AwaitsMetadata(n) ==
  state[n] \in {"acknowledging_new_file", "broadcasting_all_metadata_received"}

InstantReached(n) ==
  "clocks" \in Timely /\ phase[n] = "armed_send" =>
    /\ beat[n].status = 130
    /\ \A m \in Peers(n) : Running(m) => ~AwaitsMetadata(m)

\* n may still act on the instant the dispatchers were given.
StillPromoting(n) ==
  \/ dispq[n] # <<>> \/ posts[n] # <<>> \/ phase[n] = "armed_fake"
  \/ /\ AwaitsMetadata(n) \/ state[n] = "promoting_new_file_metadata"
     /\ ~notifiedDispatch[n]

MarginKept == "clocks" \in Timely =>
                \A n \in Node : Running(n) => ~StillPromoting(n)

-----------------------------------------------------------------------------
HearFrom(n, src) ==
  \/ IgnoreMessage(n, src)
  \/ HearPlain(n, src)
  \/ Hear100(n, src)
  \/ HearReply(n, src)
  \/ HearLastReply(n, src)
  \/ HearAnnouncement(n, src)
  \/ Hear130(n, src)
  \/ Hear150InReady(n, src)
  \/ Hear155(n, src)
  \/ Hear160(n, src)
  \/ Hear170(n, src)
  \/ Hear174(n, src)
  \/ HearData(n, src)

HearLocal(n, status) ==
  \/ IgnoreLocal(n, status)
  \/ LocalPathTooLong(n, status)
  \/ LocalFileMissing(n, status)
  \/ LocalReportedTwice(n, status)
  \/ LocalQueued(n, status)

\* One message of the router socket: from a peer, the dispatcher or the box.
PeerStep(n, src) ==
  HearFrom(n, src) /\ UNCHANGED <<heartbeaterVars, dispatcherVars, version>>

PostStep(n) ==
  HearDispatcher(n) /\ UNCHANGED <<heartbeaterVars, dispatcherVars, version>>

BoxStep(n) ==
  /\ \E status \in LocalStatus : HearLocal(n, status)
  /\ UNCHANGED <<heartbeaterVars, dispatcherVars, version>>

DispatcherStep(n) ==
  /\ \/ TakeOrder(n)
     \/ InstantReached(n) /\ OffsetElapsed(n)
     \/ MarginKept /\ SendData(n)
     \/ SendDataSwallowed(n)
     \/ SendDataAborts(n)
     \/ StopReceives(n)
     \/ StopElapsed(n)
  /\ UNCHANGED <<boVars, heartbeaterVars, version>>

HeartbeaterStep(n) ==
  /\ Beat(n)
  /\ UNCHANGED <<boVars, dispatcherVars, version>>

UserStep(n) ==
  /\ \E p \in Path, kind \in Kinds : UserChange(n, p, kind)
  /\ UNCHANGED <<boVars, heartbeaterVars, dispatcherVars>>

Next ==
  \/ \E n \in Node : \E src \in Peers(n) : PeerStep(n, src)
  \/ \E n \in Node : PostStep(n)
  \/ \E n \in Node : BoxStep(n)
  \/ \E n \in Node : DispatcherStep(n)
  \/ \E n \in Node : HeartbeaterStep(n)
  \/ \E n \in Writers : UserStep(n)

Spec == Init /\ [][Next]_vars

\* The threads keep running, the router socket takes its peers in turn and
\* timers fire.  Users owe nothing.
Fairness ==
  \A n \in Node :
    /\ WF_vars(HeartbeaterStep(n))
    /\ WF_vars(DispatcherStep(n))
    /\ WF_vars(BoxStep(n))
    /\ WF_vars(PostStep(n))
    /\ \A src \in Peers(n) : WF_vars(PeerStep(n, src))

FairSpec == Spec /\ Fairness

-----------------------------------------------------------------------------
(* Safety.                                                                 *)

\* file_list_*.front() is never called on an empty queue: a node announcing a
\* change still has it queued (boxoffice.cpp:714, 888, 902).
FrontDefined ==
  \A n \in Node :
    /\ state[n] \in {"announcing_new_file", "announcing_new_file_with_more"}
         => fileListData[n] # <<>>
    /\ state[n] \in {"announcing_file_metadata_change",
                     "announcing_file_metadata_change_with_more"}
         => fileListMetadata[n] # <<>>

\* Whoever parses a File finds one: the heartbeats 130, 134, 170 and 174, the
\* packages and the send orders carry it, whichever way they were made, and a
\* dispatcher that will send has it (boxoffice.cpp:520, 569, 603;
\* dispatcher.cpp:127).
Carrying(statuses) ==
  { m \in Message : m.status \in statuses => m.file # NoFile }

WellFormed == Carrying({130, 134, 170, 174, 200})

WellFormedOrder == Carrying({122, 177})

PayloadsPresent ==
  /\ hbq \in [Node -> Seq(WellFormed)]
  /\ beat \in [Node -> WellFormed]
  /\ dispq \in [Node -> Seq(WellFormedOrder)]
  /\ net \in [Node -> [Node -> Seq(WellFormed)]]
  /\ \A n \in Node : phase[n] \in {"armed_send", "sending"} => job[n] # NoFile

\* The dispatcher never throws an order away: what waits for it in
\* synchronizingStop is a 155, and what waits for it between two orders is a
\* send or fake order (dispatcher.cpp:85-221, 230-267).
OrdersFit ==
  \A n \in Node :
    dispq[n] # <<>> =>
      /\ phase[n] = "stopping" => Head(dispq[n]).status = 155
      /\ phase[n] = "idle" => Head(dispq[n]).status \in {122, 130, 177}

\* A 132 or 156 the dispatcher posts finds the boxoffice in a state that
\* handles it; ignored, it would never be repeated.
PostsHandled ==
  \A n \in Node :
    Running(n) /\ posts[n] # <<>> => Accepts(n, Head(posts[n]))

\* A package carries no name: it must find the receiver's current_file_ set to
\* the file the sender read (boxoffice.cpp:796).
PackageMatches ==
  \A n, s \in Node :
    LET next == Head(net[s][n]) IN
    Running(n) /\ net[s][n] # <<>> /\ next.status = 200 /\ Accepts(n, 200)
      => currentFile[n] # NoFile /\ currentFile[n].path = next.file.path

\* A node in syncing_stop gets out of it: its dispatcher has the deadline, is
\* being told it, or has already posted 156.
StopIsScheduled ==
  \A n \in Node :
    Running(n) /\ state[n] = "syncing_stop" =>
      \/ \E i \in DOMAIN dispq[n] : dispq[n][i].status = 155 /\ dispq[n][i].stamp
      \/ phase[n] = "stopping" /\ timingOffset[n] = "deadline"
      \/ \E i \in DOMAIN posts[n] : posts[n][i] = 156

\* At most one node is past the announcement, sending.
OneSender ==
  \A n, m \in Node :
    /\ state[n] \in SendingMetadataStates \cup SendingFileStates
    /\ state[m] \in SendingMetadataStates \cup SendingFileStates
    => n = m

\* No boxoffice gives up and no process dies.
AllRun == \A n \in Node : Running(n)

\* An announcer goes on to send only when every other node has acknowledged:
\* replied flags mean what they say.
AnnouncedToAll ==
  [][\A n \in Node :
       state[n] \in AnnouncingStates /\ state'[n] \in SendingMetadataStates
         => \A m \in Peers(n) : state[m] \in AcknowledgingStates]_vars

HasMetadata(n, f) ==
  IF f.deleted THEN ~disk[n][f.path].exists
  ELSE disk[n][f.path].exists /\ disk[n][f.path].meta = f.version

\* A sender leaves a round only when every other node has what it sent:
\* all_nodes_have_file means that.
EndOfRound(n) ==
  \/ /\ state[n] \in {"sending_file_metadata_change",
                      "sending_file_metadata_change_with_more"}
     /\ state'[n] # state[n]
  \/ state[n] = "sending_new_file" /\ state'[n] = "syncing_stop"

ConfirmedIsHeld ==
  [][\A n \in Node : EndOfRound(n) =>
        \A m \in Peers(n) :
          /\ HasMetadata(m, currentFile[n])
          /\ state[n] = "sending_new_file" =>
               disk[m][currentFile[n].path].data = job[n].version]_vars

\* Boxoffices, heartbeaters and dispatchers together implement the round: what
\* a node in a sending state sends is current_file_ (boxoffice.cpp:885-915).
Round == INSTANCE FlockRound WITH
  offer <- [n \in Node |->
              IF state[n] \in SendingMetadataStates \cup SendingFileStates
                THEN currentFile[n] ELSE NoFile]

IsRound == Round!Spec

-----------------------------------------------------------------------------
(* Liveness, under FairSpec.                                               *)

Synchronised ==
  \A n, m \in Node, p \in Path : disk[n][p] = disk[m][p]

\* What users changed reaches every node.
Delivered == <>[]Synchronised

\* Every round ends: all are back in ready, and beat so.
Settled == <>[](\A n \in Node : state[n] = "ready" /\ phase[n] = "idle")
=============================================================================
