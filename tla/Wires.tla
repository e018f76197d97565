------------------------------- MODULE Wires --------------------------------
(***************************************************************************)
(* What the threads of a flocksy process, and the processes of a flock,    *)
(* share: the inproc sockets between boxoffice, heartbeater and            *)
(* dispatcher, the PUB/SUB links between nodes (publisher, subscriber and  *)
(* the router socket in one FIFO per ordered pair of nodes), the files on  *)
(* disk and the inotify queue of the watched box.                          *)
(*                                                                         *)
(* A file is known by its path; what it contains is a version number.  A   *)
(* payload is the File object it carries, if any, and whether a timing     *)
(* offset was written behind it.                                           *)
(***************************************************************************)
EXTENDS Integers, Sequences, FlockFSM

CONSTANTS
  Node,                \* the nodes, each connected to all others
  Path,                \* the paths of the (single) box
  LongPath,            \* the paths of more than 128 characters
  NoFile,              \* "no File object in this payload"
  F_GENERIC_HASH_LEN,  \* include/hash.hpp:24; 64 as shipped
  Timely,              \* the timing assumptions this instance grants
  MaxVersion,          \* bound: local changes in a behaviour
  MaxInFlight          \* bound: messages of one node another has not yet read

\* The assumptions on time an instance may grant (Timely).
\*   "inotify": a change on disk reaches the boxoffice before the next
\*              heartbeat does (microseconds against a 1 s period)
\*   "clocks":  the dispatchers' 250 ms margin is kept: file data leaves only
\*              when every node that was given the same instant has acted on it
\*   "links":   the heartbeaters keep their common period of a second, and a
\*              heartbeat is read before anyone's next one is published
\*   "polls":   a heartbeat and a file package never wait in one poll
\*   "quiet":   a local change comes only when no round is under way
TimingAssumption == {"inotify", "clocks", "links", "polls", "quiet"}

Version == 0 .. MaxVersion

\* A File object: its metadata is read from disk when it is constructed.
File == [path : Path, deleted : BOOLEAN, version : Version]

ASSUME WiresAssumption ==
  /\ Node # {}
  /\ LongPath \subseteq Path
  /\ NoFile \notin File
  /\ Timely \subseteq TimingAssumption
  /\ F_GENERIC_HASH_LEN \in Nat
  /\ MaxVersion \in Nat
  /\ MaxInFlight \in Nat \ {0}

VARIABLES
  proc,       \* "running", "failed" (runRouter returned 1) or "aborted"
  hbq,        \* z_bo_hb: boxoffice -> heartbeater
  dispq,      \* z_bo_disp: boxoffice -> dispatcher
  posts,      \* dispatcher -> router socket of the boxoffice
  net,        \* net[s][d]: publisher of s -> router socket of d
  disk,       \* the files of the box on each node
  inotify     \* the inotify queue of the box on each node

wireVars == <<proc, hbq, dispq, posts, net, disk, inotify>>

\* A status with its payload: a heartbeat, a file package (200, whose version
\* is the content read) or an order to a dispatcher.
Message == [status : Nat, file : File \cup {NoFile}, stamp : BOOLEAN]

Msg(status, file, stamp) ==
  [status |-> status, file |-> file, stamp |-> stamp]

\* A file on disk: metadata (mode, size) and content may be of two versions.
Copy == [exists : BOOLEAN, meta : Version, data : Version]

\* The inotify masks Box::run tells apart.
FileEvent == [kind : {"modify", "attrib", "delete", "moved"}, path : Path]

WiresTypeOK ==
  /\ proc \in [Node -> {"running", "failed", "aborted"}]
  /\ hbq \in [Node -> Seq(Message)]
  /\ dispq \in [Node -> Seq(Message)]
  /\ posts \in [Node -> Seq({132, 156})]
  /\ net \in [Node -> [Node -> Seq(Message)]]
  /\ disk \in [Node -> [Path -> Copy]]
  /\ inotify \in [Node -> Seq(FileEvent)]

WiresInit ==
  /\ proc = [n \in Node |-> "running"]
  /\ hbq = [n \in Node |-> <<>>]
  /\ dispq = [n \in Node |-> <<>>]
  /\ posts = [n \in Node |-> <<>>]
  /\ net = [s \in Node |-> [d \in Node |-> <<>>]]
  /\ inotify = [n \in Node |-> <<>>]

-----------------------------------------------------------------------------
Peers(n) == Node \ {n}

Running(n) == proc[n] = "running"

\* Publisher and subscribers: what n publishes reaches every running peer, in
\* the order of publication.
Publish(n, m) ==
  net' = [s \in Node |-> [d \in Node |->
            IF s = n /\ d # n /\ Running(d) THEN Append(net[s][d], m)
                                            ELSE net[s][d]]]

\* Nothing n may publish now overtakes the bound on unread messages.
LinksHaveRoom(n) ==
  \A d \in Peers(n) : Running(d) => Len(net[n][d]) < MaxInFlight

LinksIdle ==
  \A s, d \in Node : Running(d) => net[s][d] = <<>>

\* The kernel appends events, merging one equal to the last queued.
Notify(queue, event) ==
  IF queue # <<>> /\ queue[Len(queue)] = event THEN queue
                                               ELSE Append(queue, event)

FileEventOf(kind, path) == [kind |-> kind, path |-> path]
=============================================================================
