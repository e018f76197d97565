----------------------------- MODULE Dispatcher -----------------------------
(***************************************************************************)
(* The dispatcher thread (src/dispatcher.cpp).  An order 122 or 177 makes  *)
(* it wait for the agreed instant, post 132, and send the file; an order   *)
(* 130 makes it wait and post 132.  Both then run synchronizingStop, which *)
(* sends dummy packages until the deadline of a 155 has passed, and posts  *)
(* 156.  Dummy packages (210) are left out: no row of the state machine    *)
(* does anything with them.                                                *)
(*                                                                         *)
(* timing_offset_ is a relative sleep while an order waits and an absolute *)
(* deadline after a 155; synchronizingStop compares it with the wall clock *)
(* in unsigned arithmetic, where only a deadline that really passed gives a*)
(* small difference.  A relative value and the blanks read from a 155      *)
(* without payload never do.                                               *)
(***************************************************************************)
EXTENDS Wires

VARIABLES
  phase,            \* where run() is
  job,              \* the File the current order names
  waitingForStop,   \* waiting_for_stop_
  timingOffset      \* timing_offset_: "relative", "deadline" or "blank"

dispatcherVars == <<phase, job, waitingForStop, timingOffset>>

Phase == {"idle", "armed_send", "armed_fake", "sending", "stopping"}

DispatcherTypeOK ==
  /\ phase \in [Node -> Phase]
  /\ job \in [Node -> File \cup {NoFile}]
  /\ waitingForStop \in [Node -> BOOLEAN]
  /\ timingOffset \in [Node -> {"relative", "deadline", "blank"}]

DispatcherInit ==
  /\ phase = [n \in Node |-> "idle"]
  /\ job = [n \in Node |-> NoFile]
  /\ waitingForStop = [n \in Node |-> FALSE]
  /\ timingOffset = [n \in Node |-> "relative"]

-----------------------------------------------------------------------------
\* The blocking receive of run(): a send order, a fake order, or something the
\* two branches do not know (a 155), which is forgotten.
TakeOrder(n) ==
  /\ proc[n] # "aborted"
  /\ phase[n] = "idle"
  /\ dispq[n] # <<>>
  /\ dispq' = [dispq EXCEPT ![n] = Tail(@)]
  /\ LET order == Head(dispq[n]) IN
       \/ /\ order.status \in {122, 177}
          /\ phase' = [phase EXCEPT ![n] = "armed_send"]
          /\ job' = [job EXCEPT ![n] = order.file]
          /\ timingOffset' = [timingOffset EXCEPT ![n] = "relative"]
       \/ /\ order.status = 130
          /\ phase' = [phase EXCEPT ![n] = "armed_fake"]
          /\ timingOffset' = [timingOffset EXCEPT ![n] = "relative"]
          /\ UNCHANGED job
       \/ /\ order.status \notin {122, 177, 130}
          /\ UNCHANGED <<phase, job, timingOffset>>
  /\ UNCHANGED <<waitingForStop, proc, hbq, posts, net, disk, inotify>>

\* The sleep ends: 132 goes to the boxoffice.
OffsetElapsed(n) ==
  /\ proc[n] # "aborted"
  /\ phase[n] \in {"armed_send", "armed_fake"}
  /\ posts' = [posts EXCEPT ![n] = Append(@, 132)]
  /\ phase' = [phase EXCEPT ![n] =
                 IF @ = "armed_send" THEN "sending" ELSE "stopping"]
  /\ UNCHANGED <<job, waitingForStop, timingOffset,
                 proc, hbq, dispq, net, disk, inotify>>

\* The order carries a serialised File cut off after 32 bytes
\* (boxoffice.cpp:717), where the box hash has F_GENERIC_HASH_LEN: read back,
\* it is a File only if the two agree; otherwise checkArguments throws and the
\* exception ends the process.
ParsesBack == F_GENERIC_HASH_LEN = 32

SendDataAborts(n) ==
  /\ proc[n] # "aborted"
  /\ phase[n] = "sending"
  /\ ~ParsesBack
  /\ proc' = [proc EXCEPT ![n] = "aborted"]
  /\ UNCHANGED <<phase, job, waitingForStop, timingOffset,
                 hbq, dispq, posts, net, disk, inotify>>

\* operator>> creates the file if it is no longer there (checkArguments with
\* create = true); then the content is read.
ReadBack(n) ==
  LET p == job[n].path IN
  IF disk[n][p].exists
    THEN UNCHANGED <<disk, inotify>>
    ELSE /\ disk' = [disk EXCEPT ![n][p] =
                       [exists |-> TRUE, meta |-> 0, data |-> 0]]
         /\ inotify' = [inotify EXCEPT ![n] =
                          Notify(@, FileEventOf("attrib", p))]

\* The file package goes out: one package, files being at most
\* F_MAXIMUM_FILE_PACKAGE_SIZE long here.
SendData(n) ==
  /\ proc[n] # "aborted"
  /\ phase[n] = "sending"
  /\ ParsesBack
  /\ ReadBack(n)
  /\ Publish(n, Msg(200, [job[n] EXCEPT !.version =
                            disk[n][job[n].path].data], FALSE))
  /\ phase' = [phase EXCEPT ![n] = "stopping"]
  /\ UNCHANGED <<job, waitingForStop, timingOffset, proc, hbq, dispq, posts>>

\* s_recv with four sockets concatenates what waits in one poll: behind a
\* heartbeat the package is only trailing bytes, and is lost.  (The heartbeat
\* itself is the heartbeater's next one.)
SendDataSwallowed(n) ==
  /\ proc[n] # "aborted"
  /\ phase[n] = "sending"
  /\ ParsesBack
  /\ "polls" \notin Timely
  /\ ReadBack(n)
  /\ phase' = [phase EXCEPT ![n] = "stopping"]
  /\ UNCHANGED <<job, waitingForStop, timingOffset,
                 proc, hbq, dispq, posts, net>>

-----------------------------------------------------------------------------
\* synchronizingStop receives: a 155 sets the deadline, anything else is
\* forgotten.
StopReceives(n) ==
  /\ proc[n] # "aborted"
  /\ phase[n] = "stopping"
  /\ dispq[n] # <<>>
  /\ dispq' = [dispq EXCEPT ![n] = Tail(@)]
  /\ IF Head(dispq[n]).status = 155
       THEN /\ waitingForStop' = [waitingForStop EXCEPT ![n] = TRUE]
            /\ timingOffset' = [timingOffset EXCEPT ![n] =
                 IF Head(dispq[n]).stamp THEN "deadline" ELSE "blank"]
       ELSE UNCHANGED <<waitingForStop, timingOffset>>
  /\ UNCHANGED <<phase, job, proc, hbq, posts, net, disk, inotify>>

\* Faulty: 155 is posted back instead of 156.
StopElapsedWrong(n) ==
  /\ proc[n] # "aborted"
  /\ phase[n] = "stopping"
  /\ dispq[n] = <<>>
  /\ waitingForStop[n]
  /\ timingOffset[n] = "deadline"
  /\ posts' = [posts EXCEPT ![n] = Append(@, 155)]
  /\ phase' = [phase EXCEPT ![n] = "idle"]
  /\ UNCHANGED <<job, waitingForStop, timingOffset,
                 proc, hbq, dispq, net, disk, inotify>>

\* synchronizingStop times out with nothing to receive, the deadline passed.
StopElapsed(n) ==
  /\ proc[n] # "aborted"
  /\ phase[n] = "stopping"
  /\ dispq[n] = <<>>
  /\ waitingForStop[n]
  /\ timingOffset[n] = "deadline"
  /\ posts' = [posts EXCEPT ![n] = Append(@, 156)]
  /\ phase' = [phase EXCEPT ![n] = "idle"]
  /\ UNCHANGED <<job, waitingForStop, timingOffset,
                 proc, hbq, dispq, net, disk, inotify>>
=============================================================================
