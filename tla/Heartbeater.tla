----------------------------- MODULE Heartbeater ----------------------------
(***************************************************************************)
(* The heartbeater thread (src/heartbeater.cpp): once a second it publishes*)
(* the status it was last given.  The loop polls for one update, sleeps    *)
(* 1000 ms and sends; the model cuts it between the sleep and the send, so *)
(* a step sends the current heartbeat and pops at most one update.  Every  *)
(* update is therefore published at least once, in order.                  *)
(***************************************************************************)
EXTENDS Wires

VARIABLES
  beat,      \* current_status_ and current_message_
  beaten     \* with "links": the nodes that have beaten in this period

heartbeaterVars == <<beat, beaten>>

HeartbeaterTypeOK ==
  /\ beat \in [Node -> Message]
  /\ beaten \in SUBSET Node

HeartbeaterInit ==
  /\ beat = [n \in Node |-> Msg(100, NoFile, FALSE)]
  /\ beaten = {}

\* The poll of one waiting update.
PopUpdate(n) ==
  IF hbq[n] = <<>>
    THEN UNCHANGED <<beat, hbq>>
    ELSE /\ beat' = [beat EXCEPT ![n] = Head(hbq[n])]
         /\ hbq' = [hbq EXCEPT ![n] = Tail(@)]

\* The period: a node beats again when all others that still live have.
NextPeriod(n) ==
  LET waiting == {m \in Node : proc[m] # "aborted"} \ beaten IN
  IF "links" \notin Timely THEN UNCHANGED beaten
  ELSE /\ LinksIdle
       /\ n \notin beaten \/ waiting = {}
       /\ beaten' = IF waiting \subseteq {n} THEN {} ELSE beaten \cup {n}

Beat(n) ==
  /\ proc[n] # "aborted"
  /\ LinksHaveRoom(n)
  /\ NextPeriod(n)
  /\ Publish(n, beat[n])
  /\ PopUpdate(n)
  /\ UNCHANGED <<proc, dispq, posts, disk, inotify>>
=============================================================================
