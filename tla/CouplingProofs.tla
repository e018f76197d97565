--------------------------- MODULE CouplingProofs ---------------------------
(***************************************************************************)
(* How far a boxoffice and its own dispatcher can get apart, for any flock *)
(* and whatever timing is granted: the two threads share nothing but the   *)
(* orders of the one and the posts of the other.                           *)
(*                                                                         *)
(* OrdersFit is far from inductive.  Which order may still be waiting      *)
(* depends on the boxoffice's state, on whether it has heard the           *)
(* dispatcher's last post, and on notified_dispatch_ and                   *)
(* stop_sync_timeout_received_, which keep it from giving an order twice.  *)
(* Fits says it for one node, state by state.  It also needs to know that  *)
(* no node ever tells the others to give up (410), which would take a      *)
(* boxoffice back to ready while its dispatcher is at work; that is a fact *)
(* about everything on the wires, Spoken.                                  *)
(*                                                                         *)
(* The second half is about flocks of two nodes, still whatever timing is  *)
(* granted: a round of two is a dialogue, and the invariant InDialogue     *)
(* says what one node can be, given what the other is and what of their    *)
(* words is still under way.                                               *)
(* The last part adds which file they speak about.  A package names none:  *)
(* the receiver files it under its own current_file_.  FilesAgree says     *)
(* that what the dispatcher holds or is about to be given, the 130s under  *)
(* way and the receiver's current_file_ all name the same path.            *)
(* At the end something is assumed of time, OneAtATime, for the common     *)
(* stop: Stopping says what is left of a round when the next one begins.   *)
(***************************************************************************)
EXTENDS FlockProofs

\* The states for more than one file of data, which the flock never enters.
MoreDataStates ==
  { "announcing_new_file_with_more", "acknowledging_new_file_with_more",
    "sending_new_file_with_more_alpha", "sending_new_file_with_more_beta",
    "sending_fake_file_with_more_alpha", "sending_fake_file_with_more_beta",
    "broadcasting_all_received_with_more_alpha",
    "broadcasting_all_received_with_more_beta" }

\* The states in which the dispatcher has, or may be given, something to do.
EngagedStates ==
  { "sending_new_file_metadata", "promoting_new_file_metadata",
    "promoting_new_file_metadata_with_more", "sending_new_file",
    "sending_fake_file", "broadcasting_all_received", "syncing_stop" }

Unentered == MoreDataStates \cup {"exit"}
RestingStates == State \ (EngagedStates \cup Unentered)

\* The statuses no node ever has reason to say.
Unheard == {114, 115, 116, 117, 124, 125, 145, 147, 410}

Spoken == { m \in Message : m.status \notin Unheard }

NothingUnheard ==
  /\ hbq \in [Node -> Seq(Spoken)]
  /\ beat \in [Node -> Spoken]
  /\ net \in [Node -> [Node -> Seq(Spoken)]]

\* One order is waiting, with one of the statuses.
OneOrder(q, statuses) == Len(q) = 1 /\ Head(q).status \in statuses

\* Boxoffice in state s, with notified_dispatch_ and the stop flag as given;
\* dispatcher in phase ph with timing offset t; orders q and posts p between
\* them.
Fits(s, ph, q, p, t, notified, stop) ==
  /\ s \in EngagedStates \cup RestingStates
  /\ s \in RestingStates => ph = "idle" /\ q = <<>> /\ p = <<>>
  /\ s = "sending_new_file_metadata" =>
       \/ ph = "idle" /\ OneOrder(q, {122, 177}) /\ p = <<>>
       \/ ph = "armed_send" /\ q = <<>> /\ p = <<>>
       \/ ph \in {"sending", "stopping"} /\ q = <<>> /\ p = <<132>>
  /\ s = "promoting_new_file_metadata" =>
       \/ ph = "idle" /\ q = <<>> /\ p = <<>>
       \/ notified /\ ph = "idle" /\ OneOrder(q, {130}) /\ p = <<>>
       \/ notified /\ ph = "armed_fake" /\ q = <<>> /\ p = <<>>
       \/ notified /\ ph = "stopping" /\ q = <<>> /\ p = <<132>>
  /\ s = "promoting_new_file_metadata_with_more" =>
       \/ ph = "idle" /\ (q = <<>> \/ OneOrder(q, {130})) /\ p = <<>>
       \/ ph = "armed_fake" /\ q = <<>> /\ p = <<>>
       \/ ph = "stopping" /\ q = <<>> /\ (p = <<>> \/ p = <<132>>)
  /\ s = "sending_new_file" =>
       ph \in {"sending", "stopping"} /\ q = <<>> /\ p = <<>>
  /\ s \in {"sending_fake_file", "broadcasting_all_received"} =>
       ph = "stopping" /\ q = <<>> /\ p = <<>>
  /\ s = "syncing_stop" =>
       /\ stop
       /\ \/ /\ ph \in {"sending", "stopping"}
             /\ q = <<>> \/ OneOrder(q, {155})
             /\ p = <<>>
          \/ ph = "idle" /\ q = <<>> /\ p = <<156>>
  /\ ph \in {"armed_send", "armed_fake", "sending"} => t = "relative"
  /\ ph = "stopping" /\ t = "deadline" => s = "syncing_stop"

NodeFits(n) ==
  Fits(state[n], phase[n], dispq[n], posts[n], timingOffset[n],
       notifiedDispatch[n], stopSync[n])

Coupled == \A n \in Node : NodeFits(n)

CInv == IInv /\ NothingUnheard /\ Coupled

-----------------------------------------------------------------------------
(* The state machine, for the states and statuses that occur.              *)

\* The call of processEvent may go on with status c in state s.
Live(s, c) ==
  /\ s \in EngagedStates \cup RestingStates
  /\ c \notin Unheard \cup {126, 136, 146, 304, 324, 500}
  /\ ~(s = "announcing_new_file" /\ c \in {300, 320})
  /\ ~(s = "sending_new_file_metadata_with_more" /\ c = 132)

\* The state changes that remain.
Goes(s, c, t) ==
  \/ s \in RestingStates /\ t \in RestingStates /\ c \notin {122, 155, 177}
  \/ /\ s \in RestingStates /\ c \in {122, 177}
     /\ t = "sending_new_file_metadata"
  \/ /\ s \in RestingStates /\ c \notin {122, 155, 177}
     /\ t \in {"promoting_new_file_metadata",
               "promoting_new_file_metadata_with_more"}
  \/ s = "sending_new_file_metadata" /\ c = 132 /\ t = "sending_new_file"
  \/ s = "promoting_new_file_metadata" /\ c = 132 /\ t = "sending_fake_file"
  \/ /\ s = "promoting_new_file_metadata" /\ c = 134
     /\ t = "promoting_new_file_metadata_with_more"
  \/ s = "sending_new_file" /\ c = 142 /\ t = "syncing_stop"
  \/ s = "sending_fake_file" /\ c = 113 /\ t = "broadcasting_all_received"
  \/ s = "broadcasting_all_received" /\ c = 155 /\ t = "syncing_stop"
  \/ s = "syncing_stop" /\ c = 156 /\ t = "ready"

Leads(row) ==
  row[2] # "node_only_sends_heartbeats" /\ Live(row[1], row[3]) =>
    /\ row[4] \in Nat \ Unheard
    /\ Goes(row[1], row[3], row[5])

\* Every row of the table leads to one of these changes, or does not occur.
LEMMA MovesLead == \A row \in Moves : Leads(row)
<1> USE DEF Leads, Live, Goes, Unheard, RestingStates, EngagedStates, Unentered,
            MoreDataStates, State, AnnouncingStates, SendingMetadataStates,
            SendingFileStates, AcknowledgingStates, ReceivingMetadataStates,
            FakeFileStates, BroadcastingStates
<1>1. \A row \in MovesAnnouncing : Leads(row)
  BY DEF MovesAnnouncing, NewFile, NewMetadata
<1>2. \A row \in MovesSending : Leads(row)
  BY DEF MovesSending
<1>3. \A row \in MovesAcknowledging : Leads(row)
  BY DEF MovesAcknowledging
<1>4. \A row \in MovesReceiving : Leads(row)
  BY DEF MovesReceiving
<1>5. \A row \in MovesBroadcasting : Leads(row)
  BY DEF MovesBroadcasting
<1>6. \A row \in MovesLeaving : Leads(row)
  BY DEF MovesLeaving
<1>7. QED
  BY <1>1, <1>2, <1>3, <1>4, <1>5, <1>6 DEF Moves

\* No status stands for the event node_only_sends_heartbeats.
LEMMA NobodyOnlyBeats ==
  \A c : get_event_by_status_code(c) # "node_only_sends_heartbeats"
BY DEF get_event_by_status_code

\* What heartbeats stand for.
LEMMA HeartbeatEvent ==
  \A c \in {100, 120, 155} : get_event_by_status_code(c) = "received_heartbeat"
BY DEF get_event_by_status_code

\* A node in syncing_stop does not hear 100, which would reset its stop flag.
LEMMA SyncingStopDeaf == ~check_event("syncing_stop", "received_heartbeat", 100)
<1>1. <<"received_heartbeat", 100>> \notin Stay("syncing_stop")
  BY DEF Stay, StayAnnouncing, StaySending, StayAcknowledging, StayReceiving,
         StayBroadcasting, Hb, Tick
<1>2. ASSUME NEW row \in Moves,
             row[1] = "syncing_stop" /\ row[2] = "received_heartbeat" /\ row[3] = 100
      PROVE  FALSE
  <2>1. Live(row[1], row[3])
    BY <1>2 DEF Live, EngagedStates, Unheard
  <2>2. Goes(row[1], row[3], row[5])
    BY <1>2, <2>1, MovesLead DEF Leads
  <2>3. QED
    BY <1>2, <2>2 DEF Goes, RestingStates, EngagedStates
<1>3. QED
  BY <1>1, <1>2 DEF check_event, MovesFor

\* One in promoting_new_file_metadata hears no announcement, which would reset
\* notified_dispatch_.
LEMMA PromotingDeaf ==
  ~check_event("promoting_new_file_metadata", "received_heartbeat", 120)
<1>1. <<"received_heartbeat", 120>> \notin Stay("promoting_new_file_metadata")
  BY DEF Stay, StayAnnouncing, StaySending, StayAcknowledging, StayReceiving,
         StayBroadcasting, Hb, NewFile, Mislabelled
<1>2. ASSUME NEW row \in Moves, row[1] = "promoting_new_file_metadata",
             row[2] = "received_heartbeat", row[3] = 120
      PROVE  FALSE
  <2>1. Live(row[1], row[3])
    BY <1>2 DEF Live, EngagedStates, Unheard
  <2>2. Goes(row[1], row[3], row[5])
    BY <1>2, <2>1, MovesLead DEF Leads
  <2>3. QED
    BY <1>2, <2>2 DEF Goes, RestingStates, EngagedStates
<1>3. QED
  BY <1>1, <1>2 DEF check_event, MovesFor

\* A 132 or 156 that is expected moves the boxoffice.
LEMMA PostsMove ==
  /\ MovesFor("sending_new_file_metadata", get_event_by_status_code(132), 132)
       # {}
  /\ MovesFor("promoting_new_file_metadata", get_event_by_status_code(132), 132)
       # {}
  /\ MovesFor("syncing_stop", get_event_by_status_code(156), 156) # {}
<1>1. /\ get_event_by_status_code(132) = "timing_offset_elapsed"
      /\ get_event_by_status_code(156) = "timing_offset_elapsed"
  BY DEF get_event_by_status_code
<1>2. <<"sending_new_file_metadata", "timing_offset_elapsed", 132, 110,
        "sending_new_file">> \in Moves
  BY DEF Moves, MovesSending
<1>3. <<"promoting_new_file_metadata", "timing_offset_elapsed", 132, 111,
        "sending_fake_file">> \in Moves
  BY DEF Moves, MovesAcknowledging
<1>4. <<"syncing_stop", "timing_offset_elapsed", 156, 100, "ready">> \in Moves
  BY DEF Moves, MovesBroadcasting
<1>5. QED
  BY <1>1, <1>2, <1>3, <1>4 DEF MovesFor

\* No row for a send order keeps the state, and the only one for 155 that does
\* is that of syncing_stop.
LEMMA OrdersMove ==
  \A s, e, c : <<e, c>> \in Stay(s) =>
    c \notin {122, 177} /\ (c = 155 => s = "syncing_stop")
<1> USE DEF Hb, NewFile, NewMetadata, Mislabelled, Tick, FileData, FakeData
<1> SUFFICES ASSUME NEW s, NEW e, NEW c, <<e, c>> \in Stay(s)
             PROVE  c \notin {122, 177} /\ (c = 155 => s = "syncing_stop")
  OBVIOUS
<1>1. CASE <<e, c>> \in StayAnnouncing(s)
  BY <1>1 DEF StayAnnouncing
<1>2. CASE <<e, c>> \in StaySending(s)
  BY <1>2 DEF StaySending
<1>3. CASE <<e, c>> \in StayAcknowledging(s)
  BY <1>3 DEF StayAcknowledging
<1>4. CASE <<e, c>> \in StayReceiving(s)
  BY <1>4 DEF StayReceiving
<1>5. CASE <<e, c>> \in StayBroadcasting(s)
  BY <1>5 DEF StayBroadcasting
<1>6. QED
  BY <1>1, <1>2, <1>3, <1>4, <1>5 DEF Stay

-----------------------------------------------------------------------------
(* Queues of one element.                                                  *)

\* An order put into an empty queue is alone in it.
LEMMA OnlyOrder ==
  ASSUME NEW q, q = <<>>, NEW m
  PROVE  Len(Append(q, m)) = 1 /\ Head(Append(q, m)) = m
<1>1. Append(q, m) = <<m>>
  OBVIOUS
<1>2. QED
  BY <1>1

\* Taken, it leaves nothing behind.
LEMMA LastOrder ==
  ASSUME NEW S, NEW q \in Seq(S), NEW statuses, OneOrder(q, statuses)
  PROVE  Tail(q) = <<>> /\ q # <<>> /\ Head(q).status \in statuses
<1>1. Len(q) = 1
  BY DEF OneOrder
<1>2. q # <<>>
  BY <1>1, EmptySeq
<1>3. Tail(q) \in Seq(S) /\ Len(Tail(q)) = 0
  BY <1>1, <1>2, HeadTailProperties
<1>4. QED
  BY <1>2, <1>3, EmptySeq DEF OneOrder

\* The same for a post.
LEMMA OnePost ==
  /\ \A c : Append(<<>>, c) = <<c>>
  /\ \A c : <<c>> # <<>> /\ Head(<<c>>) = c /\ Tail(<<c>>) = <<>>
OBVIOUS

-----------------------------------------------------------------------------
(* Steps of one node.                                                      *)

\* What the coupling of node m is about.
Shared(m) == <<state[m], phase[m], dispq[m], posts[m], timingOffset[m],
               notifiedDispatch[m], stopSync[m]>>

\* A step of n has to show its own coupling only.
LEMMA OthersFit ==
  ASSUME Coupled, NEW n \in Node, NodeFits(n)',
         \A m \in Node \ {n} : UNCHANGED Shared(m)
  PROVE  Coupled'
BY DEF Coupled, NodeFits, Shared

\* The order that goes out on the way to syncing_stop.
ToldToStop == Msg(155, NoFile, TRUE)

\* The two ways a call can end: no row, or a row.
Stays(n, c, stop, orders) ==
  /\ MovesFor(state[n], get_event_by_status_code(c), c) = {}
  /\ state'[n] = state[n]
  /\ dispq'[n] = orders
  /\ stopSync'[n] = stop

Moving(n, c, stop, orders) ==
  /\ Goes(state[n], c, state'[n])
  /\ state'[n] # "syncing_stop" \/ stop =>
       dispq'[n] = orders /\ stopSync'[n] = stop
  /\ state'[n] = "syncing_stop" /\ ~stop =>
       dispq'[n] = Append(orders, ToldToStop) /\ stopSync'[n] = TRUE

OnlyAt(n) ==
  \A m \in Node \ {n} : /\ state'[m] = state[m]
                        /\ dispq'[m] = dispq[m]
                        /\ stopSync'[m] = stopSync[m]

\* What FsmContinue does, for the states and statuses that occur: it queues
\* nothing unheard, stays or goes, and on the way to syncing_stop it gives the
\* dispatcher a 155 unless the stop flag is set already.
LEMMA Continues ==
  ASSUME CInv, NEW n \in Node, NEW c, Live(state[n], c),
         NEW data \in Seq(File), NEW meta \in Seq(File),
         NEW stop \in BOOLEAN, NEW orders,
         FsmContinue(n, c, data, meta, stop, orders)
  PROVE  /\ hbq' \in [Node -> Seq(Spoken)]
         /\ OnlyAt(n)
         /\ Stays(n, c, stop, orders) \/ Moving(n, c, stop, orders)
<1> USE DEF OnlyAt, Stays, Moving, ToldToStop
<1> DEFINE moves == MovesFor(state[n], get_event_by_status_code(c), c)
<1>0. /\ state \in [Node -> State] /\ stopSync \in [Node -> BOOLEAN]
      /\ dispq \in [Node -> Seq(WellFormedOrder)]
      /\ hbq \in [Node -> Seq(Spoken)]
  BY Typed DEF CInv, NothingUnheard, BoxofficeTypeOK, WiresWellFormed
<1>1. CASE /\ moves = {}
           /\ UNCHANGED <<state, hbq>>
           /\ stopSync' = [stopSync EXCEPT ![n] = stop]
           /\ dispq' = [dispq EXCEPT ![n] = orders]
  BY <1>0, <1>1
<1>2. ASSUME NEW row \in moves, state' = [state EXCEPT ![n] = row[5]],
             UpdateHeartbeat(n, row[4], row[5], data, meta, stop, orders)
      PROVE  /\ hbq' \in [Node -> Seq(Spoken)]
             /\ OnlyAt(n)
             /\ Moving(n, c, stop, orders)
  <2>1. row \in Moves /\ row[1] = state[n] /\ row[3] = c
        /\ row[2] # "node_only_sends_heartbeats"
    BY NobodyOnlyBeats DEF MovesFor
  <2>2. Goes(state[n], c, row[5]) /\ row[4] \in Nat \ Unheard
    BY <2>1, MovesLead DEF Leads
  <2>3. state'[n] = row[5] /\ \A m \in Node \ {n} : state'[m] = state[m]
    BY <1>0, <1>2
  <2>4. "syncing_stop" \notin SendingMetadataStates
    BY DEF SendingMetadataStates
  <2>5. /\ row[5] # "syncing_stop" \/ stop =>
             /\ dispq' = [dispq EXCEPT ![n] = orders]
             /\ stopSync' = [stopSync EXCEPT ![n] = stop]
        /\ row[5] = "syncing_stop" /\ ~stop =>
             /\ dispq' = [dispq EXCEPT ![n] =
                            Append(orders, Msg(155, NoFile, TRUE))]
             /\ stopSync' = [stopSync EXCEPT ![n] = TRUE]
    BY <1>2, <2>4 DEF UpdateHeartbeat
  <2>6. hbq' \in [Node -> Seq(Spoken)]
    <3>1. /\ data # <<>> => Head(data) \in File
          /\ meta # <<>> => Head(meta) \in File
      BY HeadTailProperties
    <3>2. \E f \in File \cup {NoFile}, g \in BOOLEAN :
            hbq' = [hbq EXCEPT ![n] = Append(@, Msg(row[4], f, g))]
      BY <1>2, <3>1 DEF UpdateHeartbeat
    <3>3. PICK f \in File \cup {NoFile}, g \in BOOLEAN :
            hbq' = [hbq EXCEPT ![n] = Append(@, Msg(row[4], f, g))]
      BY <3>2, Zenon
    <3>4. Msg(row[4], f, g) \in Spoken
      BY <2>2 DEF Msg, Message, Spoken
    <3>5. Append(hbq[n], Msg(row[4], f, g)) \in Seq(Spoken)
      BY <1>0, <3>4, AppendTyped
    <3>6. QED
      BY <1>0, <3>3, <3>5
  <2>7. QED
    BY <1>0, <2>2, <2>3, <2>5, <2>6, ZenonT(40)
<1>3. QED
  BY <1>1, <1>2 DEF FsmContinue

\* Status c is no send order and no post, and no 155 that is passed on.
GivesNoOrder(n, c) ==
  c \notin {122, 132, 156, 177} /\ (c = 155 => stopSync[n])

\* A call that gives no order by itself and is not about a post keeps the
\* coupling.
LEMMA PlainFits ==
  ASSUME CInv, NEW n \in Node, NEW c, Live(state[n], c),
         NEW data \in Seq(File), NEW meta \in Seq(File),
         FsmContinue(n, c, data, meta, stopSync[n], dispq[n]),
         GivesNoOrder(n, c),
         UNCHANGED <<phase, posts, timingOffset>>,
         state[n] = "promoting_new_file_metadata" =>
           notifiedDispatch'[n] = notifiedDispatch[n],
         \A m \in Node \ {n} : notifiedDispatch'[m] = notifiedDispatch[m]
  PROVE  hbq' \in [Node -> Seq(Spoken)] /\ Coupled'
<1>1. NodeFits(n) /\ stopSync[n] \in BOOLEAN
  BY Typed DEF CInv, Coupled, BoxofficeTypeOK
<1>2. /\ hbq' \in [Node -> Seq(Spoken)]
      /\ OnlyAt(n)
      /\ \/ Stays(n, c, stopSync[n], dispq[n])
         \/ Moving(n, c, stopSync[n], dispq[n])
  <2>1. stopSync[n] \in BOOLEAN
    BY <1>1
  <2>2. QED
    BY <2>1, Continues
<1>3. \A m \in Node \ {n} : UNCHANGED Shared(m)
  BY <1>2 DEF OnlyAt, Shared
<1>4. ASSUME dispq[n] = <<>>
      PROVE  OneOrder(Append(dispq[n], ToldToStop), {155})
  BY <1>4, OnlyOrder DEF OneOrder, ToldToStop, Msg
<1>5. NodeFits(n)'
  <2>1. CASE Stays(n, c, stopSync[n], dispq[n])
    BY <1>1, <2>1 DEF Stays, NodeFits, Fits
  <2>2. CASE Moving(n, c, stopSync[n], dispq[n])
    <3>1. /\ Goes(state[n], c, state'[n])
          /\ c \notin {122, 132, 156, 177} /\ (c = 155 => stopSync[n])
          /\ state'[n] # "syncing_stop" =>
               dispq'[n] = dispq[n] /\ stopSync'[n] = stopSync[n]
      BY <2>2 DEF Moving, GivesNoOrder
    <3>2. CASE state[n] \in RestingStates
      BY <1>1, <3>1, <3>2
      DEF NodeFits, Fits, Goes, EngagedStates, RestingStates
    <3>3. CASE state'[n] # "syncing_stop" /\ state[n] \in EngagedStates
      BY <1>1, <3>1, <3>3
      DEF NodeFits, Fits, Goes, EngagedStates, RestingStates
    <3>4. CASE state'[n] = "syncing_stop" /\ state[n] \in EngagedStates
      <4>1. \/ state[n] = "sending_new_file"
            \/ state[n] = "broadcasting_all_received" /\ stopSync[n]
        BY <3>1, <3>4 DEF Goes, EngagedStates, RestingStates
      <4>2. /\ phase[n] \in {"sending", "stopping"}
            /\ dispq[n] = <<>> /\ posts[n] = <<>>
            /\ phase[n] = "sending" => timingOffset[n] = "relative"
        BY <1>1, <4>1 DEF NodeFits, Fits
      <4>3. stopSync'[n] /\ (dispq'[n] = <<>> \/ OneOrder(dispq'[n], {155}))
        BY <1>1, <1>4, <2>2, <3>4, <4>2 DEF Moving
      <4>4. QED
        BY <3>4, <4>2, <4>3 DEF NodeFits, Fits, EngagedStates, RestingStates
    <3>5. QED
      BY <1>1, <3>2, <3>3, <3>4 DEF NodeFits, Fits
  <2>3. QED
    BY <1>2, <2>1, <2>2
<1>6. QED
  BY <1>2, <1>3, <1>5, OthersFit DEF CInv

\* A message taken from a peer is one that is spoken.
LEMMA TakesSpoken ==
  ASSUME CInv, NEW n \in Node, NEW src \in Node, NEW statuses,
         Takes(n, src, statuses)
  PROVE  /\ net' \in [Node -> [Node -> Seq(Spoken)]]
         /\ Heard(n, src) \in Spoken
         /\ Heard(n, src).status \in statuses \ Unheard
<1>1. /\ net \in [Node -> [Node -> Seq(Spoken)]]
      /\ net[src][n] # <<>>
      /\ net' = [net EXCEPT ![src][n] = Tail(@)]
      /\ Head(net[src][n]).status \in statuses
  BY DEF CInv, NothingUnheard, Takes
<1>2. Head(net[src][n]) \in Spoken /\ Tail(net[src][n]) \in Seq(Spoken)
  BY <1>1, HeadTailProperties
<1>3. QED
  BY <1>1, <1>2 DEF Heard, Spoken

\* What is appended to the heartbeater's socket is spoken.
LEMMA SaysSpoken ==
  ASSUME CInv, NEW n \in Node, NEW c \in Nat \ Unheard
  PROVE  Append(hbq[n], Msg(c, NoFile, FALSE)) \in Seq(Spoken)
<1>1. Msg(c, NoFile, FALSE) \in Spoken
  BY DEF Msg, Message, Spoken
<1>2. hbq[n] \in Seq(Spoken)
  BY DEF CInv, NothingUnheard
<1>3. QED
  BY <1>1, <1>2, AppendTyped, Zenon

\* The order of case 130 and of case 155.
LEMMA OrderFits ==
  ASSUME NEW q, q = <<>>, NEW c, NEW f, NEW g
  PROVE  OneOrder(Append(q, Msg(c, f, g)), {c})
BY OnlyOrder DEF OneOrder, Msg

\* Every message of a peer keeps the coupling.
LEMMA PeerStepFits ==
  ASSUME CInv, NEW n \in Node, NEW src \in Peers(n), PeerStep(n, src)
  PROVE  NothingUnheard' /\ Coupled'
<1> DEFINE m == Heard(n, src)
<1> USE DEF Peers
<1>1. HearFrom(n, src) /\ UNCHANGED <<beat, phase, timingOffset>>
  BY DEF PeerStep, heartbeaterVars, dispatcherVars
<1>2. /\ WiresWellFormed /\ BoxofficeTypeOK /\ NodeFits(n) /\ Coupled
      /\ hbq \in [Node -> Seq(Spoken)] /\ beat \in [Node -> Spoken]
  BY Typed DEF CInv, Coupled, NothingUnheard
<1>3. /\ fileListData[n] \in Seq(File) /\ fileListMetadata[n] \in Seq(File)
      /\ state[n] \in EngagedStates \cup RestingStates
      /\ stopSync[n] \in BOOLEAN
  BY <1>2 DEF BoxofficeTypeOK, NodeFits, Fits
<1> SUFFICES /\ net' \in [Node -> [Node -> Seq(Spoken)]]
             /\ hbq' \in [Node -> Seq(Spoken)]
             /\ Coupled'
  BY <1>1, <1>2 DEF NothingUnheard
<1>4. ASSUME NEW c \in HeartbeatStatus \cup {113, 142, 162, 166, 172, 173, 174, 178},
             c \notin Unheard
      PROVE  Live(state[n], c)
  BY <1>3, <1>4 DEF Live, HeartbeatStatus
<1>5. ASSUME UNCHANGED <<state, dispq, posts, notifiedDispatch>>,
             UNCHANGED stopSync
      PROVE  Coupled'
  BY <1>1, <1>2, <1>5 DEF Coupled, NodeFits
<1>6. ASSUME NEW c \in HeartbeatStatus \cup {113, 142, 162, 166, 172, 173, 174, 178},
             c \notin Unheard, c = 155 => stopSync[n],
             PlainContinue(n, c), UNCHANGED <<posts, notifiedDispatch>>
      PROVE  hbq' \in [Node -> Seq(Spoken)] /\ Coupled'
  <2>1. Live(state[n], c) /\ c \notin {122, 132, 156, 177}
    BY <1>4, <1>6 DEF HeartbeatStatus
  <2>2. FsmContinue(n, c, fileListData[n], fileListMetadata[n], stopSync[n],
                    dispq[n])
    BY <1>6 DEF PlainContinue
  <2>3. /\ state[n] = "promoting_new_file_metadata" =>
             notifiedDispatch'[n] = notifiedDispatch[n]
        /\ \A k \in Node \ {n} : notifiedDispatch'[k] = notifiedDispatch[k]
        /\ UNCHANGED <<phase, posts, timingOffset>>
    BY <1>1, <1>6
  <2>4. GivesNoOrder(n, c)
    BY <1>6, <2>1 DEF GivesNoOrder
  <2>5. QED
    BY <1>3, <2>1, <2>2, <2>3, <2>4, PlainFits
<1>7. CASE IgnoreMessage(n, src)
  <2>1. net' \in [Node -> [Node -> Seq(Spoken)]]
    BY <1>7, TakesSpoken DEF IgnoreMessage
  <2>2. QED
    BY <1>2, <1>5, <1>7, <2>1 DEF IgnoreMessage, boVars
<1>8. CASE HearPlain(n, src)
  <2>1. /\ net' \in [Node -> [Node -> Seq(Spoken)]]
        /\ m.status \in HeartbeatStatus \ Unheard
    BY <1>8, TakesSpoken DEF HearPlain, Hears
  <2>2. /\ m.status = 155 => stopSync[n]
        /\ PlainContinue(n, m.status)
        /\ UNCHANGED <<posts, notifiedDispatch>>
    BY <1>8 DEF HearPlain
  <2>3. QED
    BY <1>6, <2>1, <2>2
<1>9. CASE Hear100(n, src)
  <2>1. /\ net' \in [Node -> [Node -> Seq(Spoken)]]
        /\ m.status = 100
    BY <1>9, TakesSpoken DEF Hear100, Hears
  <2>2. state[n] # "syncing_stop"
    <3>1. check_event(state[n], "received_heartbeat", 100)
      BY <1>9, <2>1, HeartbeatEvent DEF Hear100, Hears, Accepts, Heard
    <3>2. QED
      BY <3>1, SyncingStopDeaf
  <2>3. /\ stopSync' = [stopSync EXCEPT ![n] = FALSE]
        /\ UNCHANGED <<state, dispq, posts, notifiedDispatch, hbq>>
    BY <1>9 DEF Hear100
  <2>4. NodeFits(n)' /\ \A k \in Node \ {n} : UNCHANGED Shared(k)
    BY <1>1, <1>2, <2>2, <2>3 DEF NodeFits, Fits, Shared, BoxofficeTypeOK
  <2>5. QED
    BY <1>2, <2>1, <2>3, <2>4, OthersFit
<1>10. CASE HearReply(n, src)
  <2>1. /\ net' \in [Node -> [Node -> Seq(Spoken)]]
        /\ m.status \in ReplyStatus \ Unheard
    BY <1>10, TakesSpoken DEF HearReply, Hears
  <2>2. /\ m.status \in HeartbeatStatus /\ m.status # 155
        /\ PlainContinue(n, m.status)
        /\ UNCHANGED <<posts, notifiedDispatch>>
    BY <1>10, <2>1 DEF HearReply, ReplyStatus, HeartbeatStatus
  <2>3. QED
    BY <1>6, <2>1, <2>2
<1>11. CASE HearLastReply(n, src)
  <2> DEFINE c == StatusOnceAllReplied(n, m.status)
  <2>1. /\ net' \in [Node -> [Node -> Seq(Spoken)]]
        /\ m.status \in ReplyStatus \ Unheard
    BY <1>11, TakesSpoken DEF HearLastReply, Hears
  <2>2. c \in {122, 162, 166, 142, 174, 178, 177, 172}
    BY <2>1 DEF StatusOnceAllReplied, ReplyStatus
  <2>3. UNCHANGED <<posts, notifiedDispatch>>
    BY <1>11 DEF HearLastReply
  <2>4. CASE UNCHANGED <<state, stopSync, hbq, dispq>>
    BY <1>2, <1>5, <2>1, <2>3, <2>4
  <2>5. CASE /\ Accepts(n, c)
             /\ FsmContinue(n, c, fileListData[n], fileListMetadata[n],
                            stopSync[n], SendOrders(n, c))
    <3> HIDE DEF c
    <3>1. CASE c \notin {122, 177}
      <4>1. PlainContinue(n, c)
        BY <2>5, <3>1 DEF SendOrders, PlainContinue
      <4>2. c \notin Unheard /\ c # 155
        BY <2>2 DEF Unheard
      <4>3. QED
        BY <1>6, <2>1, <2>2, <2>3, <3>1, <4>1, <4>2
    <3>2. CASE c \in {122, 177}
      <4> DEFINE order == Msg(c, Head(fileListData[n]), TRUE)
      <4>1. Live(state[n], c)
        BY <1>3, <3>2, SMTT(30) DEF Live, Unheard
      <4>2. SendOrders(n, c) = Append(dispq[n], order)
        BY <3>2 DEF SendOrders
      <4>3. MovesFor(state[n], get_event_by_status_code(c), c) # {}
        BY <2>5, <3>2, OrdersMove DEF Accepts, check_event
      <4> HIDE DEF order
      <4>4. FsmContinue(n, c, fileListData[n], fileListMetadata[n], stopSync[n],
                        Append(dispq[n], order))
        BY <2>5, <4>2
      <4>5. /\ hbq' \in [Node -> Seq(Spoken)] /\ OnlyAt(n)
            /\ Moving(n, c, stopSync[n], Append(dispq[n], order))
        BY <1>3, <4>1, <4>3, <4>4, Continues DEF Stays
      <4>6. state[n] \in RestingStates /\ state'[n] = "sending_new_file_metadata"
        BY <3>2, <4>5 DEF Moving, Goes, RestingStates, EngagedStates
      <4>7. dispq[n] = <<>> /\ phase[n] = "idle" /\ posts[n] = <<>>
        BY <1>2, <4>6 DEF NodeFits, Fits
      <4>8. OneOrder(dispq'[n], {122, 177})
        <5>1. order.status \in {122, 177}
          BY <3>2 DEF order, Msg
        <5>2. dispq'[n] = Append(dispq[n], order)
          BY <4>5, <4>6 DEF Moving
        <5>3. QED
          BY <4>7, <5>1, <5>2, OnlyOrder DEF OneOrder
      <4>9. NodeFits(n)'
        BY <1>1, <1>2, <2>3, <4>6, <4>7, <4>8
        DEF NodeFits, Fits, EngagedStates, RestingStates
      <4>10. \A k \in Node \ {n} : UNCHANGED Shared(k)
        BY <1>1, <2>3, <4>5 DEF OnlyAt, Shared
      <4>11. QED
        BY <1>2, <2>1, <4>5, <4>9, <4>10, OthersFit
    <3>3. QED
      BY <3>1, <3>2
  <2>6. QED
    BY <1>11, <2>4, <2>5 DEF HearLastReply
<1>12. CASE HearAnnouncement(n, src)
  <2>1. /\ net' \in [Node -> [Node -> Seq(Spoken)]]
        /\ m.status = 120
    BY <1>12, TakesSpoken DEF HearAnnouncement, Hears, Unheard
  <2>2. state[n] # "promoting_new_file_metadata"
    <3>1. check_event(state[n], "received_heartbeat", 120)
      BY <1>12, <2>1, HeartbeatEvent DEF HearAnnouncement, Hears, Accepts, Heard
    <3>2. QED
      BY <3>1, PromotingDeaf
  <2>3. /\ notifiedDispatch' = [notifiedDispatch EXCEPT ![n] = FALSE]
        /\ FsmContinue(n, 120, fileListData[n], fileListMetadata[n],
                       stopSync[n], dispq[n])
        /\ UNCHANGED posts
    BY <1>12, <2>1 DEF HearAnnouncement, PlainContinue
  <2>4. \A k \in Node \ {n} : notifiedDispatch'[k] = notifiedDispatch[k]
    BY <1>2, <2>3 DEF BoxofficeTypeOK
  <2>5. Live(state[n], 120)
    BY <1>4 DEF HeartbeatStatus, Unheard
  <2>6. hbq' \in [Node -> Seq(Spoken)] /\ Coupled'
    <3> DEFINE c == 120
    <3>1. /\ GivesNoOrder(n, c)
          /\ Live(state[n], c)
          /\ FsmContinue(n, c, fileListData[n], fileListMetadata[n],
                         stopSync[n], dispq[n])
      BY <2>3, <2>5 DEF GivesNoOrder
    <3> HIDE DEF c
    <3>2. QED
      BY <1>1, <1>3, <2>2, <2>3, <2>4, <3>1, PlainFits
  <2>7. QED
    BY <2>1, <2>6
<1>13. CASE Hear160(n, src)
  <2>1. net' \in [Node -> [Node -> Seq(Spoken)]]
    BY <1>13, TakesSpoken DEF Hear160, Hears
  <2> DEFINE c == 160
  <2>2. /\ PlainContinue(n, c) /\ UNCHANGED <<posts, notifiedDispatch>>
        /\ c # 155 /\ c \notin Unheard
        /\ c \in HeartbeatStatus \cup {113, 142, 162, 166, 172, 173, 174, 178}
    BY <1>13 DEF Hear160, HeartbeatStatus, Unheard
  <2> HIDE DEF c
  <2>3. QED
    BY <1>6, <2>1, <2>2
<1>14. CASE Hear130(n, src)
  <2>1. net' \in [Node -> [Node -> Seq(Spoken)]]
    BY <1>14, TakesSpoken DEF Hear130, Promote, Hears
  <2>2. /\ state[n] = "promoting_new_file_metadata" /\ ~notifiedDispatch[n]
        /\ dispq' = [dispq EXCEPT ![n] = Append(@, Msg(130, NoFile, TRUE))]
        /\ notifiedDispatch' = [notifiedDispatch EXCEPT ![n] = TRUE]
        /\ UNCHANGED <<state, stopSync, hbq, posts>>
    BY <1>14 DEF Hear130, Promote, ArmsDispatcher
  <2>3. phase[n] = "idle" /\ dispq[n] = <<>> /\ posts[n] = <<>>
    BY <1>2, <2>2 DEF NodeFits, Fits
  <2>4. OneOrder(dispq'[n], {130})
    BY <1>2, <2>2, <2>3, OrderFits DEF WiresWellFormed
  <2>5. notifiedDispatch'[n] = TRUE
    BY <1>2, <2>2 DEF BoxofficeTypeOK
  <2>6. NodeFits(n)'
    BY <1>1, <1>2, <2>2, <2>3, <2>4, <2>5
    DEF NodeFits, Fits, EngagedStates, RestingStates
  <2>7. \A k \in Node \ {n} : UNCHANGED Shared(k)
    BY <1>1, <1>2, <2>2 DEF Shared, BoxofficeTypeOK, WiresWellFormed
  <2>8. QED
    BY <1>2, <2>1, <2>2, <2>6, <2>7, OthersFit
<1>15. CASE Hear170(n, src)
  <2>1. net' \in [Node -> [Node -> Seq(Spoken)]]
    BY <1>15, TakesSpoken DEF Hear170, Hears
  <2> DEFINE c == 173
  <2>2. /\ PlainContinue(n, c) /\ UNCHANGED <<posts, notifiedDispatch>>
        /\ c # 155 /\ c \notin Unheard
        /\ c \in HeartbeatStatus \cup {113, 142, 162, 166, 172, 173, 174, 178}
    BY <1>15 DEF Hear170, HeartbeatStatus, Unheard
  <2> HIDE DEF c
  <2>3. QED
    BY <1>6, <2>1, <2>2
<1>16. CASE Hear174(n, src)
  <2>1. net' \in [Node -> [Node -> Seq(Spoken)]]
    BY <1>16, TakesSpoken DEF Hear174, Hears
  <2>2. /\ state[n] = "receiving_file_metadata_change_with_more"
        /\ notifiedDispatch' = [notifiedDispatch EXCEPT ![n] = FALSE]
        /\ state' = [state EXCEPT ![n] = "broadcasting_all_metadata_received"]
        /\ hbq' = [hbq EXCEPT ![n] = Append(@, Msg(141, NoFile, FALSE))]
        /\ UNCHANGED <<stopSync, dispq, posts>>
    BY <1>16 DEF Hear174
  <2>3. hbq' \in [Node -> Seq(Spoken)]
    <3>1. 141 \in Nat \ Unheard
      BY DEF Unheard
    <3>2. Append(hbq[n], Msg(141, NoFile, FALSE)) \in Seq(Spoken)
      BY <3>1, SaysSpoken, Zenon
    <3>3. QED
      BY <1>2, <2>2, <3>2
  <2>4. /\ state[n] \in RestingStates
        /\ state'[n] \in RestingStates \ EngagedStates
        /\ \A k \in Node \ {n} : UNCHANGED Shared(k)
    BY <1>1, <1>2, <2>2
    DEF Shared, BoxofficeTypeOK, RestingStates, EngagedStates, Unentered,
        MoreDataStates, State, ReceivingMetadataStates, BroadcastingStates
  <2>5. NodeFits(n)'
    BY <1>1, <1>2, <2>2, <2>4 DEF NodeFits, Fits, EngagedStates
  <2>6. QED
    BY <1>2, <2>1, <2>3, <2>4, <2>5, OthersFit
<1>17. CASE Hear150InReady(n, src)
  <2>1. net' \in [Node -> [Node -> Seq(Spoken)]]
    BY <1>17, TakesSpoken DEF Hear150InReady, Hears
  <2>2. hbq' \in [Node -> Seq(Spoken)]
    <3>1. 100 \in Nat \ Unheard
      BY DEF Unheard
    <3>2. Append(hbq[n], Msg(100, NoFile, FALSE)) \in Seq(Spoken)
      BY <3>1, SaysSpoken, Zenon
    <3>3. QED
      BY <1>2, <1>17, <3>2 DEF Hear150InReady
  <2>3. QED
    BY <1>5, <1>17, <2>1, <2>2 DEF Hear150InReady, boVars
<1>18. CASE Hear155(n, src)
  <2>1. net' \in [Node -> [Node -> Seq(Spoken)]] /\ m.status = 155
    BY <1>18, TakesSpoken DEF Hear155, Hears
  <2> DEFINE order == Msg(155, NoFile, m.stamp)
             c     == 155
             stop  == TRUE
  <2>2. /\ ~stopSync[n] /\ UNCHANGED <<posts, notifiedDispatch>>
        /\ check_event(state[n], "received_heartbeat", 155)
        /\ FsmContinue(n, c, fileListData[n], fileListMetadata[n], stop,
                       Append(dispq[n], order))
    <3>1. check_event(state[n], "received_heartbeat", 155)
      BY <1>18, <2>1, HeartbeatEvent DEF Hear155, Hears, Accepts, Heard
    <3>2. QED
      BY <1>18, <3>1 DEF Hear155, StopOrder
  <2>3. state[n] # "syncing_stop"
    BY <1>2, <2>2 DEF NodeFits, Fits
  <2>4. MovesFor(state[n], get_event_by_status_code(c), c) # {}
    BY <2>2, <2>3, OrdersMove, HeartbeatEvent DEF check_event
  <2>5. Live(state[n], c) /\ stop \in BOOLEAN
    BY <1>4 DEF HeartbeatStatus, Unheard
  <2>6. dispq[n] = <<>> => OneOrder(Append(dispq[n], order), {155})
    BY OrderFits
  <2> HIDE DEF order, c, stop
  <2>7. /\ hbq' \in [Node -> Seq(Spoken)] /\ OnlyAt(n)
        /\ Moving(n, c, stop, Append(dispq[n], order))
    BY <1>3, <2>2, <2>4, <2>5, Continues DEF Stays
  <2>8. /\ state[n] = "broadcasting_all_received"
        /\ state'[n] = "syncing_stop"
        /\ dispq'[n] = Append(dispq[n], order) /\ stopSync'[n] = TRUE
    BY <2>7 DEF Moving, Goes, c, stop
  <2>9. /\ phase[n] = "stopping" /\ dispq[n] = <<>> /\ posts[n] = <<>>
    BY <1>2, <2>8 DEF NodeFits, Fits
  <2>10. NodeFits(n)'
    BY <1>1, <2>2, <2>6, <2>8, <2>9
    DEF NodeFits, Fits, EngagedStates, RestingStates
  <2>11. \A k \in Node \ {n} : UNCHANGED Shared(k)
    BY <1>1, <2>2, <2>7 DEF OnlyAt, Shared
  <2>12. QED
    BY <1>2, <2>1, <2>7, <2>10, <2>11, OthersFit
<1>19. CASE HearData(n, src)
  <2>0. PICK first \in {"modify", "attrib"}, second \in {"modify", "attrib"} :
          StoreData(n, src, first, second)
    BY <1>19 DEF HearData
  <2>1. net' \in [Node -> [Node -> Seq(Spoken)]]
    BY <2>0, TakesSpoken DEF StoreData, Hears
  <2> DEFINE c == 113
  <2>2. /\ PlainContinue(n, c) /\ UNCHANGED <<posts, notifiedDispatch>>
        /\ c # 155 /\ c \notin Unheard
        /\ c \in HeartbeatStatus \cup {113, 142, 162, 166, 172, 173, 174, 178}
    BY <2>0 DEF StoreData, HeartbeatStatus, Unheard
  <2> HIDE DEF c
  <2>3. QED
    BY <1>6, <2>1, <2>2
<1>20. QED
  BY <1>1, <1>7, <1>8, <1>9, <1>10, <1>11, <1>12, <1>13, <1>14, <1>15, <1>16,
     <1>17, <1>18, <1>19 DEF HearFrom

\* So does a 132 or 156: it is the only one, and where it is not expected,
\* in promoting_new_file_metadata_with_more, it is forgotten.
LEMMA PostStepFits ==
  ASSUME CInv, NEW n \in Node, PostStep(n)
  PROVE  NothingUnheard' /\ Coupled'
<1> DEFINE c == Head(posts[n])
<1>1. /\ posts[n] # <<>> /\ posts' = [posts EXCEPT ![n] = Tail(@)]
      /\ PlainContinue(n, c)
      /\ UNCHANGED <<net, beat, phase, timingOffset, notifiedDispatch>>
  BY DEF PostStep, HearDispatcher, heartbeaterVars, dispatcherVars
<1>0. posts \in [Node -> Seq({132, 156})]
  BY Typed DEF CInv, WiresWellFormed
<1>2. /\ WiresWellFormed /\ BoxofficeTypeOK /\ NodeFits(n) /\ Coupled
  BY Typed DEF CInv, Coupled
<1>3. /\ fileListData[n] \in Seq(File) /\ fileListMetadata[n] \in Seq(File)
      /\ stopSync[n] \in BOOLEAN
  BY <1>2 DEF BoxofficeTypeOK
<1>4. /\ posts[n] = <<132>> \/ posts[n] = <<156>>
      /\ state[n] \in EngagedStates
  <2>1. state[n] \in EngagedStates
    BY <1>1, <1>2 DEF NodeFits, Fits
  <2>2. QED
    BY <1>1, <1>2, <2>1 DEF NodeFits, Fits, EngagedStates
<1>5. c \in {132, 156} /\ posts[n] = <<c>> /\ posts'[n] = <<>>
  <2>1. c \in {132, 156} /\ posts[n] = <<c>> /\ Tail(posts[n]) = <<>>
    <3>1. CASE posts[n] = <<132>>
      BY <3>1
    <3>2. CASE posts[n] = <<156>>
      BY <3>2
    <3>3. QED
      BY <1>4, <3>1, <3>2
  <2>2. posts'[n] = Tail(posts[n])
    BY <1>0, <1>1
  <2>3. QED
    BY <2>1, <2>2
<1>6. \A k \in Node \ {n} : posts'[k] = posts[k]
  BY <1>0, <1>1
<1> HIDE DEF c
<1>7. Live(state[n], c)
  BY <1>4, <1>5 DEF Live, Unheard, EngagedStates
<1>8. FsmContinue(n, c, fileListData[n], fileListMetadata[n], stopSync[n],
                  dispq[n])
  BY <1>1 DEF PlainContinue
<1>9. /\ hbq' \in [Node -> Seq(Spoken)] /\ OnlyAt(n)
      /\ \/ Stays(n, c, stopSync[n], dispq[n])
         \/ Moving(n, c, stopSync[n], dispq[n])
  BY <1>3, <1>7, <1>8, Continues
<1>10. \A k \in Node \ {n} : UNCHANGED Shared(k)
  BY <1>1, <1>6, <1>9 DEF OnlyAt, Shared
<1>11. NodeFits(n)'
  <2>1. CASE Stays(n, c, stopSync[n], dispq[n])
    <3>1. state[n] = "promoting_new_file_metadata_with_more"
      BY <1>2, <1>4, <1>5, <2>1, PostsMove DEF Stays, NodeFits, Fits, EngagedStates
    <3>2. QED
      BY <1>1, <1>2, <1>5, <2>1, <3>1
      DEF Stays, NodeFits, Fits, EngagedStates, RestingStates
  <2>2. CASE Moving(n, c, stopSync[n], dispq[n])
    <3>1. /\ Goes(state[n], c, state'[n])
          /\ state'[n] # "syncing_stop" =>
               dispq'[n] = dispq[n] /\ stopSync'[n] = stopSync[n]
      BY <2>2 DEF Moving
    <3>2. CASE c = 132
      <4>1. \/ /\ state[n] = "sending_new_file_metadata"
               /\ state'[n] = "sending_new_file"
            \/ /\ state[n] = "promoting_new_file_metadata"
               /\ state'[n] = "sending_fake_file"
        BY <1>4, <3>1, <3>2 DEF Goes, EngagedStates, RestingStates
      <4>2. QED
        BY <1>1, <1>2, <1>5, <3>1, <4>1
        DEF NodeFits, Fits, EngagedStates, RestingStates
    <3>3. CASE c = 156
      <4>1. state[n] = "syncing_stop" /\ state'[n] = "ready"
        BY <1>4, <3>1, <3>3 DEF Goes, EngagedStates, RestingStates
      <4>2. "ready" \in RestingStates
        BY DEF RestingStates, EngagedStates, Unentered, MoreDataStates, State
      <4>3. QED
        BY <1>1, <1>2, <1>5, <3>1, <4>1, <4>2
        DEF NodeFits, Fits
    <3>4. QED
      BY <1>5, <3>2, <3>3
  <2>3. QED
    BY <1>9, <2>1, <2>2
<1>12. QED
  BY <1>1, <1>2, <1>9, <1>10, <1>11, OthersFit DEF CInv, NothingUnheard

\* And a change the box reports.
LEMMA BoxStepFits ==
  ASSUME CInv, NEW n \in Node, BoxStep(n)
  PROVE  NothingUnheard' /\ Coupled'
<1>0. PICK status \in LocalStatus : HearLocal(n, status)
  BY DEF BoxStep
<1>1. UNCHANGED <<beat, phase, timingOffset>>
  BY DEF BoxStep, heartbeaterVars, dispatcherVars
<1>2. /\ WiresWellFormed /\ BoxofficeTypeOK /\ NodeFits(n) /\ Coupled
      /\ hbq \in [Node -> Seq(Spoken)]
  BY Typed DEF CInv, Coupled, NothingUnheard
<1>3. /\ fileListData[n] \in Seq(File) /\ fileListMetadata[n] \in Seq(File)
      /\ state[n] \in EngagedStates \cup RestingStates
  BY <1>2 DEF BoxofficeTypeOK, NodeFits, Fits
<1>4. TakesLocal(n, status)
  BY <1>0 DEF HearLocal, IgnoreLocal, LocalPathTooLong, LocalFileMissing,
              LocalReportedTwice, LocalQueued
<1>5. UNCHANGED <<notifiedDispatch, posts, net>>
  BY <1>4 DEF TakesLocal
<1> SUFFICES hbq' \in [Node -> Seq(Spoken)] /\ Coupled'
  BY <1>1, <1>5 DEF CInv, NothingUnheard
<1>6. CASE UNCHANGED <<state, stopSync, hbq, dispq>>
  BY <1>1, <1>2, <1>5, <1>6 DEF Coupled, NodeFits
<1>7. ASSUME NEW c, Live(state[n], c), GivesNoOrder(n, c),
             NEW data \in Seq(File), NEW meta \in Seq(File),
             FsmContinue(n, c, data, meta, stopSync[n], dispq[n])
      PROVE  hbq' \in [Node -> Seq(Spoken)] /\ Coupled'
  <2>1. /\ state[n] = "promoting_new_file_metadata" =>
             notifiedDispatch'[n] = notifiedDispatch[n]
        /\ \A k \in Node \ {n} : notifiedDispatch'[k] = notifiedDispatch[k]
        /\ UNCHANGED <<phase, posts, timingOffset>>
    BY <1>1, <1>5
  <2>2. QED
    BY <1>7, <2>1, PlainFits
<1>8. CASE LocalReportedTwice(n, status)
  <2> DEFINE c == 301
  <2>1. /\ FsmContinue(n, c, fileListData[n], fileListMetadata[n], stopSync[n],
                       dispq[n])
        /\ Live(state[n], c) /\ GivesNoOrder(n, c)
    BY <1>3, <1>8
    DEF LocalReportedTwice, PlainContinue, Live, GivesNoOrder, Unheard
  <2> HIDE DEF c
  <2>2. QED
    BY <1>3, <1>7, <2>1
<1>9. CASE LocalQueued(n, status)
  <2> DEFINE f    == NewLocalFile(n, LocalEvent(n))
             data == IF status = 300 THEN Append(fileListData[n], f)
                                     ELSE fileListData[n]
             meta == IF status = 320 THEN Append(fileListMetadata[n], f)
                                     ELSE fileListMetadata[n]
  <2>1. f \in File
    <3>1. LocalEvent(n) \in FileEvent
      BY <1>4, TakesLocalTyped DEF CInv
    <3>2. /\ LocalEvent(n).path \in Path
          /\ disk[n][LocalEvent(n).path] \in Copy
      BY <1>2, <3>1 DEF WiresWellFormed, FileEvent
    <3>3. QED
      BY <3>1, <3>2 DEF NewLocalFile, File, Copy
  <2> HIDE DEF f
  <2>2. data \in Seq(File) /\ meta \in Seq(File)
    BY <1>3, <2>1, AppendProperties
  <2>3. FsmContinue(n, status, data, meta, stopSync[n], dispq[n])
    BY <1>9 DEF LocalQueued, f
  <2> HIDE DEF data, meta
  <2>4. Live(state[n], status) /\ GivesNoOrder(n, status)
    <3>1. state[n] # "announcing_new_file"
      BY <1>9 DEF LocalQueued
    <3>2. status \in {300, 320, 0}
      BY DEF LocalStatus, NoStatus
    <3>3. /\ status \notin Unheard \cup {126, 136, 146, 304, 324, 500}
          /\ status \notin {122, 132, 155, 156, 177}
      BY <3>2 DEF Unheard
    <3>4. Live(state[n], status)
      <4>1. status # 132
        BY <3>3
      <4>2. QED
        BY <1>3, <3>1, <3>3, <4>1 DEF Live
    <3>5. GivesNoOrder(n, status)
      BY <3>3 DEF GivesNoOrder
    <3>6. QED
      BY <3>4, <3>5
  <2>5. QED
    BY <1>7, <2>2, <2>3, <2>4
<1>10. QED
  BY <1>0, <1>6, <1>8, <1>9
  DEF HearLocal, IgnoreLocal, LocalPathTooLong, LocalFileMissing

-----------------------------------------------------------------------------
(* The other threads.                                                      *)

\* Publishing what is spoken keeps the links so.
LEMMA PublishSpoken ==
  ASSUME CInv, NEW n \in Node, NEW m \in Spoken, Publish(n, m)
  PROVE  net' \in [Node -> [Node -> Seq(Spoken)]]
<1>1. net \in [Node -> [Node -> Seq(Spoken)]]
  BY DEF CInv, NothingUnheard
<1>2. ASSUME NEW s \in Node, NEW d \in Node
      PROVE  Append(net[s][d], m) \in Seq(Spoken)
  BY <1>1, AppendProperties
<1>3. QED
  BY <1>1, <1>2 DEF Publish

\* Every step of a dispatcher keeps the coupling.
LEMMA DispatcherStepFits ==
  ASSUME CInv, NEW n \in Node, DispatcherStep(n)
  PROVE  NothingUnheard' /\ Coupled'
<1>1. UNCHANGED <<state, notifiedDispatch, stopSync, beat>>
  BY DEF DispatcherStep, boVars, heartbeaterVars
<1>2. /\ WiresWellFormed /\ DispatcherTypeOK /\ NodeFits(n) /\ Coupled
      /\ NothingUnheard
  BY Typed DEF CInv, Coupled
<1>3. /\ phase \in [Node -> Phase]
      /\ timingOffset \in [Node -> {"relative", "deadline", "blank"}]
      /\ dispq \in [Node -> Seq(WellFormedOrder)]
      /\ posts \in [Node -> Seq({132, 156})]
  BY <1>2 DEF DispatcherTypeOK, WiresWellFormed
<1>4. ASSUME OneOrder(dispq[n], {122, 177}) \/ OneOrder(dispq[n], {130})
               \/ OneOrder(dispq[n], {155})
      PROVE  dispq[n] # <<>> /\ Tail(dispq[n]) = <<>>
  <2>1. dispq[n] \in Seq(WellFormedOrder)
    BY <1>3
  <2>2. QED
    BY <1>4, <2>1, LastOrder
<1>5. CASE TakeOrder(n)
  <2> DEFINE order == Head(dispq[n])
  <2>1. /\ phase[n] = "idle" /\ dispq[n] # <<>>
        /\ dispq' = [dispq EXCEPT ![n] = Tail(@)]
        /\ UNCHANGED <<posts, hbq, net>>
        /\ \/ /\ order.status \in {122, 177}
              /\ phase' = [phase EXCEPT ![n] = "armed_send"]
              /\ timingOffset' = [timingOffset EXCEPT ![n] = "relative"]
           \/ /\ order.status = 130
              /\ phase' = [phase EXCEPT ![n] = "armed_fake"]
              /\ timingOffset' = [timingOffset EXCEPT ![n] = "relative"]
           \/ /\ order.status \notin {122, 177, 130}
              /\ UNCHANGED <<phase, timingOffset>>
    BY <1>5 DEF TakeOrder
  <2>2. /\ posts[n] = <<>>
        /\ \/ /\ state[n] = "sending_new_file_metadata"
              /\ OneOrder(dispq[n], {122, 177})
           \/ /\ state[n] \in {"promoting_new_file_metadata",
                               "promoting_new_file_metadata_with_more"}
              /\ OneOrder(dispq[n], {130})
              /\ state[n] = "promoting_new_file_metadata" => notifiedDispatch[n]
    <3>1. state[n] \in EngagedStates
      BY <1>2, <2>1 DEF NodeFits, Fits
    <3>2. QED
      BY <1>2, <2>1, <3>1 DEF NodeFits, Fits, EngagedStates
  <2>3. dispq'[n] = <<>>
    BY <1>3, <1>4, <2>1, <2>2
  <2>4. \A k \in Node \ {n} : UNCHANGED Shared(k)
    BY <1>1, <1>3, <2>1 DEF Shared
  <2>5. NodeFits(n)'
    <3>1. CASE state[n] = "sending_new_file_metadata"
      <4>1. order.status \in {122, 177}
        BY <2>2, <3>1 DEF OneOrder
      <4>2. phase'[n] = "armed_send" /\ timingOffset'[n] = "relative"
        BY <1>3, <2>1, <4>1
      <4>3. QED
        BY <1>1, <2>1, <2>2, <2>3, <3>1, <4>2
        DEF NodeFits, Fits, EngagedStates, RestingStates
    <3>2. CASE state[n] # "sending_new_file_metadata"
      <4>1. order.status = 130
        BY <2>2, <3>2 DEF OneOrder
      <4>2. phase'[n] = "armed_fake" /\ timingOffset'[n] = "relative"
        BY <1>3, <2>1, <4>1
      <4>3. QED
        BY <1>1, <2>1, <2>2, <2>3, <3>2, <4>2
        DEF NodeFits, Fits, EngagedStates, RestingStates
    <3>3. QED
      BY <3>1, <3>2
  <2>6. QED
    BY <1>1, <1>2, <2>1, <2>4, <2>5, OthersFit DEF NothingUnheard
<1>6. CASE OffsetElapsed(n)
  <2>1. /\ phase[n] \in {"armed_send", "armed_fake"}
        /\ posts' = [posts EXCEPT ![n] = Append(@, 132)]
        /\ phase' = [phase EXCEPT ![n] =
                       IF @ = "armed_send" THEN "sending" ELSE "stopping"]
        /\ UNCHANGED <<timingOffset, hbq, dispq, net>>
    BY <1>6 DEF OffsetElapsed
  <2>2. \A k \in Node \ {n} : UNCHANGED Shared(k)
    BY <1>1, <1>3, <2>1 DEF Shared
  <2>3. /\ posts[n] = <<>> /\ dispq[n] = <<>> /\ timingOffset[n] = "relative"
        /\ \/ /\ state[n] = "sending_new_file_metadata"
              /\ phase[n] = "armed_send"
           \/ /\ state[n] \in {"promoting_new_file_metadata",
                               "promoting_new_file_metadata_with_more"}
              /\ phase[n] = "armed_fake"
              /\ state[n] = "promoting_new_file_metadata" => notifiedDispatch[n]
    <3>1. state[n] \in EngagedStates
      BY <1>2, <2>1 DEF NodeFits, Fits
    <3>2. QED
      BY <1>2, <2>1, <3>1 DEF NodeFits, Fits, EngagedStates
  <2>4. posts'[n] = <<132>>
    <3>1. posts'[n] = Append(posts[n], 132)
      BY <1>3, <2>1
    <3>2. QED
      BY <2>3, <3>1, OnePost
  <2>5. phase'[n] = IF phase[n] = "armed_send" THEN "sending" ELSE "stopping"
    BY <1>3, <2>1
  <2>6. NodeFits(n)'
    BY <1>1, <2>1, <2>3, <2>4, <2>5
    DEF NodeFits, Fits, EngagedStates, RestingStates
  <2>7. QED
    BY <1>1, <1>2, <2>1, <2>2, <2>6, OthersFit DEF NothingUnheard
<1>7. CASE SendDataAborts(n)
  BY <1>1, <1>2, <1>7 DEF SendDataAborts, Coupled, NodeFits, NothingUnheard
<1>8. CASE SendData(n) \/ SendDataSwallowed(n)
  <2>1. /\ phase[n] = "sending"
        /\ phase' = [phase EXCEPT ![n] = "stopping"]
        /\ UNCHANGED <<timingOffset, hbq, dispq, posts>>
    BY <1>8 DEF SendData, SendDataSwallowed
  <2>2. /\ \A k \in Node \ {n} : UNCHANGED Shared(k)
        /\ phase'[n] = "stopping"
    BY <1>1, <1>3, <2>1 DEF Shared
  <2>3. /\ timingOffset[n] = "relative"
        /\ state[n] \in EngagedStates
    BY <1>2, <2>1 DEF NodeFits, Fits
  <2>4. NodeFits(n)'
    <3>1. state[n] \in {"sending_new_file_metadata", "sending_new_file",
                        "syncing_stop"}
      BY <1>2, <2>1, <2>3 DEF NodeFits, Fits, EngagedStates
    <3>2. QED
      BY <1>1, <1>2, <2>1, <2>2, <2>3, <3>1
      DEF NodeFits, Fits, EngagedStates, RestingStates
  <2>5. net' \in [Node -> [Node -> Seq(Spoken)]]
    <3>1. CASE SendDataSwallowed(n)
      BY <1>2, <3>1 DEF SendDataSwallowed, NothingUnheard
    <3>2. CASE SendData(n)
      <4> DEFINE v == disk[n][job[n].path].data
                 package == Msg(200, [job[n] EXCEPT !.version = v], FALSE)
      <4>1. job[n] \in File
        BY <1>2, <2>1 DEF DispatcherTypeOK, CInv, IInv, PayloadsPresent
      <4>2. v \in Version
        BY <1>2, <4>1 DEF WiresWellFormed, File, Copy
      <4> HIDE DEF v
      <4>3. package \in Spoken
        BY <4>1, <4>2 DEF Msg, Message, Spoken, Unheard, File
      <4>4. Publish(n, package)
        BY <3>2 DEF SendData, v
      <4> HIDE DEF package
      <4>5. QED
        BY <4>3, <4>4, PublishSpoken
    <3>3. QED
      BY <1>8, <3>1, <3>2
  <2>6. QED
    BY <1>1, <1>2, <2>1, <2>2, <2>4, <2>5, OthersFit DEF NothingUnheard
<1>9. CASE StopReceives(n)
  <2>1. /\ phase[n] = "stopping" /\ dispq[n] # <<>>
        /\ dispq' = [dispq EXCEPT ![n] = Tail(@)]
        /\ UNCHANGED <<phase, posts, hbq, net>>
        /\ \/ UNCHANGED timingOffset
           \/ \E t \in {"deadline", "blank"} :
                timingOffset' = [timingOffset EXCEPT ![n] = t]
    BY <1>9 DEF StopReceives
  <2>2. /\ state[n] = "syncing_stop" /\ stopSync[n]
        /\ posts[n] = <<>> /\ OneOrder(dispq[n], {155})
    <3>1. state[n] \in EngagedStates
      BY <1>2, <2>1 DEF NodeFits, Fits
    <3>2. QED
      BY <1>2, <2>1, <3>1 DEF NodeFits, Fits, EngagedStates
  <2>3. dispq'[n] = <<>>
    BY <1>3, <1>4, <2>1, <2>2
  <2>4. \A k \in Node \ {n} : UNCHANGED Shared(k)
    BY <1>1, <1>3, <2>1 DEF Shared
  <2>5. NodeFits(n)'
    BY <1>1, <2>1, <2>2, <2>3
    DEF NodeFits, Fits, EngagedStates, RestingStates
  <2>6. QED
    BY <1>1, <1>2, <2>1, <2>4, <2>5, OthersFit DEF NothingUnheard
<1>10. CASE StopElapsed(n)
  <2>1. /\ phase[n] = "stopping" /\ dispq[n] = <<>>
        /\ timingOffset[n] = "deadline"
        /\ posts' = [posts EXCEPT ![n] = Append(@, 156)]
        /\ phase' = [phase EXCEPT ![n] = "idle"]
        /\ UNCHANGED <<timingOffset, hbq, dispq, net>>
    BY <1>10 DEF StopElapsed
  <2>2. state[n] = "syncing_stop" /\ stopSync[n] /\ posts[n] = <<>>
    BY <1>2, <2>1 DEF NodeFits, Fits
  <2>3. posts'[n] = <<156>> /\ phase'[n] = "idle"
    <3>1. posts'[n] = Append(posts[n], 156) /\ phase'[n] = "idle"
      BY <1>3, <2>1
    <3>2. QED
      BY <2>2, <3>1, OnePost
  <2>4. \A k \in Node \ {n} : UNCHANGED Shared(k)
    BY <1>1, <1>3, <2>1 DEF Shared
  <2>5. NodeFits(n)'
    BY <1>1, <2>1, <2>2, <2>3
    DEF NodeFits, Fits, EngagedStates, RestingStates
  <2>6. QED
    BY <1>1, <1>2, <2>1, <2>4, <2>5, OthersFit DEF NothingUnheard
<1>11. QED
  BY <1>5, <1>6, <1>7, <1>8, <1>9, <1>10 DEF DispatcherStep

\* A heartbeat repeats what the boxoffice said.
LEMMA HeartbeaterStepFits ==
  ASSUME CInv, NEW n \in Node, HeartbeaterStep(n)
  PROVE  NothingUnheard' /\ Coupled'
<1>1. /\ Publish(n, beat[n]) /\ PopUpdate(n)
      /\ UNCHANGED <<dispq, posts, state, notifiedDispatch, stopSync, phase,
                     timingOffset>>
  BY DEF HeartbeaterStep, Beat, boVars, dispatcherVars
<1>2. NothingUnheard /\ Coupled
  BY DEF CInv
<1>3. Coupled'
  BY <1>1, <1>2 DEF Coupled, NodeFits
<1>4. beat[n] \in Spoken
  BY <1>2 DEF NothingUnheard
<1>5. net' \in [Node -> [Node -> Seq(Spoken)]]
  BY <1>1, <1>4, PublishSpoken
<1>6. hbq' \in [Node -> Seq(Spoken)] /\ beat' \in [Node -> Spoken]
  <2>1. hbq[n] # <<>> => Head(hbq[n]) \in Spoken /\ Tail(hbq[n]) \in Seq(Spoken)
    BY <1>2, HeadTailProperties DEF NothingUnheard
  <2>2. QED
    BY <1>1, <1>2, <2>1 DEF PopUpdate, NothingUnheard
<1>7. QED
  BY <1>3, <1>5, <1>6 DEF NothingUnheard

-----------------------------------------------------------------------------
(* The theorems.                                                           *)

\* The coupling holds at first.
LEMMA InitFits == Init => CInv
<1> SUFFICES ASSUME Init PROVE CInv
  OBVIOUS
<1>1. Msg(100, NoFile, FALSE) \in Spoken
  BY DEF Msg, Message, Spoken, Unheard
<1>2. NothingUnheard
  BY <1>1, EmptySeq DEF Init, WiresInit, HeartbeaterInit, NothingUnheard
<1>3. "ready" \in RestingStates
  BY DEF RestingStates, EngagedStates, Unentered, MoreDataStates, State
<1>4. Coupled
  BY <1>3 DEF Init, WiresInit, BoxofficeInit, DispatcherInit, Coupled, NodeFits,
              Fits
<1>5. QED
  BY <1>2, <1>4, InitEstablishes DEF CInv

\* Every step, or none, keeps it.
LEMMA NextFits == CInv /\ [Next]_vars => CInv'
<1> SUFFICES ASSUME CInv, [Next]_vars PROVE NothingUnheard' /\ Coupled'
  BY NextKeeps DEF CInv
<1>1. ASSUME NEW n \in Node, UserStep(n)
      PROVE  NothingUnheard' /\ Coupled'
  BY <1>1 DEF UserStep, UserChange, boVars, heartbeaterVars, dispatcherVars,
              CInv, NothingUnheard, Coupled, NodeFits
<1>2. CASE UNCHANGED vars
  BY <1>2 DEF vars, wireVars, boVars, heartbeaterVars, dispatcherVars,
              CInv, NothingUnheard, Coupled, NodeFits
<1>3. \A n \in Writers : n \in Node
  BY FlockAssumption
<1>4. QED
  BY <1>1, <1>2, <1>3, PeerStepFits, PostStepFits, BoxStepFits,
     DispatcherStepFits, HeartbeaterStepFits DEF Next

\* So it holds always.
LEMMA CouplingInvariance == Spec => []CInv
BY InitFits, NextFits, PTL DEF Spec

\* In every flock, whatever the timing, no dispatcher throws an order of its
\* boxoffice away: in synchronizingStop it receives only a 155, between two
\* orders only a send or fake order (dispatcher.cpp:85-221, 230-267).
THEOREM OrdersCorrect == Spec => []OrdersFit
<1>1. CInv => OrdersFit
  <2> SUFFICES ASSUME CInv, NEW n \in Node, dispq[n] # <<>>
               PROVE  /\ phase[n] = "stopping" => Head(dispq[n]).status = 155
                      /\ phase[n] = "idle" =>
                           Head(dispq[n]).status \in {122, 130, 177}
    BY DEF OrdersFit
  <2>1. NodeFits(n)
    BY DEF CInv, Coupled
  <2>2. state[n] \in EngagedStates
    BY <2>1 DEF NodeFits, Fits
  <2>3. QED
    BY <2>1, <2>2 DEF NodeFits, Fits, EngagedStates, OneOrder
<1>2. QED
  BY <1>1, CouplingInvariance, PTL

\* Every 132 and 156 a dispatcher posts is acted on, unless a 134 has taken
\* its boxoffice to promoting_new_file_metadata_with_more meanwhile, whose row
\* waits for a 136 nobody posts (flock_fsm.h; dispatcher.cpp:104, 209, 271).
THEOREM PostsCorrect ==
  Spec => []((\A n \in Node :
                state[n] # "promoting_new_file_metadata_with_more")
             => PostsHandled)
<1>1. CInv => ((\A n \in Node :
                  state[n] # "promoting_new_file_metadata_with_more")
               => PostsHandled)
  <2> SUFFICES ASSUME CInv, NEW n \in Node, posts[n] # <<>>,
                      state[n] # "promoting_new_file_metadata_with_more"
               PROVE  Accepts(n, Head(posts[n]))
    BY DEF PostsHandled
  <2>1. NodeFits(n)
    BY DEF CInv, Coupled
  <2>2. state[n] \in EngagedStates
    BY <2>1 DEF NodeFits, Fits
  <2>3. \/ /\ state[n] \in {"sending_new_file_metadata",
                            "promoting_new_file_metadata"}
           /\ posts[n] = <<132>>
        \/ state[n] = "syncing_stop" /\ posts[n] = <<156>>
    BY <2>1, <2>2 DEF NodeFits, Fits, EngagedStates
  <2>4. \/ /\ state[n] \in {"sending_new_file_metadata",
                            "promoting_new_file_metadata"}
           /\ Head(posts[n]) = 132
        \/ state[n] = "syncing_stop" /\ Head(posts[n]) = 156
    BY <2>3
  <2>5. QED
    BY <2>4, PostsMove DEF Accepts, check_event
<1>2. QED
  BY <1>1, CouplingInvariance, PTL

\* The half of the state machine made for several files of data is dead: no
\* boxoffice ever enters one of its states or says one of its statuses, since a
\* second file is dropped while the first is announced (boxoffice.cpp:772) and
\* the dispatcher posts no 136.  Nor does any node ever give up with a 410.
THEOREM MoreDataDead ==
  Spec => [](/\ \A n \in Node : state[n] \notin MoreDataStates
             /\ \A n \in Node : beat[n].status \notin Unheard)
<1>1. CInv => /\ \A n \in Node : state[n] \notin MoreDataStates
              /\ \A n \in Node : beat[n].status \notin Unheard
  <2> SUFFICES ASSUME CInv, NEW n \in Node
               PROVE  state[n] \notin MoreDataStates /\ beat[n].status \notin Unheard
    OBVIOUS
  <2>1. state[n] \in EngagedStates \cup RestingStates /\ beat[n] \in Spoken
    BY DEF CInv, Coupled, NodeFits, Fits, NothingUnheard
  <2>2. QED
    BY <2>1 DEF EngagedStates, RestingStates, Unentered, MoreDataStates, Spoken
<1>2. QED
  BY <1>1, CouplingInvariance, PTL

-----------------------------------------------------------------------------
(* Two nodes.  In a flock of two a round is a dialogue, and every status   *)
(* belongs to the part its speaker plays in it.  What one node knows of    *)
(* the other follows from what of its own words are still under way.       *)

Role == {"resting", "announcing", "sending", "acknowledging", "following"}

\* The part a node plays in state s.  A node in syncing_stop is done.
RoleIn(s) ==
  CASE s \in AnnouncingStates -> "announcing"
    [] s \in SendingMetadataStates \cup SendingFileStates -> "sending"
    [] s \in AcknowledgingStates -> "acknowledging"
    [] s \in ReceivingMetadataStates \cup FakeFileStates \cup BroadcastingStates
         -> "following"
    [] OTHER -> "resting"

\* The role whose status c is; a file package has none.
Voice(c) ==
  CASE c \in {100, 150, 155} -> "resting"
    [] c \in {120, 160, 164} -> "announcing"
    [] c \in {110, 130, 134, 170, 174} -> "sending"
    [] c \in {121, 161, 165} -> "acknowledging"
    [] c \in {111, 131, 135, 140, 141, 171, 175} -> "following"
    [] OTHER -> "none"

\* A node in role r that hears voice h turns to role s.
Turn(r, h, s) ==
  \/ s = r
  \/ r = "resting" /\ s = "announcing"
  \/ r = "resting" /\ h = "announcing" /\ s = "acknowledging"
  \/ r = "announcing" /\ h = "acknowledging" /\ s = "sending"
  \/ r = "acknowledging" /\ h = "sending" /\ s = "following"
  \/ r = "sending" /\ h = "following" /\ s = "resting"
  \/ r = "following" /\ h = "resting" /\ s = "resting"

\* Some message of q is in voice v; one in voice v comes before one in w.
In(q, v) == \E i \in DOMAIN q : Voice(q[i].status) = v

InOrder(q, v, w) ==
  \E i, j \in DOMAIN q :
    i < j /\ Voice(q[i].status) = v /\ Voice(q[j].status) = w

\* What n has said and m has not heard yet: on the link, in the current
\* heartbeat, and waiting for the heartbeater.
Speech(n, m) == <<net[n][m], beat[n], hbq[n]>>

Says(p, v) == In(p[1], v) \/ Voice(p[2].status) = v \/ In(p[3], v)

SaysThen(p, v, w) ==
  \/ InOrder(p[1], v, w)
  \/ In(p[1], v) /\ (Voice(p[2].status) = w \/ In(p[3], w))
  \/ Voice(p[2].status) = v /\ In(p[3], w)
  \/ InOrder(p[3], v, w)

\* What holds of a node in role r that says p and another in role s that says
\* q.
Dialogue(r, p, s, q) ==
  \* Who acknowledges does so to an announcer, who may have gone on to send.
  /\ r = "acknowledging" \/ Says(p, "acknowledging") =>
       s \in {"announcing", "sending"}
  /\ s = "announcing" /\ Says(p, "acknowledging") => r = "acknowledging"
  /\ s = "sending" => r \in {"acknowledging", "following"}
  \* Nothing of an earlier round is under way to them.
  /\ s = "sending" \/ r = "acknowledging" => ~Says(q, "resting")
  /\ s = "announcing" /\ r = "acknowledging" => ~Says(q, "sending")
  /\ s = "announcing" => ~SaysThen(q, "announcing", "sending")
  /\ s = "sending" => ~SaysThen(q, "sending", "announcing")
  /\ s = "sending" /\ r = "following" => ~Says(q, "announcing")
  /\ s \notin {"announcing", "sending"} => ~Says(q, "announcing")
  /\ ~SaysThen(q, "announcing", "resting")
  \* Nor to the sender.
  /\ s = "sending" /\ Says(p, "following") => r = "following"
  /\ s = "sending" => ~SaysThen(p, "following", "acknowledging")
  /\ r = "acknowledging" => ~SaysThen(p, "acknowledging", "following")

\* p1 is p with more in voice r said behind it.
Adds(p1, p, r) ==
  /\ \A v \in Role : Says(p1, v) => Says(p, v) \/ v = r
  /\ \A v, w \in Role :
       v # w /\ SaysThen(p1, v, w) => SaysThen(p, v, w) \/ (Says(p, v) /\ w = r)

\* q1 is q without its first message, of voice h, or with other losses.
Loses(q1, q, h) ==
  /\ h \in Role => Says(q, h)
  /\ \A v \in Role : Says(q1, v) => Says(q, v)
  /\ \A v, w \in Role : v # w /\ SaysThen(q1, v, w) => SaysThen(q, v, w)
  /\ \A v \in Role : h \in Role /\ v # h /\ Says(q1, v) => SaysThen(q, h, v)

-----------------------------------------------------------------------------
\* Order needs both.
LEMMA SaysBoth ==
  \A p, v, w : SaysThen(p, v, w) => Says(p, v) /\ Says(p, w)
<1>1. \A q, v, w : InOrder(q, v, w) => In(q, v) /\ In(q, w)
  BY DEF InOrder, In
<1>2. QED
  BY <1>1 DEF Says, SaysThen

\* A turn keeps the dialogue.
LEMMA TurnKeeps ==
  ASSUME NEW r \in Role, NEW r1 \in Role, NEW s \in Role, NEW h,
         NEW p, NEW p1, NEW q, NEW q1,
         Dialogue(r, p, s, q), Dialogue(s, q, r, p),
         Turn(r, h, r1), Adds(p1, p, r1), Loses(q1, q, h)
  PROVE  Dialogue(r1, p1, s, q1) /\ Dialogue(s, q1, r1, p1)
<1>1. /\ "resting" \in Role /\ "announcing" \in Role /\ "sending" \in Role
      /\ "acknowledging" \in Role /\ "following" \in Role
  BY DEF Role
<1>2. \A v, w : SaysThen(p, v, w) => Says(p, v) /\ Says(p, w)
  BY SaysBoth
<1>3. \A v, w : /\ SaysThen(q, v, w) => Says(q, v) /\ Says(q, w)
                /\ SaysThen(q1, v, w) => Says(q1, v) /\ Says(q1, w)
  BY SaysBoth
<1>4. CASE r1 = r
  BY <1>1, <1>2, <1>3, <1>4 DEF Dialogue, Adds, Loses
<1>5. CASE r = "resting" /\ r1 = "announcing"
  <2>1. Dialogue(r1, p1, s, q1)
    BY <1>1, <1>2, <1>3, <1>5 DEF Dialogue, Adds, Loses
  <2>2. Dialogue(s, q1, r1, p1)
    BY <1>1, <1>2, <1>3, <1>5 DEF Dialogue, Adds, Loses
  <2>3. QED
    BY <2>1, <2>2
<1>6. CASE r = "resting" /\ h = "announcing" /\ r1 = "acknowledging"
  <2>1. Dialogue(r1, p1, s, q1)
    BY <1>1, <1>2, <1>3, <1>6 DEF Dialogue, Adds, Loses
  <2>2. Dialogue(s, q1, r1, p1)
    BY <1>1, <1>2, <1>3, <1>6 DEF Dialogue, Adds, Loses
  <2>3. QED
    BY <2>1, <2>2
<1>7. CASE r = "announcing" /\ h = "acknowledging" /\ r1 = "sending"
  <2>1. Dialogue(r1, p1, s, q1)
    BY <1>1, <1>2, <1>3, <1>7 DEF Dialogue, Adds, Loses
  <2>2. Dialogue(s, q1, r1, p1)
    BY <1>1, <1>2, <1>3, <1>7 DEF Dialogue, Adds, Loses
  <2>3. QED
    BY <2>1, <2>2
<1>8. CASE r = "acknowledging" /\ h = "sending" /\ r1 = "following"
  <2>1. Dialogue(r1, p1, s, q1)
    BY <1>1, <1>2, <1>3, <1>8 DEF Dialogue, Adds, Loses
  <2>2. Dialogue(s, q1, r1, p1)
    BY <1>1, <1>2, <1>3, <1>8 DEF Dialogue, Adds, Loses
  <2>3. QED
    BY <2>1, <2>2
<1>9. CASE r = "sending" /\ h = "following" /\ r1 = "resting"
  <2>1. Dialogue(r1, p1, s, q1)
    BY <1>1, <1>2, <1>3, <1>9 DEF Dialogue, Adds, Loses
  <2>2. Dialogue(s, q1, r1, p1)
    BY <1>1, <1>2, <1>3, <1>9 DEF Dialogue, Adds, Loses
  <2>3. QED
    BY <2>1, <2>2
<1>10. CASE r = "following" /\ h = "resting" /\ r1 = "resting"
  <2>1. Dialogue(r1, p1, s, q1)
    BY <1>1, <1>2, <1>3, <1>10 DEF Dialogue, Adds, Loses
  <2>2. Dialogue(s, q1, r1, p1)
    BY <1>1, <1>2, <1>3, <1>10 DEF Dialogue, Adds, Loses
  <2>3. QED
    BY <2>1, <2>2
<1>11. QED
  BY <1>4, <1>5, <1>6, <1>7, <1>8, <1>9, <1>10 DEF Turn

-----------------------------------------------------------------------------
(* What saying and hearing do to a speech.                                 *)

\* A message put behind a queue.
LEMMA InAppend ==
  ASSUME NEW S, NEW q \in Seq(S), NEW e
  PROVE  \A v, w :
           /\ In(Append(q, e), v) => In(q, v) \/ Voice(e.status) = v
           /\ InOrder(Append(q, e), v, w) =>
                InOrder(q, v, w) \/ (In(q, v) /\ Voice(e.status) = w)
<1> SUFFICES ASSUME NEW v, NEW w
             PROVE  /\ In(Append(q, e), v) => In(q, v) \/ Voice(e.status) = v
                    /\ InOrder(Append(q, e), v, w) =>
                         InOrder(q, v, w) \/ (In(q, v) /\ Voice(e.status) = w)
  OBVIOUS
<1> DEFINE k == Len(q)
           q1 == Append(q, e)
<1>1. /\ k \in Nat
      /\ DOMAIN q = 1 .. k /\ DOMAIN q1 = 1 .. (k + 1)
      /\ q1[k + 1] = e
      /\ \A i \in 1 .. k : q1[i] = q[i]
  OBVIOUS
<1> HIDE DEF k, q1
<1>2. In(q1, v) => In(q, v) \/ Voice(e.status) = v
  BY <1>1 DEF In
<1>3. ASSUME InOrder(q1, v, w)
      PROVE  InOrder(q, v, w) \/ (In(q, v) /\ Voice(e.status) = w)
  <2>1. PICK i \in 1 .. (k + 1), j \in 1 .. (k + 1) :
          i < j /\ Voice(q1[i].status) = v /\ Voice(q1[j].status) = w
    BY <1>1, <1>3 DEF InOrder
  <2>2. i \in 1 .. k /\ q1[i] = q[i]
    BY <1>1, <2>1
  <2>3. In(q, v)
    BY <1>1, <2>1, <2>2 DEF In
  <2>4. CASE j = k + 1
    BY <1>1, <2>1, <2>3, <2>4
  <2>5. CASE j # k + 1
    <3>1. j \in 1 .. k /\ q1[j] = q[j]
      BY <1>1, <2>5
    <3>2. QED
      BY <1>1, <2>1, <2>2, <3>1 DEF InOrder
  <2>6. QED
    BY <2>4, <2>5
<1>4. QED
  BY <1>2, <1>3 DEF q1

\* The first message of a queue taken from it.
LEMMA InTail ==
  ASSUME NEW S, NEW q \in Seq(S), q # <<>>
  PROVE  \A v, w :
           /\ In(Tail(q), v) => In(q, v)
           /\ InOrder(Tail(q), v, w) => InOrder(q, v, w)
           /\ In(q, Voice(Head(q).status))
           /\ In(Tail(q), v) => InOrder(q, Voice(Head(q).status), v)
<1> SUFFICES ASSUME NEW v, NEW w
             PROVE  /\ In(Tail(q), v) => In(q, v)
                    /\ InOrder(Tail(q), v, w) => InOrder(q, v, w)
                    /\ In(q, Voice(Head(q).status))
                    /\ In(Tail(q), v) => InOrder(q, Voice(Head(q).status), v)
  OBVIOUS
<1> DEFINE k == Len(q)
           q1 == Tail(q)
           h == Head(q)
<1>1. /\ k \in Nat \ {0}
      /\ DOMAIN q = 1 .. k /\ DOMAIN q1 = 1 .. (k - 1)
      /\ h = q[1]
      /\ \A i \in 1 .. (k - 1) : q1[i] = q[i + 1]
  OBVIOUS
<1> HIDE DEF k, q1, h
<1>2. \A i \in 1 .. (k - 1) : i + 1 \in 1 .. k /\ 1 < i + 1
  BY <1>1
<1>3. In(q1, v) => In(q, v) /\ InOrder(q, Voice(h.status), v)
  <2> SUFFICES ASSUME NEW i \in 1 .. (k - 1), Voice(q1[i].status) = v
               PROVE  In(q, v) /\ InOrder(q, Voice(h.status), v)
    BY <1>1 DEF In
  <2>1. /\ i + 1 \in 1 .. k /\ 1 \in 1 .. k /\ 1 < i + 1
        /\ Voice(q[i + 1].status) = v /\ Voice(q[1].status) = Voice(h.status)
    BY <1>1, <1>2
  <2>2. QED
    BY <1>1, <2>1 DEF In, InOrder
<1>4. InOrder(q1, v, w) => InOrder(q, v, w)
  <2> SUFFICES ASSUME NEW i \in 1 .. (k - 1), NEW j \in 1 .. (k - 1), i < j,
                      Voice(q1[i].status) = v, Voice(q1[j].status) = w
               PROVE  InOrder(q, v, w)
    BY <1>1 DEF InOrder
  <2>1. /\ i + 1 \in 1 .. k /\ j + 1 \in 1 .. k /\ i + 1 < j + 1
        /\ Voice(q[i + 1].status) = v /\ Voice(q[j + 1].status) = w
    BY <1>1, <1>2
  <2>2. QED
    BY <1>1, <2>1 DEF InOrder
<1>5. In(q, Voice(h.status))
  BY <1>1 DEF In
<1>6. QED
  BY <1>3, <1>4, <1>5 DEF q1, h

\* No message has the voice "none" of a role.
LEMMA NoneIsNoRole == "none" \notin Role
BY DEF Role

\* A message heard.
LEMMA TakeLoses ==
  ASSUME NEW S, NEW a \in Seq(S), a # <<>>, NEW b, NEW c
  PROVE  Loses(<<Tail(a), b, c>>, <<a, b, c>>, Voice(Head(a).status))
<1> DEFINE h == Voice(Head(a).status)
           d == Tail(a)
<1>1. \A v, w : /\ In(d, v) => In(a, v)
                /\ InOrder(d, v, w) => InOrder(a, v, w)
                /\ In(a, h)
                /\ In(d, v) => InOrder(a, h, v)
  BY InTail
<1> HIDE DEF h, d
<1>2. Loses(<<d, b, c>>, <<a, b, c>>, h)
  BY <1>1 DEF Loses, Says, SaysThen
<1>3. QED
  BY <1>2 DEF h, d

\* A status given to the heartbeater.
LEMMA SayAdds ==
  ASSUME NEW S, NEW c \in Seq(S), NEW e, NEW a, NEW b
  PROVE  Adds(<<a, b, Append(c, e)>>, <<a, b, c>>, Voice(e.status))
<1> DEFINE r == Voice(e.status)
           d == Append(c, e)
<1>1. \A v, w : /\ In(d, v) => In(c, v) \/ r = v
                /\ InOrder(d, v, w) => InOrder(c, v, w) \/ (In(c, v) /\ r = w)
  BY InAppend
<1> HIDE DEF r, d
<1>2. Adds(<<a, b, d>>, <<a, b, c>>, r)
  BY <1>1 DEF Adds, Says, SaysThen
<1>3. QED
  BY <1>2 DEF r, d

\* Nothing said, nothing heard.
LEMMA SameSpeech ==
  ASSUME NEW p, NEW r
  PROVE  Loses(p, p, "none") /\ Adds(p, p, r)
BY NoneIsNoRole DEF Loses, Adds

\* What only loses adds nothing.
LEMMA LosesAddsNothing ==
  ASSUME NEW p, NEW p1, NEW h, NEW r, Loses(p1, p, h)
  PROVE  Adds(p1, p, r)
BY DEF Loses, Adds

\* A package published is in no voice.
LEMMA PackageLoses ==
  ASSUME NEW S, NEW a \in Seq(S), NEW e, Voice(e.status) = "none", NEW b, NEW c
  PROVE  Loses(<<Append(a, e), b, c>>, <<a, b, c>>, "none")
<1> DEFINE d == Append(a, e)
<1>1. \A v \in Role : \A w \in Role :
        /\ In(d, v) => In(a, v)
        /\ InOrder(d, v, w) => InOrder(a, v, w)
  BY InAppend, NoneIsNoRole
<1> HIDE DEF d
<1>2. Loses(<<d, b, c>>, <<a, b, c>>, "none")
  BY <1>1, NoneIsNoRole DEF Loses, Says, SaysThen
<1>3. QED
  BY <1>2 DEF d

\* A heartbeat published, or lost on a peer that runs no more, and the next one
\* taken from the boxoffice, or the same one kept.
LEMMA BeatLoses ==
  ASSUME NEW S, NEW a \in Seq(S), NEW c \in Seq(S), NEW b,
         NEW a1, a1 = a \/ a1 = Append(a, b),
         NEW b1, NEW c1,
         \/ b1 = b /\ c1 = c
         \/ c # <<>> /\ b1 = Head(c) /\ c1 = Tail(c)
  PROVE  Loses(<<a1, b1, c1>>, <<a, b, c>>, "none")
<1> DEFINE x == Voice(b.status)
           x1 == Voice(b1.status)
<1>1. \A v, w : /\ In(a1, v) => In(a, v) \/ x = v
                /\ InOrder(a1, v, w) => InOrder(a, v, w) \/ (In(a, v) /\ x = w)
  BY InAppend
<1>2. CASE b1 = b /\ c1 = c
  <2>1. x1 = x
    BY <1>2
  <2> HIDE DEF x, x1
  <2>2. \A v, w : SaysThen(<<a1, b1, c1>>, v, w) /\ v # w => SaysThen(<<a, b, c>>, v, w)
    BY <1>1, <1>2, <2>1 DEF SaysThen, x, x1
  <2>3. QED
    BY <1>1, <1>2, <2>1, <2>2, NoneIsNoRole DEF Loses, Says, x, x1
<1>3. CASE c # <<>> /\ b1 = Head(c) /\ c1 = Tail(c)
  <2>1. \A v, w : /\ In(c1, v) => In(c, v)
                  /\ InOrder(c1, v, w) => InOrder(c, v, w)
                  /\ In(c, x1)
                  /\ In(c1, v) => InOrder(c, x1, v)
    BY <1>3, InTail
  <2>2. \A v : Says(<<a1, b1, c1>>, v) => Says(<<a, b, c>>, v)
    BY <1>1, <2>1 DEF Says
  <2>3. \A v, w : SaysThen(<<a1, b1, c1>>, v, w) => SaysThen(<<a, b, c>>, v, w)
    BY <1>1, <2>1 DEF SaysThen
  <2>4. QED
    BY <2>2, <2>3, NoneIsNoRole DEF Loses
<1>4. QED
  BY <1>2, <1>3

-----------------------------------------------------------------------------
(* The state machine, by role.                                             *)

\* The status, heard or made of what was heard, that turns role r to s.
TurnsOn(r, c, s) ==
  \/ s = r
  \/ r = "resting" /\ s = "announcing"
  \/ r = "resting" /\ c \in {120, 160, 164} /\ s = "acknowledging"
  \/ r = "announcing" /\ c \in {122, 162, 166} /\ s = "sending"
  \/ r = "acknowledging" /\ c \in {130, 134, 170, 174} /\ s = "following"
  \/ r = "sending" /\ c \in {142, 172} /\ s = "resting"
  \/ r = "following" /\ c \in {150, 155} /\ s = "resting"

TurnsBy(row) ==
  row[2] # "node_only_sends_heartbeats" /\ Live(row[1], row[3]) =>
    /\ Voice(row[4]) = RoleIn(row[5])
    /\ TurnsOn(RoleIn(row[1]), row[3], RoleIn(row[5]))

\* The sets of states have none in common.
LEMMA RoleOf ==
  \A s : /\ s \in {"ready", "syncing_stop"} => RoleIn(s) = "resting"
         /\ s \in AnnouncingStates <=> RoleIn(s) = "announcing"
         /\ s \in SendingMetadataStates \cup SendingFileStates
              <=> RoleIn(s) = "sending"
         /\ s \in AcknowledgingStates <=> RoleIn(s) = "acknowledging"
         /\ s \in ReceivingMetadataStates \cup FakeFileStates
                    \cup BroadcastingStates
              <=> RoleIn(s) = "following"
         /\ RoleIn(s) \in Role
BY DEF RoleIn, Role, AnnouncingStates, SendingMetadataStates, SendingFileStates,
       AcknowledgingStates, ReceivingMetadataStates, FakeFileStates,
       BroadcastingStates

\* The role of each state that occurs.
LEMMA RoleOfEach ==
  /\ RoleIn("ready") = "resting"
  /\ RoleIn("syncing_stop") = "resting"
  /\ RoleIn("announcing_new_file") = "announcing"
  /\ RoleIn("announcing_file_metadata_change") = "announcing"
  /\ RoleIn("announcing_file_metadata_change_with_more") = "announcing"
  /\ RoleIn("sending_new_file_metadata") = "sending"
  /\ RoleIn("sending_new_file_metadata_with_more") = "sending"
  /\ RoleIn("sending_file_metadata_change") = "sending"
  /\ RoleIn("sending_file_metadata_change_with_more") = "sending"
  /\ RoleIn("sending_new_file") = "sending"
  /\ RoleIn("acknowledging_new_file") = "acknowledging"
  /\ RoleIn("acknowledging_file_metadata_change") = "acknowledging"
  /\ RoleIn("acknowledging_file_metadata_change_with_more") = "acknowledging"
  /\ RoleIn("promoting_new_file_metadata") = "following"
  /\ RoleIn("promoting_new_file_metadata_with_more") = "following"
  /\ RoleIn("receiving_file_metadata_change") = "following"
  /\ RoleIn("receiving_file_metadata_change_with_more") = "following"
  /\ RoleIn("sending_fake_file") = "following"
  /\ RoleIn("broadcasting_all_received") = "following"
  /\ RoleIn("broadcasting_all_metadata_received") = "following"
BY RoleOf DEF AnnouncingStates, SendingMetadataStates, SendingFileStates,
       AcknowledgingStates, ReceivingMetadataStates, FakeFileStates,
       BroadcastingStates

\* The states of rows that occur.
LEMMA LiveState ==
  \A s, c : Live(s, c) =>
    s \in {"ready", "syncing_stop", "announcing_new_file",
           "announcing_file_metadata_change",
           "announcing_file_metadata_change_with_more",
           "sending_new_file_metadata", "sending_new_file_metadata_with_more",
           "sending_file_metadata_change",
           "sending_file_metadata_change_with_more", "sending_new_file",
           "acknowledging_new_file", "acknowledging_file_metadata_change",
           "acknowledging_file_metadata_change_with_more",
           "promoting_new_file_metadata",
           "promoting_new_file_metadata_with_more",
           "receiving_file_metadata_change",
           "receiving_file_metadata_change_with_more", "sending_fake_file",
           "broadcasting_all_received", "broadcasting_all_metadata_received"}
BY DEF Live, RestingStates, EngagedStates, Unentered, MoreDataStates, State,
       AnnouncingStates, SendingMetadataStates, SendingFileStates,
       AcknowledgingStates, ReceivingMetadataStates, FakeFileStates,
       BroadcastingStates

\* Every row that occurs is a turn, or none, and says what its new role says.
LEMMA RowsTurn == \A row \in Moves : TurnsBy(row)
<1> USE RoleOfEach DEF TurnsBy, TurnsOn, Voice
<1>1. \A row \in MovesAnnouncing : TurnsBy(row)
  BY LiveState DEF MovesAnnouncing, NewFile, NewMetadata, Live, Unheard
<1>2. \A row \in MovesSending : TurnsBy(row)
  BY LiveState DEF MovesSending, Live, Unheard
<1>3. \A row \in MovesAcknowledging : TurnsBy(row)
  BY LiveState DEF MovesAcknowledging, Live, Unheard
<1>4. \A row \in MovesReceiving : TurnsBy(row)
  BY LiveState DEF MovesReceiving, Live, Unheard
<1>5. \A row \in MovesBroadcasting : TurnsBy(row)
  BY LiveState DEF MovesBroadcasting, Live, Unheard
<1>6. \A row \in MovesLeaving : TurnsBy(row)
  BY DEF MovesLeaving, Live, Unheard
<1>7. QED
  BY <1>1, <1>2, <1>3, <1>4, <1>5, <1>6 DEF Moves

\* A call with status c, in role r, is about something in voice h.
Voiced(r, c, h) ==
  /\ c \in {120, 160, 164} => h = "announcing"
  /\ c \in {122, 162, 166} => h = "acknowledging"
  /\ c \in {130, 134, 170, 174} => h = "sending" \/ r # "acknowledging"
  /\ c \in {142, 172} => h = "following"
  /\ c \in {150, 155} => h = "resting"

\* It turns the role as that voice does.
LEMMA VoicedTurn ==
  ASSUME NEW r, NEW c, NEW s, NEW h, TurnsOn(r, c, s), Voiced(r, c, h)
  PROVE  Turn(r, h, s)
BY DEF TurnsOn, Voiced, Turn

\* What is heard is in its own voice.
LEMMA HeardVoiced ==
  \A r, c : c \notin {122, 162, 166, 142, 172} => Voiced(r, c, Voice(c))
BY DEF Voiced, Voice

\* No acknowledger hears 141, which it could take for a 174.
LEMMA AcknowledgersDeaf ==
  \A s : RoleIn(s) = "acknowledging" => ~check_event(s, "received_heartbeat", 141)
<1> SUFFICES ASSUME NEW s, RoleIn(s) = "acknowledging",
                    check_event(s, "received_heartbeat", 141)
             PROVE  FALSE
  OBVIOUS
<1>1. s \in AcknowledgingStates
  BY RoleOf
<1>2. <<"received_heartbeat", 141>> \notin Stay(s)
  BY <1>1 DEF Stay, StayAnnouncing, StaySending, StayAcknowledging,
              StayReceiving, StayBroadcasting, Hb, NewFile, NewMetadata,
              Mislabelled, AcknowledgingStates
<1>3. PICK row \in Moves : row[3] = 141
  BY <1>2 DEF check_event, MovesFor
<1>4. QED
  BY <1>3 DEF Moves, MovesAnnouncing, MovesSending, MovesAcknowledging,
              MovesReceiving, MovesBroadcasting, MovesLeaving, NewFile,
              NewMetadata

-----------------------------------------------------------------------------
(* Steps of a node, to another.                                            *)

\* A step of n: it plays on the role it has or turns, on hearing something of
\* m or by itself, and says what goes with the role.
Talks(n, m) ==
  /\ state'[m] = state[m]
  /\ Adds(Speech(n, m)', Speech(n, m), RoleIn(state'[n]))
  /\ \E h : /\ Turn(RoleIn(state[n]), h, RoleIn(state'[n]))
            /\ Loses(Speech(m, n)', Speech(m, n), h)

\* What n gives its heartbeater, and only n.
OnlySays(n, m) ==
  /\ \A k \in Node \ {n} : state'[k] = state[k] /\ hbq'[k] = hbq[k]
  /\ Adds(<<net[n][m], beat[n], hbq'[n]>>, Speech(n, m), RoleIn(state'[n]))

\* The end of processEvent.
LEMMA ContinueTurns ==
  ASSUME CInv, NEW n \in Node, NEW m \in Peers(n), NEW c, Live(state[n], c),
         NEW data, NEW meta, NEW stop, NEW orders,
         FsmContinue(n, c, data, meta, stop, orders)
  PROVE  /\ OnlySays(n, m)
         /\ TurnsOn(RoleIn(state[n]), c, RoleIn(state'[n]))
<1> DEFINE moves == MovesFor(state[n], get_event_by_status_code(c), c)
<1>0. /\ state \in [Node -> State]
      /\ hbq \in [Node -> Seq(Spoken)]
  BY Typed DEF CInv, NothingUnheard, BoxofficeTypeOK
<1>1. CASE UNCHANGED <<state, hbq>>
  BY <1>1, SameSpeech DEF OnlySays, Speech, TurnsOn
<1>2. ASSUME NEW row \in moves, state' = [state EXCEPT ![n] = row[5]],
             UpdateHeartbeat(n, row[4], row[5], data, meta, stop, orders)
      PROVE  /\ OnlySays(n, m)
             /\ TurnsOn(RoleIn(state[n]), c, RoleIn(state'[n]))
  <2>1. row \in Moves /\ row[1] = state[n] /\ row[3] = c
        /\ row[2] # "node_only_sends_heartbeats"
    BY NobodyOnlyBeats DEF MovesFor
  <2>2. /\ Voice(row[4]) = RoleIn(row[5])
        /\ TurnsOn(RoleIn(state[n]), c, RoleIn(row[5]))
    BY <2>1, RowsTurn DEF TurnsBy
  <2>3. state'[n] = row[5] /\ \A k \in Node \ {n} : state'[k] = state[k]
    BY <1>0, <1>2
  <2>4. \E f, g : hbq' = [hbq EXCEPT ![n] = Append(@, Msg(row[4], f, g))]
    BY <1>2 DEF UpdateHeartbeat
  <2>5. PICK f, g : hbq' = [hbq EXCEPT ![n] = Append(@, Msg(row[4], f, g))]
    BY <2>4
  <2> DEFINE e == Msg(row[4], f, g)
  <2>6. e.status = row[4]
    BY DEF Msg
  <2>7. /\ hbq'[n] = Append(hbq[n], e)
        /\ \A k \in Node \ {n} : hbq'[k] = hbq[k]
    BY <1>0, <2>5
  <2> HIDE DEF e
  <2>8. Adds(<<net[n][m], beat[n], Append(hbq[n], e)>>, Speech(n, m),
             Voice(e.status))
    BY <1>0, SayAdds DEF Speech
  <2>9. QED
    BY <2>2, <2>3, <2>6, <2>7, <2>8 DEF OnlySays
<1>3. QED
  BY <1>1, <1>2 DEF FsmContinue

\* Hearing a peer.
LEMMA HearingTalks ==
  ASSUME CInv, NEW n \in Node, NEW m \in Peers(n), NEW statuses,
         Takes(n, m, statuses), UNCHANGED beat, OnlySays(n, m),
         Turn(RoleIn(state[n]), Voice(Heard(n, m).status), RoleIn(state'[n]))
  PROVE  Talks(n, m)
<1> DEFINE h == Voice(Heard(n, m).status)
<1>1. m \in Node \ {n}
  BY DEF Peers
<1>2. /\ net \in [Node -> [Node -> Seq(Spoken)]] /\ net[m][n] # <<>>
      /\ net' = [net EXCEPT ![m][n] = Tail(@)]
  BY DEF CInv, NothingUnheard, Takes
<1>3. net'[m][n] = Tail(net[m][n]) /\ net'[n][m] = net[n][m]
  BY <1>1, <1>2
<1>4. state'[m] = state[m] /\ hbq'[m] = hbq[m]
  BY <1>1 DEF OnlySays
<1>5. Adds(Speech(n, m)', Speech(n, m), RoleIn(state'[n]))
  BY <1>3 DEF OnlySays, Speech
<1>6. net[m][n] \in Seq(Spoken)
  BY <1>1, <1>2
<1>7. Loses(<<Tail(net[m][n]), beat[m], hbq[m]>>,
            <<net[m][n], beat[m], hbq[m]>>, Voice(Head(net[m][n]).status))
  BY <1>2, <1>6, TakeLoses
<1>8. Loses(Speech(m, n)', Speech(m, n), h)
  BY <1>3, <1>4, <1>7 DEF Speech, Heard
<1> HIDE DEF h
<1>9. Turn(RoleIn(state[n]), h, RoleIn(state'[n]))
  BY DEF h
<1>10. QED
  BY <1>4, <1>5, <1>8, <1>9 DEF Talks

\* Saying something unprompted.
LEMMA SayingTalks ==
  ASSUME CInv, NEW n \in Node, NEW m \in Peers(n),
         UNCHANGED <<net, beat>>, OnlySays(n, m),
         Turn(RoleIn(state[n]), "none", RoleIn(state'[n]))
  PROVE  Talks(n, m)
<1>1. m \in Node \ {n}
  BY DEF Peers
<1>2. state'[m] = state[m] /\ hbq'[m] = hbq[m]
  BY <1>1 DEF OnlySays
<1>3. Adds(Speech(n, m)', Speech(n, m), RoleIn(state'[n]))
  BY DEF OnlySays, Speech
<1>4. Loses(Speech(m, n)', Speech(m, n), "none")
  BY <1>2, SameSpeech DEF Speech
<1>5. QED
  BY <1>2, <1>3, <1>4 DEF Talks

\* Every message of a peer.
LEMMA PeerStepTalks ==
  ASSUME CInv, NEW n \in Node, NEW m \in Peers(n), PeerStep(n, m)
  PROVE  Talks(n, m)
<1> DEFINE d == Heard(n, m).status
<1>1. HearFrom(n, m) /\ UNCHANGED beat
  BY DEF PeerStep, heartbeaterVars
<1>2. /\ state \in [Node -> State] /\ hbq \in [Node -> Seq(Spoken)]
      /\ state[n] \in EngagedStates \cup RestingStates
  BY Typed DEF CInv, NothingUnheard, BoxofficeTypeOK, Coupled, NodeFits, Fits
<1>3. ASSUME NEW statuses, Hears(n, m, statuses)
      PROVE  /\ Takes(n, m, statuses)
             /\ d \in statuses \ Unheard
             /\ check_event(state[n], get_event_by_status_code(d), d)
  <2>1. Takes(n, m, statuses) /\ Accepts(n, d)
    BY <1>3 DEF Hears, Heard
  <2>2. m \in Node
    BY DEF Peers
  <2>3. QED
    BY <2>1, <2>2, TakesSpoken DEF Accepts
<1>4. ASSUME NEW statuses, Takes(n, m, statuses), UNCHANGED <<state, hbq>>
      PROVE  Talks(n, m)
  <2>1. OnlySays(n, m)
    BY <1>4, SameSpeech DEF OnlySays, Speech
  <2>2. Turn(RoleIn(state[n]), Voice(d), RoleIn(state'[n]))
    BY <1>4 DEF Turn
  <2>3. QED
    BY <1>1, <1>4, <2>1, <2>2, HearingTalks
<1>5. ASSUME NEW statuses, Takes(n, m, statuses), NEW c, Live(state[n], c),
             Voiced(RoleIn(state[n]), c, Voice(d)),
             NEW data, NEW meta, NEW stop, NEW orders,
             FsmContinue(n, c, data, meta, stop, orders)
      PROVE  Talks(n, m)
  <2>1. OnlySays(n, m) /\ TurnsOn(RoleIn(state[n]), c, RoleIn(state'[n]))
    BY <1>5, ContinueTurns
  <2>2. Turn(RoleIn(state[n]), Voice(d), RoleIn(state'[n]))
    BY <1>5, <2>1, VoicedTurn
  <2>3. QED
    BY <1>1, <1>5, <2>1, <2>2, HearingTalks
<1>6. ASSUME NEW statuses, Takes(n, m, statuses), NEW e,
             state'[n] = state[n] \/ RoleIn(state'[n]) = RoleIn(state[n]),
             \A k \in Node \ {n} : state'[k] = state[k],
             hbq' = [hbq EXCEPT ![n] = Append(@, e)],
             Voice(e.status) = RoleIn(state'[n])
      PROVE  Talks(n, m)
  <2>1. /\ hbq'[n] = Append(hbq[n], e)
        /\ \A k \in Node \ {n} : hbq'[k] = hbq[k]
    BY <1>2, <1>6
  <2>2. Adds(<<net[n][m], beat[n], Append(hbq[n], e)>>, Speech(n, m),
             Voice(e.status))
    BY <1>2, SayAdds DEF Speech
  <2>3. OnlySays(n, m)
    BY <1>6, <2>1, <2>2 DEF OnlySays
  <2>4. Turn(RoleIn(state[n]), Voice(d), RoleIn(state'[n]))
    BY <1>6 DEF Turn
  <2>5. QED
    BY <1>1, <1>6, <2>3, <2>4, HearingTalks
<1>7. ASSUME NEW c \in HeartbeatStatus \cup {113, 142, 162, 166, 172, 173, 174,
                                            122, 177, 178},
             c \notin Unheard
      PROVE  Live(state[n], c)
  BY <1>2, <1>7 DEF Live, HeartbeatStatus
<1>8. ASSUME NEW statuses, Hears(n, m, statuses), d \in HeartbeatStatus,
             PlainContinue(n, d)
      PROVE  Talks(n, m)
  <2>1. Takes(n, m, statuses) /\ d \notin Unheard
    BY <1>3, <1>8
  <2>2. Voiced(RoleIn(state[n]), d, Voice(d))
    BY <1>8, HeardVoiced DEF HeartbeatStatus
  <2>3. QED
    BY <1>5, <1>7, <1>8, <2>1, <2>2 DEF PlainContinue
<1> HIDE DEF d
<1>9. CASE IgnoreMessage(n, m)
  BY <1>4, <1>9 DEF IgnoreMessage, boVars
<1>10. CASE HearPlain(n, m)
  BY <1>3, <1>8, <1>10 DEF HearPlain, d
<1>11. CASE Hear100(n, m)
  BY <1>3, <1>4, <1>11 DEF Hear100
<1>12. CASE HearReply(n, m)
  <2>1. Hears(n, m, ReplyStatus) /\ PlainContinue(n, d)
    BY <1>12 DEF HearReply, d
  <2>2. d \in HeartbeatStatus
    BY <1>3, <2>1 DEF ReplyStatus, HeartbeatStatus
  <2>3. QED
    BY <1>8, <2>1, <2>2
<1>13. CASE HearLastReply(n, m)
  <2> DEFINE c == StatusOnceAllReplied(n, d)
  <2>1. Takes(n, m, ReplyStatus) /\ d \in ReplyStatus
        /\ check_event(state[n], get_event_by_status_code(d), d)
    BY <1>3, <1>13 DEF HearLastReply
  <2>2. /\ d \in {121, 161, 165} => c \in {122, 162, 166}
        /\ d = 140 => c = 142
        /\ d = 141 => c \in {174, 178, 177, 172}
    BY <2>1 DEF StatusOnceAllReplied, ReplyStatus
  <2>3. Voiced(RoleIn(state[n]), c, Voice(d))
    <3>1. d = 141 => RoleIn(state[n]) # "acknowledging"
      BY <2>1, AcknowledgersDeaf DEF get_event_by_status_code
    <3>2. QED
      BY <2>1, <2>2, <3>1 DEF Voiced, Voice, ReplyStatus
  <2>4. Live(state[n], c)
    BY <1>7, <2>1, <2>2 DEF Unheard, ReplyStatus
  <2>5. \/ UNCHANGED <<state, hbq>>
        \/ FsmContinue(n, c, fileListData[n], fileListMetadata[n], stopSync[n],
                       SendOrders(n, c))
    BY <1>13 DEF HearLastReply, d
  <2> HIDE DEF c
  <2>6. QED
    BY <1>4, <1>5, <2>1, <2>3, <2>4, <2>5
<1>14. CASE HearAnnouncement(n, m)
  <2>1. Hears(n, m, {120, 124}) /\ PlainContinue(n, d)
    BY <1>14 DEF HearAnnouncement, d
  <2>2. d \in HeartbeatStatus
    BY <1>3, <2>1 DEF HeartbeatStatus
  <2>3. QED
    BY <1>8, <2>1, <2>2
<1>15. CASE Hear160(n, m)
  <2>1. Hears(n, m, {160}) /\ PlainContinue(n, 160)
    BY <1>15 DEF Hear160
  <2>2. d = 160
    BY <1>3, <2>1
  <2>3. d \in HeartbeatStatus
    BY <2>2 DEF HeartbeatStatus
  <2>4. PlainContinue(n, d)
    BY <2>1, <2>2
  <2>5. QED
    BY <1>8, <2>1, <2>3, <2>4
<1>16. CASE Hear130(n, m)
  BY <1>3, <1>4, <1>16 DEF Hear130, Promote
<1>17. CASE Hear170(n, m)
  <2> DEFINE c == 173
  <2>1. Takes(n, m, {170}) /\ PlainContinue(n, c)
    BY <1>3, <1>17 DEF Hear170
  <2>2. Voiced(RoleIn(state[n]), c, Voice(d)) /\ Live(state[n], c)
    BY <1>7 DEF Voiced, Unheard
  <2> HIDE DEF c
  <2>3. QED
    BY <1>5, <2>1, <2>2 DEF PlainContinue
<1>18. CASE Hear174(n, m)
  <2> DEFINE e == Msg(141, NoFile, FALSE)
  <2>1. /\ Takes(n, m, {174})
        /\ state[n] = "receiving_file_metadata_change_with_more"
        /\ state' = [state EXCEPT ![n] = "broadcasting_all_metadata_received"]
        /\ hbq' = [hbq EXCEPT ![n] = Append(@, e)]
    BY <1>3, <1>18 DEF Hear174
  <2>2. Voice(e.status) = "following"
    BY DEF Msg, Voice
  <2> HIDE DEF e
  <2>3. /\ state'[n] = "broadcasting_all_metadata_received"
        /\ \A k \in Node \ {n} : state'[k] = state[k]
    BY <1>2, <2>1
  <2>4. RoleIn(state'[n]) = "following" /\ RoleIn(state[n]) = "following"
    BY <2>1, <2>3, RoleOfEach
  <2>5. QED
    BY <1>6, <2>1, <2>2, <2>3, <2>4
<1>19. CASE Hear150InReady(n, m)
  <2> DEFINE e == Msg(100, NoFile, FALSE)
  <2>1. /\ Takes(n, m, {150})
        /\ state[n] = "ready" /\ UNCHANGED state
        /\ hbq' = [hbq EXCEPT ![n] =
                     IF @ # <<>> /\ @[Len(@)] = e THEN @ ELSE Append(@, e)]
    BY <1>3, <1>19 DEF Hear150InReady, boVars
  <2>2. Voice(e.status) = "resting"
    BY DEF Msg, Voice
  <2> HIDE DEF e
  <2>3. RoleIn(state'[n]) = "resting"
    BY <2>1, RoleOfEach
  <2>4. hbq' = hbq \/ hbq' = [hbq EXCEPT ![n] = Append(@, e)]
    BY <1>2, <2>1
  <2>5. QED
    BY <1>4, <1>6, <2>1, <2>2, <2>3, <2>4
<1>20. CASE Hear155(n, m)
  <2> DEFINE c == 155
             stop == TRUE
             orders == Append(dispq[n], StopOrder(Heard(n, m)))
  <2>1. /\ Takes(n, m, {155}) /\ d = c
        /\ FsmContinue(n, c, fileListData[n], fileListMetadata[n], stop, orders)
    <3>1. /\ Hears(n, m, {155})
          /\ FsmContinue(n, c, fileListData[n], fileListMetadata[n], stop, orders)
      BY <1>20 DEF Hear155
    <3>2. Takes(n, m, {155}) /\ d \in {155}
      BY <1>3, <3>1
    <3>3. QED
      BY <3>1, <3>2
  <2>2. Voiced(RoleIn(state[n]), c, Voice(c)) /\ Live(state[n], c)
    BY <1>7, HeardVoiced DEF Unheard, HeartbeatStatus
  <2> HIDE DEF c, stop, orders
  <2>3. QED
    BY <1>5, <2>1, <2>2
<1>21. CASE HearData(n, m)
  <2> DEFINE c == 113
  <2>1. Takes(n, m, {200}) /\ PlainContinue(n, c)
    BY <1>3, <1>21 DEF HearData, StoreData
  <2>2. Voiced(RoleIn(state[n]), c, Voice(d)) /\ Live(state[n], c)
    BY <1>7 DEF Voiced, Unheard
  <2> HIDE DEF c
  <2>3. QED
    BY <1>5, <2>1, <2>2 DEF PlainContinue
<1>22. QED
  BY <1>1, <1>9, <1>10, <1>11, <1>12, <1>13, <1>14, <1>15, <1>16, <1>17, <1>18,
     <1>19, <1>20, <1>21
  DEF HearFrom

\* Every 132 and 156.
LEMMA PostStepTalks ==
  ASSUME CInv, NEW n \in Node, NEW m \in Peers(n), PostStep(n)
  PROVE  Talks(n, m)
<1> DEFINE c == Head(posts[n])
<1>1. /\ posts[n] # <<>>
      /\ PlainContinue(n, c)
      /\ UNCHANGED <<net, beat>>
  BY DEF PostStep, HearDispatcher, heartbeaterVars
<1>2. c \in {132, 156} /\ state[n] \in EngagedStates \cup RestingStates
  <2>1. posts[n] \in Seq({132, 156})
    BY Typed DEF CInv, WiresWellFormed
  <2>2. QED
    BY <1>1, <2>1, HeadTailProperties DEF CInv, Coupled, NodeFits, Fits
<1> HIDE DEF c
<1>3. Live(state[n], c)
  <2>1. state[n] # "sending_new_file_metadata_with_more" \/ c = 156
    <3>1. state[n] \in RestingStates => posts[n] = <<>>
      BY DEF CInv, Coupled, NodeFits, Fits
    <3>2. "sending_new_file_metadata_with_more" \in RestingStates
      BY DEF RestingStates, EngagedStates, Unentered, MoreDataStates, State,
             SendingMetadataStates
    <3>3. QED
      BY <1>1, <3>1, <3>2
  <2>2. QED
    BY <1>2, <2>1 DEF Live, Unheard
<1>4. OnlySays(n, m) /\ TurnsOn(RoleIn(state[n]), c, RoleIn(state'[n]))
  BY <1>1, <1>3, ContinueTurns DEF PlainContinue
<1>5. Turn(RoleIn(state[n]), "none", RoleIn(state'[n]))
  BY <1>2, <1>4 DEF TurnsOn, Turn
<1>6. QED
  BY <1>1, <1>4, <1>5, SayingTalks

\* Every local change.
LEMMA BoxStepTalks ==
  ASSUME CInv, NEW n \in Node, NEW m \in Peers(n), BoxStep(n)
  PROVE  Talks(n, m)
<1>0. PICK status \in LocalStatus : HearLocal(n, status)
  BY DEF BoxStep
<1>1. UNCHANGED <<net, beat>>
  BY <1>0 DEF BoxStep, heartbeaterVars, HearLocal, IgnoreLocal,
              LocalPathTooLong, LocalFileMissing, LocalReportedTwice,
              LocalQueued, TakesLocal
<1>2. state[n] \in EngagedStates \cup RestingStates
  BY DEF CInv, Coupled, NodeFits, Fits
<1>3. CASE UNCHANGED <<state, hbq>>
  <2>1. OnlySays(n, m) /\ Turn(RoleIn(state[n]), "none", RoleIn(state'[n]))
    BY <1>3, SameSpeech DEF OnlySays, Speech, Turn
  <2>2. QED
    BY <1>1, <2>1, SayingTalks
<1>4. ASSUME NEW c \in {301} \cup LocalStatus, Live(state[n], c),
             NEW data, NEW meta, NEW stop, NEW orders,
             FsmContinue(n, c, data, meta, stop, orders)
      PROVE  Talks(n, m)
  <2>1. OnlySays(n, m) /\ TurnsOn(RoleIn(state[n]), c, RoleIn(state'[n]))
    BY <1>4, ContinueTurns
  <2>2. Turn(RoleIn(state[n]), "none", RoleIn(state'[n]))
    BY <1>4, <2>1 DEF TurnsOn, Turn, LocalStatus, NoStatus
  <2>3. QED
    BY <1>1, <2>1, <2>2, SayingTalks
<1>5. CASE LocalReportedTwice(n, status)
  <2> DEFINE c == 301
  <2>1. PlainContinue(n, c) /\ Live(state[n], c) /\ c \in {301}
    BY <1>2, <1>5 DEF LocalReportedTwice, Live, Unheard
  <2> HIDE DEF c
  <2>2. QED
    BY <1>4, <2>1 DEF PlainContinue
<1>6. CASE LocalQueued(n, status)
  <2> DEFINE f    == NewLocalFile(n, LocalEvent(n))
             data == IF status = 300 THEN Append(fileListData[n], f)
                                     ELSE fileListData[n]
             meta == IF status = 320 THEN Append(fileListMetadata[n], f)
                                     ELSE fileListMetadata[n]
  <2>1. /\ FsmContinue(n, status, data, meta, stopSync[n], dispq[n])
        /\ state[n] # "announcing_new_file"
    BY <1>6 DEF LocalQueued
  <2>2. Live(state[n], status)
    BY <1>2, <2>1 DEF Live, Unheard, LocalStatus, NoStatus
  <2> HIDE DEF data, meta
  <2>3. QED
    BY <1>4, <2>1, <2>2
<1>7. QED
  BY <1>0, <1>3, <1>5, <1>6
  DEF HearLocal, IgnoreLocal, LocalPathTooLong, LocalFileMissing

\* Publishing to m, or not, when it runs no more.
LEMMA PublishTo ==
  ASSUME NEW n \in Node, NEW m \in Peers(n), NEW e, Publish(n, e)
  PROVE  /\ net'[n][m] = net[n][m] \/ net'[n][m] = Append(net[n][m], e)
         /\ net'[m][n] = net[m][n]
BY DEF Publish, Peers

\* A dispatcher says nothing, and publishes packages.
LEMMA DispatcherStepTalks ==
  ASSUME CInv, NEW n \in Node, NEW m \in Peers(n), DispatcherStep(n)
  PROVE  Talks(n, m)
<1>1. UNCHANGED <<state, beat, hbq>>
  BY DEF DispatcherStep, boVars, heartbeaterVars, TakeOrder, OffsetElapsed,
         SendData, SendDataSwallowed, SendDataAborts, StopReceives, StopElapsed
<1>2. Loses(Speech(m, n), Speech(m, n), "none")
  BY SameSpeech
<1>3. \A h : Turn(RoleIn(state[n]), h, RoleIn(state'[n]))
  BY <1>1 DEF Turn
<1>4. CASE UNCHANGED net
  <2>1. /\ Adds(Speech(n, m)', Speech(n, m), RoleIn(state'[n]))
        /\ Loses(Speech(m, n)', Speech(m, n), "none")
    BY <1>1, <1>4, SameSpeech DEF Speech
  <2>2. QED
    BY <1>1, <1>3, <2>1 DEF Talks
<1>5. CASE SendData(n)
  <2>1. PICK f : Publish(n, Msg(200, f, FALSE))
    BY <1>5 DEF SendData
  <2> DEFINE e == Msg(200, f, FALSE)
  <2>2. Voice(e.status) = "none"
    BY DEF Msg, Voice
  <2>3. Publish(n, e)
    BY <2>1
  <2> HIDE DEF e
  <2>4. /\ net'[n][m] = net[n][m] \/ net'[n][m] = Append(net[n][m], e)
        /\ net'[m][n] = net[m][n]
    BY <2>3, PublishTo
  <2>5. net[n][m] \in Seq(Spoken)
    BY DEF CInv, NothingUnheard, Peers
  <2>6. /\ Loses(<<net[n][m], beat[n], hbq[n]>>, Speech(n, m), "none")
        /\ Loses(<<Append(net[n][m], e), beat[n], hbq[n]>>, Speech(n, m), "none")
    BY <2>2, <2>5, PackageLoses, SameSpeech DEF Speech
  <2>7. Loses(Speech(n, m)', Speech(n, m), "none")
    BY <1>1, <2>4, <2>6 DEF Speech
  <2>8. Speech(m, n)' = Speech(m, n)
    BY <1>1, <2>4 DEF Speech
  <2>9. QED
    BY <1>1, <1>2, <1>3, <2>7, <2>8, LosesAddsNothing DEF Talks
<1>6. QED
  BY <1>4, <1>5
  DEF DispatcherStep, TakeOrder, OffsetElapsed, SendDataSwallowed,
      SendDataAborts, StopReceives, StopElapsed

\* A heartbeater repeats what it was given, and loses nothing before the next.
LEMMA HeartbeaterStepTalks ==
  ASSUME CInv, NEW n \in Node, NEW m \in Peers(n), HeartbeaterStep(n)
  PROVE  Talks(n, m)
<1>1. Publish(n, beat[n]) /\ PopUpdate(n) /\ UNCHANGED state
  BY DEF HeartbeaterStep, Beat, boVars
<1>2. /\ net'[n][m] = net[n][m] \/ net'[n][m] = Append(net[n][m], beat[n])
      /\ net'[m][n] = net[m][n]
  BY <1>1, PublishTo
<1>3. /\ net[n][m] \in Seq(Spoken) /\ hbq \in [Node -> Seq(Spoken)]
      /\ beat \in [Node -> Spoken]
  BY DEF CInv, NothingUnheard, Peers
<1>4. /\ \/ beat'[n] = beat[n] /\ hbq'[n] = hbq[n]
         \/ /\ hbq[n] # <<>>
            /\ beat'[n] = Head(hbq[n]) /\ hbq'[n] = Tail(hbq[n])
      /\ m # n
      /\ beat'[m] = beat[m] /\ hbq'[m] = hbq[m]
  BY <1>1, <1>3 DEF PopUpdate, Peers
<1>5. hbq[n] \in Seq(Spoken)
  BY <1>3
<1>6. Loses(<<net'[n][m], beat'[n], hbq'[n]>>, <<net[n][m], beat[n], hbq[n]>>,
            "none")
  BY <1>2, <1>3, <1>4, <1>5, BeatLoses
<1>7. /\ Loses(Speech(n, m)', Speech(n, m), "none")
      /\ Speech(m, n)' = Speech(m, n)
  BY <1>2, <1>4, <1>6 DEF Speech
<1>8. Loses(Speech(m, n), Speech(m, n), "none")
  BY SameSpeech
<1>9. Turn(RoleIn(state[n]), "none", RoleIn(state'[n]))
  BY <1>1 DEF Turn
<1>10. QED
  BY <1>1, <1>7, <1>8, <1>9, LosesAddsNothing DEF Talks

-----------------------------------------------------------------------------
(* The theorems on two nodes.                                              *)

TwoNodes == \E a, b : a # b /\ Node = {a, b}

InDialogue ==
  \A n \in Node : \A m \in Peers(n) :
    Dialogue(RoleIn(state[n]), Speech(n, m), RoleIn(state[m]), Speech(m, n))

DInv == CInv /\ InDialogue

\* With two nodes, every step is one of a node to the other.
LEMMA NextTalks ==
  ASSUME TwoNodes, CInv, [Next]_vars
  PROVE  \E n, m \in Node : n # m /\ Node = {n, m} /\ Talks(n, m)
<1>1. \A n \in Node, m \in Node : m \in Peers(n) => n # m /\ Node = {n, m}
  BY DEF TwoNodes, Peers
<1>2. \A n \in Node : \E m \in Node : m \in Peers(n)
  BY DEF TwoNodes, Peers
<1>3. ASSUME UNCHANGED <<state, net, beat, hbq>>,
             NEW n \in Node, NEW m \in Node
      PROVE  Talks(n, m)
  <2>1. /\ Speech(n, m)' = Speech(n, m) /\ Speech(m, n)' = Speech(m, n)
        /\ state'[n] = state[n] /\ state'[m] = state[m]
    BY <1>3 DEF Speech
  <2>2. /\ Adds(Speech(n, m)', Speech(n, m), RoleIn(state'[n]))
        /\ Loses(Speech(m, n)', Speech(m, n), "none")
    BY <2>1, SameSpeech
  <2>3. Turn(RoleIn(state[n]), "none", RoleIn(state'[n]))
    BY <2>1 DEF Turn
  <2>4. QED
    BY <2>1, <2>2, <2>3 DEF Talks
<1>4. CASE UNCHANGED vars
  <2>1. UNCHANGED <<state, net, beat, hbq>>
    BY <1>4 DEF vars, wireVars, boVars, heartbeaterVars
  <2>2. PICK n \in Node, m \in Node : m \in Peers(n)
    BY <1>2 DEF TwoNodes
  <2>3. QED
    BY <1>1, <1>3, <2>1, <2>2
<1>5. ASSUME NEW n \in Node, \E src \in Peers(n) : PeerStep(n, src)
      PROVE  \E k, m \in Node : k # m /\ Node = {k, m} /\ Talks(k, m)
  <2>1. PICK m \in Peers(n) : PeerStep(n, m)
    BY <1>5
  <2>2. m \in Node /\ Talks(n, m)
    BY <2>1, PeerStepTalks DEF Peers
  <2>3. QED
    BY <1>1, <2>2
<1>6. ASSUME NEW n \in Node,
             \/ PostStep(n) \/ BoxStep(n) \/ DispatcherStep(n)
             \/ HeartbeaterStep(n) \/ UserStep(n)
      PROVE  \E k, m \in Node : k # m /\ Node = {k, m} /\ Talks(k, m)
  <2>1. PICK m \in Node : m \in Peers(n)
    BY <1>2
  <2>2. CASE UserStep(n)
    <3>1. UNCHANGED <<state, net, beat, hbq>>
      BY <2>2 DEF UserStep, UserChange, boVars, heartbeaterVars
    <3>2. QED
      BY <1>1, <1>3, <2>1, <3>1
  <2>3. CASE PostStep(n) \/ BoxStep(n) \/ DispatcherStep(n) \/ HeartbeaterStep(n)
    <3>1. Talks(n, m)
      BY <2>1, <2>3, PostStepTalks, BoxStepTalks, DispatcherStepTalks,
         HeartbeaterStepTalks
    <3>2. QED
      BY <1>1, <2>1, <3>1
  <2>4. QED
    BY <1>6, <2>2, <2>3
<1>7. \A n \in Writers : n \in Node
  BY FlockAssumption
<1>8. QED
  BY <1>4, <1>5, <1>6, <1>7 DEF Next

\* The dialogue has not begun.
LEMMA InitInDialogue == Init => InDialogue
<1> SUFFICES ASSUME Init, NEW n \in Node, NEW m \in Peers(n)
             PROVE  Dialogue(RoleIn(state[n]), Speech(n, m), RoleIn(state[m]),
                             Speech(m, n))
  BY DEF InDialogue
<1>1. RoleIn(state[n]) = "resting" /\ RoleIn(state[m]) = "resting"
  BY RoleOfEach DEF Init, BoxofficeInit, Peers
<1>2. ASSUME NEW k \in Node, NEW l \in Node
      PROVE  \A v, w : /\ Says(Speech(k, l), v) => v = "resting"
                       /\ ~SaysThen(Speech(k, l), v, w)
  <2>1. net[k][l] = <<>> /\ beat[k] = Msg(100, NoFile, FALSE) /\ hbq[k] = <<>>
    BY DEF Init, WiresInit, HeartbeaterInit
  <2>2. \A v, w : ~In(<<>>, v) /\ ~InOrder(<<>>, v, w)
    BY DEF In, InOrder
  <2>3. \A v, w : /\ ~In(net[k][l], v) /\ ~InOrder(net[k][l], v, w)
                  /\ ~In(hbq[k], v) /\ ~InOrder(hbq[k], v, w)
    BY <2>1, <2>2
  <2>4. Voice(beat[k].status) = "resting"
    BY <2>1 DEF Msg, Voice
  <2>5. QED
    BY <2>3, <2>4 DEF Says, SaysThen, Speech
<1>3. m \in Node
  BY DEF Peers
<1>4. QED
  BY <1>1, <1>2, <1>3 DEF Dialogue

\* Every step keeps it.
LEMMA NextInDialogue ==
  ASSUME TwoNodes, DInv, [Next]_vars
  PROVE  InDialogue'
<1>1. PICK n \in Node, m \in Node : n # m /\ Node = {n, m} /\ Talks(n, m)
  BY NextTalks DEF DInv
<1> DEFINE r  == RoleIn(state[n])
           r1 == RoleIn(state'[n])
           s  == RoleIn(state[m])
           p  == Speech(n, m)
           p1 == Speech(n, m)'
           q  == Speech(m, n)
           q1 == Speech(m, n)'
<1>2. PICK h : Turn(r, h, r1) /\ Loses(q1, q, h)
  BY <1>1 DEF Talks
<1>3. Adds(p1, p, r1) /\ RoleIn(state'[m]) = s
  BY <1>1 DEF Talks
<1>4. Dialogue(r, p, s, q) /\ Dialogue(s, q, r, p)
  BY <1>1 DEF DInv, InDialogue, Peers
<1>5. r \in Role /\ r1 \in Role /\ s \in Role
  BY RoleOf
<1> HIDE DEF r, r1, s, p, p1, q, q1
<1>6. Dialogue(r1, p1, s, q1) /\ Dialogue(s, q1, r1, p1)
  BY <1>2, <1>3, <1>4, <1>5, TurnKeeps
<1>7. QED
  BY <1>1, <1>3, <1>6 DEF InDialogue, Peers, r, r1, s, p, p1, q, q1

LEMMA DialogueInvariance == ASSUME TwoNodes PROVE Spec => []DInv
<1>1. Init => DInv
  BY InitFits, InitInDialogue DEF DInv
<1>2. DInv /\ [Next]_vars => DInv'
  BY NextFits, NextInDialogue DEF DInv
<1>3. QED
  BY <1>1, <1>2, PTL DEF Spec

\* In a flock of two, whatever the timing, at most one node is past the
\* announcement, sending: both may announce at once, but neither gives way, and
\* neither goes on (boxoffice.cpp:374-434; flock_fsm.h:2273-2540).
THEOREM OneSenderOfTwo == TwoNodes => (Spec => []OneSender)
<1> SUFFICES ASSUME TwoNodes PROVE Spec => []OneSender
  OBVIOUS
<1>1. DInv => OneSender
  <2> SUFFICES ASSUME DInv, NEW n \in Node, NEW m \in Node, n # m,
                      state[n] \in SendingMetadataStates \cup SendingFileStates,
                      state[m] \in SendingMetadataStates \cup SendingFileStates
               PROVE  FALSE
    BY DEF OneSender
  <2>1. RoleIn(state[n]) = "sending" /\ RoleIn(state[m]) = "sending"
    BY RoleOf
  <2>2. Dialogue(RoleIn(state[n]), Speech(n, m), RoleIn(state[m]), Speech(m, n))
    BY DEF DInv, InDialogue, Peers
  <2>3. QED
    BY <2>1, <2>2 DEF Dialogue
<1>2. QED
  BY <1>1, DialogueInvariance, PTL

\* In a flock of two the announcer goes on to send only when the other node has
\* acknowledged this announcement: no 121, 161 or 165 of an earlier round can be
\* taken for one of this (boxoffice.cpp:374-434).
THEOREM AnnouncedOfTwo == TwoNodes => (Spec => AnnouncedToAll)
<1> SUFFICES ASSUME TwoNodes PROVE Spec => AnnouncedToAll
  OBVIOUS
<1>1. DInv /\ [Next]_vars =>
        [\A n \in Node :
           state[n] \in AnnouncingStates /\ state'[n] \in SendingMetadataStates
             => \A m \in Peers(n) : state[m] \in AcknowledgingStates]_vars
  <2> SUFFICES ASSUME DInv, [Next]_vars, NEW k \in Node, NEW l \in Peers(k),
                      state[k] \in AnnouncingStates,
                      state'[k] \in SendingMetadataStates
               PROVE  state[l] \in AcknowledgingStates
    OBVIOUS
  <2>1. RoleIn(state[k]) = "announcing" /\ RoleIn(state'[k]) = "sending"
    BY RoleOf
  <2>2. PICK n \in Node, m \in Node : n # m /\ Node = {n, m} /\ Talks(n, m)
    BY NextTalks DEF DInv
  <2>3. n = k /\ m = l
    BY <2>1, <2>2 DEF Talks, Peers
  <2>4. PICK h : /\ Turn(RoleIn(state[k]), h, RoleIn(state'[k]))
                 /\ Loses(Speech(l, k)', Speech(l, k), h)
    BY <2>2, <2>3 DEF Talks
  <2>5. h = "acknowledging"
    BY <2>1, <2>4 DEF Turn
  <2>6. Says(Speech(l, k), "acknowledging")
    BY <2>4, <2>5 DEF Loses, Role
  <2>7. Dialogue(RoleIn(state[l]), Speech(l, k), RoleIn(state[k]), Speech(k, l))
    BY DEF DInv, InDialogue, Peers
  <2>8. RoleIn(state[l]) = "acknowledging"
    BY <2>1, <2>6, <2>7 DEF Dialogue
  <2>9. QED
    BY <2>8, RoleOf
<1>2. QED
  BY <1>1, DialogueInvariance, PTL DEF Spec, AnnouncedToAll

-----------------------------------------------------------------------------
(* Two nodes, continued: the files they talk about.  A package names none, *)
(* so the file it is stored under has to be the one it was read from.      *)

\* What is in a queue, and what n has said and m has not heard yet.
Of(q) == {q[i] : i \in DOMAIN q}

Words(n, m) == Of(net[n][m]) \cup {beat[n]} \cup Of(hbq[n])

\* There is at most one package in q.
Single(q) ==
  \A i, j \in DOMAIN q : q[i].status = 200 /\ q[j].status = 200 => i = j

\* The states of a sender of content.
DataStates == {"sending_new_file_metadata", "sending_new_file"}

\* The dispatcher of n has been told to send the file n's boxoffice announces;
\* n forgets that it notified its dispatcher; heartbeats are no packages.
Orders(n) ==
  /\ phase[n] \in {"armed_send", "sending"} =>
       state[n] \in DataStates /\ job[n].path = currentFile[n].path
  /\ \A w \in Of(dispq[n]) : w.status \in {122, 177} =>
       state[n] \in DataStates /\ w.file.path = currentFile[n].path
  /\ state[n] = "acknowledging_new_file" => ~notifiedDispatch[n]
  /\ \A w \in {beat[n]} \cup Of(hbq[n]) : w.status # 200

\* The 130s on their way from a sender name the file it sends, and so does its
\* package, of which there is one.
Names(s, n) ==
  /\ RoleIn(state[s]) = "sending" =>
       \A w \in Words(s, n) :
         /\ w.status = 130 => /\ state[s] \in DataStates
                              /\ w.file.path = currentFile[s].path
         /\ w.status = 170 => state[s] = "sending_file_metadata_change"
  /\ \A w \in Of(net[s][n]) : w.status = 200 =>
       /\ state[s] \in DataStates /\ phase[s] = "stopping"
       /\ w.file.path = currentFile[s].path
  /\ Single(net[s][n])

\* n will take a package, or will when its dispatcher posts 132.
TakesData(n) ==
  \/ state[n] = "sending_fake_file"
  \/ state[n] = "promoting_new_file_metadata" /\ notifiedDispatch[n]

\* The receiver n of what s sends.
Follows(n, s) ==
  RoleIn(state[s]) = "sending" =>
    /\ state[n] = "broadcasting_all_metadata_received" =>
         state[s] = "sending_file_metadata_change" \/ ~notifiedDispatch[n]
    /\ TakesData(n) => /\ state[s] \in DataStates /\ currentFile[n] # NoFile
                       /\ currentFile[n].path = currentFile[s].path
    /\ state[n] = "broadcasting_all_received" =>
         /\ state[s] \in DataStates /\ phase[s] = "stopping"
         /\ \A w \in Of(net[s][n]) : w.status # 200
    /\ \A w \in Words(n, s) :
         w.status = 140 => state[n] = "broadcasting_all_received"

OnSameFile(n, m) == Names(n, m) /\ Follows(m, n)

FilesAgree ==
  /\ \A n \in Node : Orders(n)
  /\ \A n \in Node : \A m \in Peers(n) : OnSameFile(n, m)

PInv == DInv /\ FilesAgree

-----------------------------------------------------------------------------
(* Queues.                                                                 *)

LEMMA OfAppend ==
  ASSUME NEW S, NEW q \in Seq(S), NEW e
  PROVE  Of(Append(q, e)) \subseteq Of(q) \cup {e}
<1> DEFINE k == Len(q)
<1>1. /\ k \in Nat /\ DOMAIN Append(q, e) = 1 .. (k + 1) /\ DOMAIN q = 1 .. k
      /\ \A i \in 1 .. k : Append(q, e)[i] = q[i]
      /\ Append(q, e)[k + 1] = e
  OBVIOUS
<1> HIDE DEF k
<1>2. \A i \in 1 .. (k + 1) : i \in 1 .. k \/ i = k + 1
  BY <1>1
<1>3. QED
  BY <1>1, <1>2 DEF Of

LEMMA OfTail ==
  ASSUME NEW S, NEW q \in Seq(S), q # <<>>
  PROVE  Of(Tail(q)) \subseteq Of(q) /\ Head(q) \in Of(q)
<1> DEFINE k == Len(q)
<1>1. /\ k \in Nat \ {0} /\ DOMAIN q = 1 .. k /\ DOMAIN Tail(q) = 1 .. (k - 1)
      /\ Head(q) = q[1]
      /\ \A i \in 1 .. (k - 1) : Tail(q)[i] = q[i + 1]
  OBVIOUS
<1> HIDE DEF k
<1>2. 1 \in 1 .. k /\ \A i \in 1 .. (k - 1) : i + 1 \in 1 .. k
  BY <1>1
<1>3. QED
  BY <1>1, <1>2 DEF Of

LEMMA SingleAppend ==
  ASSUME NEW S, NEW q \in Seq(S), NEW e, Single(q),
         e.status # 200 \/ \A w \in Of(q) : w.status # 200
  PROVE  Single(Append(q, e))
<1> DEFINE k == Len(q)
<1>1. /\ k \in Nat /\ DOMAIN Append(q, e) = 1 .. (k + 1) /\ DOMAIN q = 1 .. k
      /\ \A i \in 1 .. k : Append(q, e)[i] = q[i]
      /\ Append(q, e)[k + 1] = e
  OBVIOUS
<1> HIDE DEF k
<1>2. \A i \in 1 .. (k + 1) : i \in 1 .. k \/ i = k + 1
  BY <1>1
<1>3. QED
  BY <1>1, <1>2 DEF Single, Of

\* Once the only package is taken, there is none.
LEMMA SingleTail ==
  ASSUME NEW S, NEW q \in Seq(S), q # <<>>, Single(q)
  PROVE  /\ Single(Tail(q))
         /\ Head(q).status = 200 => \A w \in Of(Tail(q)) : w.status # 200
<1> DEFINE k == Len(q)
<1>1. /\ k \in Nat \ {0} /\ DOMAIN q = 1 .. k /\ DOMAIN Tail(q) = 1 .. (k - 1)
      /\ Head(q) = q[1]
      /\ \A i \in 1 .. (k - 1) : Tail(q)[i] = q[i + 1]
  OBVIOUS
<1> HIDE DEF k
<1>2. /\ 1 \in 1 .. k
      /\ \A i \in 1 .. (k - 1) : i + 1 \in 1 .. k /\ i + 1 # 1
      /\ \A i, j \in 1 .. (k - 1) : i + 1 = j + 1 => i = j
  BY <1>1
<1>3. Single(Tail(q))
  BY <1>1, <1>2 DEF Single
<1>4. Head(q).status = 200 => \A w \in Of(Tail(q)) : w.status # 200
  BY <1>1, <1>2 DEF Single, Of
<1>5. QED
  BY <1>3, <1>4

\* A voice is heard just if a word is said in it.
LEMMA SaysWords ==
  ASSUME NEW n, NEW m, NEW w \in Words(n, m)
  PROVE  Says(Speech(n, m), Voice(w.status))
BY DEF Words, Of, Says, Speech, In

-----------------------------------------------------------------------------
(* The state machine, by file.                                             *)

\* In state s a call with status c goes to t and beats d.
Changes(s, c, d, t) ==
  /\ d # 200 /\ t # s
  /\ d = 130 => t = "sending_new_file_metadata"
  /\ d = 170 => t = "sending_file_metadata_change"
  /\ d = 140 => t = "broadcasting_all_received"
  /\ t = "sending_new_file_metadata" <=> c \in {122, 177}
  /\ t = "sending_new_file" => s = "sending_new_file_metadata"
  /\ t = "acknowledging_new_file" => c = 120
  /\ t = "promoting_new_file_metadata" =>
       \/ s = "acknowledging_new_file"
       \/ s = "broadcasting_all_metadata_received" /\ c = 130
  /\ t = "sending_fake_file" => s = "promoting_new_file_metadata" /\ c = 132
  /\ t = "broadcasting_all_received" => s = "sending_fake_file" /\ c = 113
  /\ t = "broadcasting_all_metadata_received" => c = 173
  /\ s = "broadcasting_all_received" => t = "syncing_stop"
  /\ s = "sending_new_file_metadata" => t = "sending_new_file"
  /\ s = "sending_new_file" => t = "syncing_stop" /\ c = 142
  /\ s = "sending_file_metadata_change" => t = "ready"
  /\ s = "sending_file_metadata_change_with_more" =>
       t \in {"ready", "sending_new_file_metadata",
              "sending_new_file_metadata_with_more"}
  /\ s # "sending_new_file_metadata_with_more"

ChangesBy(row) ==
  row[2] # "node_only_sends_heartbeats" /\ Live(row[1], row[3]) =>
    Changes(row[1], row[3], row[4], row[5])

LEMMA RowsChange == \A row \in Moves : ChangesBy(row)
<1> USE DEF ChangesBy, Changes
<1>1. \A row \in MovesAnnouncing : ChangesBy(row)
  BY LiveState DEF MovesAnnouncing, NewFile, NewMetadata, Live, Unheard
<1>2. \A row \in MovesSending : ChangesBy(row)
  BY LiveState DEF MovesSending, Live, Unheard
<1>3. \A row \in MovesAcknowledging : ChangesBy(row)
  BY LiveState DEF MovesAcknowledging, Live, Unheard
<1>4. \A row \in MovesReceiving : ChangesBy(row)
  BY LiveState DEF MovesReceiving, Live, Unheard
<1>5. \A row \in MovesBroadcasting : ChangesBy(row)
  BY LiveState DEF MovesBroadcasting, Live, Unheard
<1>6. \A row \in MovesLeaving : ChangesBy(row)
  BY DEF MovesLeaving, Live, Unheard
<1>7. QED
  BY <1>1, <1>2, <1>3, <1>4, <1>5, <1>6 DEF Moves

-----------------------------------------------------------------------------
(* Steps of a node, to another.                                            *)

\* What the end of processEvent does with files.
Carries(n, c, data, orders) ==
  \/ /\ state'[n] = state[n] /\ hbq'[n] = hbq[n]
     /\ currentFile'[n] = currentFile[n] /\ dispq'[n] = orders
     /\ MovesFor(state[n], get_event_by_status_code(c), c) = {}
  \/ \E e :
       /\ hbq'[n] = Append(hbq[n], e)
       /\ Changes(state[n], c, e.status, state'[n])
       /\ state'[n] \notin SendingMetadataStates =>
            currentFile'[n] = currentFile[n]
       /\ state'[n] = "sending_new_file_metadata" =>
            /\ data # <<>> /\ e.file = Head(data) /\ currentFile'[n] = Head(data)
            /\ dispq'[n] = orders

KeepsOthers(n) ==
  \A k \in Node \ {n} :
    /\ state'[k] = state[k] /\ hbq'[k] = hbq[k]
    /\ currentFile'[k] = currentFile[k] /\ dispq'[k] = dispq[k]

LEMMA ContinueCarries ==
  ASSUME CInv, NEW n \in Node, NEW c, Live(state[n], c),
         NEW data, NEW meta, NEW stop, NEW orders,
         FsmContinue(n, c, data, meta, stop, orders)
  PROVE  Carries(n, c, data, orders) /\ KeepsOthers(n)
<1> DEFINE moves == MovesFor(state[n], get_event_by_status_code(c), c)
<1>0. /\ state \in [Node -> State] /\ hbq \in [Node -> Seq(Spoken)]
      /\ currentFile \in [Node -> File \cup {NoFile}]
      /\ dispq \in [Node -> Seq(WellFormedOrder)]
  BY Typed DEF CInv, NothingUnheard, BoxofficeTypeOK, WiresWellFormed
<1>1. CASE /\ moves = {}
           /\ dispq' = [dispq EXCEPT ![n] = orders]
           /\ UNCHANGED <<state, hbq, currentFile>>
  BY <1>0, <1>1 DEF Carries, KeepsOthers
<1>2. ASSUME NEW row \in moves, state' = [state EXCEPT ![n] = row[5]],
             UpdateHeartbeat(n, row[4], row[5], data, meta, stop, orders)
      PROVE  Carries(n, c, data, orders) /\ KeepsOthers(n)
  <2>1. row \in Moves /\ row[1] = state[n] /\ row[3] = c
        /\ row[2] # "node_only_sends_heartbeats"
    BY NobodyOnlyBeats DEF MovesFor
  <2>2. Changes(state[n], c, row[4], row[5])
    BY <2>1, RowsChange DEF ChangesBy
  <2>3. state'[n] = row[5] /\ \A k \in Node \ {n} : state'[k] = state[k]
    BY <1>0, <1>2
  <2>4. /\ \E f, g :
             /\ hbq' = [hbq EXCEPT ![n] = Append(@, Msg(row[4], f, g))]
             /\ row[5] = "sending_new_file_metadata" =>
                  /\ data # <<>> /\ f = Head(data)
                  /\ currentFile' = [currentFile EXCEPT ![n] = Head(data)]
                  /\ dispq' = [dispq EXCEPT ![n] = orders]
        /\ row[5] \notin SendingMetadataStates => UNCHANGED currentFile
        /\ \E f : currentFile' = [currentFile EXCEPT ![n] = f]
        /\ \E q : dispq' = [dispq EXCEPT ![n] = q]
    <3> DEFINE to == row[5]
    <3>1. CASE /\ to \in {"sending_new_file_metadata",
                          "sending_new_file_metadata_with_more"}
               /\ data # <<>>
               /\ hbq' = [hbq EXCEPT ![n] =
                            Append(@, Msg(row[4], Head(data), TRUE))]
               /\ currentFile' = [currentFile EXCEPT ![n] = Head(data)]
               /\ dispq' = [dispq EXCEPT ![n] = orders]
      <4>1. to \in SendingMetadataStates
        BY <3>1 DEF SendingMetadataStates
      <4>2. QED
        BY <3>1, <4>1
    <3>2. CASE /\ to \in {"sending_file_metadata_change",
                          "sending_file_metadata_change_with_more"}
               /\ hbq' = [hbq EXCEPT ![n] =
                            Append(@, Msg(row[4], Head(meta), FALSE))]
               /\ currentFile' = [currentFile EXCEPT ![n] = Head(meta)]
               /\ dispq' = [dispq EXCEPT ![n] = orders]
      <4>1. to \in SendingMetadataStates
        BY <3>2 DEF SendingMetadataStates
      <4>2. QED
        BY <3>2, <4>1
    <3>3. CASE /\ to \notin SendingMetadataStates
               /\ \E g : hbq' = [hbq EXCEPT ![n] =
                                   Append(@, Msg(row[4], NoFile, g))]
               /\ UNCHANGED currentFile
               /\ \E q : dispq' = [dispq EXCEPT ![n] = q]
      <4>1. to # "sending_new_file_metadata"
        BY <3>3 DEF SendingMetadataStates
      <4>2. currentFile' = [currentFile EXCEPT ![n] = currentFile[n]]
        BY <1>0, <3>3
      <4>3. QED
        BY <3>3, <4>1, <4>2
    <3>4. QED
      <4>1. \/ /\ to \in {"sending_new_file_metadata",
                          "sending_new_file_metadata_with_more"}
               /\ data # <<>>
               /\ hbq' = [hbq EXCEPT ![n] =
                            Append(@, Msg(row[4], Head(data), TRUE))]
               /\ currentFile' = [currentFile EXCEPT ![n] = Head(data)]
               /\ dispq' = [dispq EXCEPT ![n] = orders]
            \/ /\ to \in {"sending_file_metadata_change",
                          "sending_file_metadata_change_with_more"}
               /\ hbq' = [hbq EXCEPT ![n] =
                            Append(@, Msg(row[4], Head(meta), FALSE))]
               /\ currentFile' = [currentFile EXCEPT ![n] = Head(meta)]
               /\ dispq' = [dispq EXCEPT ![n] = orders]
            \/ /\ to \notin SendingMetadataStates
               /\ \E g : hbq' = [hbq EXCEPT ![n] =
                                   Append(@, Msg(row[4], NoFile, g))]
               /\ UNCHANGED currentFile
               /\ \E q : dispq' = [dispq EXCEPT ![n] = q]
        BY <1>2 DEF UpdateHeartbeat
      <4> HIDE DEF to
      <4>2. QED
        BY <3>1, <3>2, <3>3, <4>1
  <2>5. PICK f, g :
          /\ hbq' = [hbq EXCEPT ![n] = Append(@, Msg(row[4], f, g))]
          /\ row[5] = "sending_new_file_metadata" =>
               /\ data # <<>> /\ f = Head(data)
               /\ currentFile' = [currentFile EXCEPT ![n] = Head(data)]
               /\ dispq' = [dispq EXCEPT ![n] = orders]
    BY <2>4
  <2> DEFINE e == Msg(row[4], f, g)
  <2>6. e.status = row[4] /\ e.file = f
    BY DEF Msg
  <2>7. /\ hbq'[n] = Append(hbq[n], e)
        /\ \A k \in Node \ {n} : hbq'[k] = hbq[k]
    BY <1>0, <2>5
  <2> HIDE DEF e
  <2>8. KeepsOthers(n)
    BY <1>0, <2>3, <2>4, <2>7 DEF KeepsOthers
  <2>9. /\ state'[n] \notin SendingMetadataStates =>
             currentFile'[n] = currentFile[n]
        /\ state'[n] = "sending_new_file_metadata" =>
             /\ data # <<>> /\ e.file = Head(data) /\ currentFile'[n] = Head(data)
             /\ dispq'[n] = orders
    BY <1>0, <2>3, <2>4, <2>5, <2>6
  <2>10. Carries(n, c, data, orders)
    BY <2>2, <2>3, <2>6, <2>7, <2>9 DEF Carries
  <2>11. QED
    BY <2>8, <2>10
<1>3. QED
  BY <1>1, <1>2 DEF FsmContinue

\* What the dialogue says of a step of n.
Told(n, m) ==
  /\ RoleIn(state[n]) = "announcing" /\ RoleIn(state'[n]) = "sending" =>
       /\ RoleIn(state[m]) = "acknowledging"
       /\ \A w \in Words(n, m) : Voice(w.status) # "sending"
       /\ \A w \in Words(m, n)' : Voice(w.status) # "following"
  /\ RoleIn(state'[n]) = "sending" => RoleIn(state[n]) \in {"announcing", "sending"}
  /\ RoleIn(state[m]) = "sending" /\ RoleIn(state[n]) = "following" =>
       RoleIn(state'[n]) # "resting"

LEMMA TalksTold ==
  ASSUME DInv, DInv', NEW n \in Node, NEW m \in Peers(n), Talks(n, m)
  PROVE  Told(n, m)
<1> DEFINE r  == RoleIn(state[n])
           r1 == RoleIn(state'[n])
           s  == RoleIn(state[m])
           p  == Speech(n, m)
           q  == Speech(m, n)
           q1 == Speech(m, n)'
<1>1. PICK h : Turn(r, h, r1) /\ Loses(q1, q, h)
  BY DEF Talks
<1>2. RoleIn(state'[m]) = s /\ m \in Node /\ n \in Peers(m)
  BY DEF Talks, Peers
<1>3. Dialogue(r, p, s, q) /\ Dialogue(s, q, r, p)
  BY <1>2 DEF DInv, InDialogue
<1>4. Dialogue(s, q1, r1, Speech(n, m)')
  BY <1>2 DEF DInv, InDialogue
<1>5. /\ "resting" \in Role /\ "acknowledging" \in Role
  BY DEF Role
<1>6. \A w \in Words(n, m) : Says(p, Voice(w.status))
  BY SaysWords
<1>7. \A w \in Words(m, n)' : Says(q1, Voice(w.status))
  BY DEF Words, Of, Says, Speech, In
<1> HIDE DEF r, r1, s, p, q, q1
<1>8. r = "announcing" /\ r1 = "sending" =>
        /\ s = "acknowledging" /\ ~Says(p, "sending") /\ ~Says(q1, "following")
  BY <1>1, <1>3, <1>4, <1>5 DEF Turn, Loses, Dialogue
<1>9. s = "sending" /\ r = "following" => r1 # "resting"
  BY <1>1, <1>3, <1>5 DEF Turn, Loses, Dialogue
<1>10. r1 = "sending" => r \in {"announcing", "sending"}
  BY <1>1 DEF Turn
<1>11. QED
  BY <1>6, <1>7, <1>8, <1>9, <1>10 DEF Told, r, r1, s, p, q, q1

\* What changes for the worse is at most what a heartbeat without a file says.
Harmless(k) ==
  /\ state'[k] = state[k] /\ currentFile'[k] = currentFile[k]
  /\ phase'[k] = phase[k] /\ job'[k] = job[k]
  /\ notifiedDispatch'[k] => notifiedDispatch[k]
  /\ \A w \in Of(dispq'[k]) : w \in Of(dispq[k]) \/ w.status \notin {122, 177}
  /\ \A w \in {beat'[k]} \cup Of(hbq'[k]) : w.status # 200

HarmlessTo(k, l) ==
  /\ \A w \in Words(k, l)' :
       w \in Words(k, l) \/ w.status \notin {130, 140, 170}
  /\ \A w \in Of(net'[k][l]) : w \in Of(net[k][l]) \/ w.status # 200
  /\ Single(net'[k][l])

\* Everything said of the two nodes still holds.
Keeps(n, m) ==
  Orders(n)' /\ Orders(m)' /\ OnSameFile(n, m)' /\ OnSameFile(m, n)'

LEMMA HarmlessKeeps ==
  ASSUME NEW n \in Node, NEW m \in Peers(n), FilesAgree,
         Harmless(n), Harmless(m), HarmlessTo(n, m), HarmlessTo(m, n)
  PROVE  Keeps(n, m)
<1>1. m \in Node /\ n \in Peers(m)
  BY DEF Peers
<1>2. ASSUME NEW k \in Node, NEW l \in Peers(k), Harmless(k), Harmless(l),
             HarmlessTo(k, l), HarmlessTo(l, k)
      PROVE  Orders(k)' /\ OnSameFile(k, l)'
  <2>1. Orders(k) /\ Names(k, l) /\ Follows(l, k)
    BY DEF FilesAgree, OnSameFile
  <2>2. Orders(k)'
    BY <1>2, <2>1 DEF Orders, Harmless
  <2>3. Names(k, l)'
    BY <1>2, <2>1 DEF Names, Harmless, HarmlessTo
  <2>4. Follows(l, k)'
    BY <1>2, <2>1 DEF Follows, TakesData, Harmless, HarmlessTo
  <2>5. QED
    BY <2>2, <2>3, <2>4 DEF OnSameFile
<1>3. QED
  BY <1>1, <1>2 DEF Keeps

\* One order alone is of its statuses; send orders wait in one state only.
LEMMA OrdersOf ==
  ASSUME NEW S, NEW s, NEW ph, NEW q \in Seq(S), NEW p, NEW t, NEW notified,
         NEW stop, Fits(s, ph, q, p, t, notified, stop)
  PROVE  /\ \A w \in Of(q) : w.status \in {122, 177} =>
              s = "sending_new_file_metadata"
         /\ s \in DataStates /\ ph = "stopping" => q = <<>>
<1>1. ASSUME NEW statuses, OneOrder(q, statuses)
      PROVE  \A w \in Of(q) : w.status \in statuses
  <2>1. Len(q) = 1 /\ Head(q) = q[1] /\ DOMAIN q = {1} /\ Head(q).status \in statuses
    BY <1>1 DEF OneOrder
  <2>2. QED
    BY <2>1 DEF Of
<1>2. q = <<>> => Of(q) = {}
  BY DEF Of
<1>3. s \in EngagedStates \cup RestingStates
  BY DEF Fits
<1>4. CASE s \in RestingStates
  BY <1>2, <1>4 DEF Fits
<1>5. CASE s \in EngagedStates \ {"sending_new_file_metadata"}
  BY <1>1, <1>2, <1>5 DEF Fits, EngagedStates, DataStates
<1>6. CASE s = "sending_new_file_metadata"
  BY <1>6 DEF Fits, DataStates
<1>7. QED
  BY <1>3, <1>4, <1>5, <1>6

-----------------------------------------------------------------------------
(* The calls of processEvent that change the state.                        *)

\* A router step of n, that hears m or not.
Overhears(n, m) ==
  /\ UNCHANGED <<beat, phase, job>>
  /\ net'[n][m] = net[n][m]
  /\ \/ net'[m][n] = net[m][n]
     \/ net[m][n] # <<>> /\ net'[m][n] = Tail(net[m][n])
  /\ notifiedDispatch'[m] = notifiedDispatch[m]

\* Why a call of n has status c.
Prompted(n, m, c) ==
  /\ c = 113 => /\ net[m][n] # <<>> /\ Head(net[m][n]).status = 200
                /\ net'[m][n] = Tail(net[m][n])
  /\ c = 120 => ~notifiedDispatch'[n]
  /\ c = 130 => \E w \in Words(m, n) : w.status = 130
  /\ c = 132 /\ state[n] = "promoting_new_file_metadata" =>
       notifiedDispatch[n]
  /\ c = 142 => \E w \in Words(m, n) : w.status = 140
  /\ c = 173 => \E w \in Words(m, n) : w.status = 170

\* The orders that n gives in it.
Ordered(n, c, data, orders) ==
  /\ \A w \in Of(orders) :
       \/ w \in Of(dispq[n]) \/ w.status \notin {122, 177}
       \/ c \in {122, 177} /\ w.file = Head(data)
  /\ c \in {122, 177} =>
       MovesFor(state[n], get_event_by_status_code(c), c) # {}

\* What remains under way of what was said.
LEMMA OverhearsWords ==
  ASSUME CInv, FilesAgree, NEW n \in Node, NEW m \in Peers(n),
         Overhears(n, m), hbq'[m] = hbq[m]
  PROVE  /\ Words(m, n)' \subseteq Words(m, n)
         /\ Of(net'[m][n]) \subseteq Of(net[m][n])
         /\ Single(net'[m][n])
         /\ Words(n, m)' = Of(net[n][m]) \cup {beat[n]} \cup Of(hbq'[n])
<1>1. net[m][n] \in Seq(Spoken) /\ m \in Node /\ n \in Peers(m)
  BY DEF CInv, NothingUnheard, Peers
<1>2. Single(net[m][n])
  BY <1>1 DEF FilesAgree, OnSameFile, Names
<1>3. Of(net'[m][n]) \subseteq Of(net[m][n]) /\ Single(net'[m][n])
  <2>1. CASE net'[m][n] = net[m][n]
    BY <1>2, <2>1
  <2>2. CASE net[m][n] # <<>> /\ net'[m][n] = Tail(net[m][n])
    BY <1>1, <1>2, <2>2, OfTail, SingleTail
  <2>3. QED
    BY <2>1, <2>2 DEF Overhears
<1>4. Words(m, n)' \subseteq Words(m, n)
  BY <1>3 DEF Words, Overhears
<1>5. QED
  BY <1>3, <1>4 DEF Words, Overhears

\* A sender that changes its state and sends on.
LEMMA SendsOn ==
  ASSUME NEW s, NEW c, NEW d, NEW t, Changes(s, c, d, t),
         s \in EngagedStates \cup RestingStates,
         RoleIn(s) = "sending", RoleIn(t) = "sending"
  PROVE  \/ s = "sending_new_file_metadata" /\ t = "sending_new_file"
         \/ /\ s = "sending_file_metadata_change_with_more"
            /\ t \in {"sending_new_file_metadata",
                      "sending_new_file_metadata_with_more"}
<1>1. s \in {"sending_new_file_metadata", "sending_new_file_metadata_with_more",
             "sending_file_metadata_change",
             "sending_file_metadata_change_with_more", "sending_new_file"}
  <2>1. s \in SendingMetadataStates \cup SendingFileStates
    BY RoleOf
  <2>2. s \notin {"sending_new_file_with_more_alpha",
                  "sending_new_file_with_more_beta"}
    BY DEF EngagedStates, RestingStates, Unentered, MoreDataStates
  <2>3. QED
    BY <2>1, <2>2 DEF SendingMetadataStates, SendingFileStates
<1>2. t # "ready" /\ t # "syncing_stop"
  BY RoleOfEach
<1>3. QED
  BY <1>1, <1>2 DEF Changes

\* A call of processEvent keeps what is said of both nodes.
LEMMA CallKeeps ==
  ASSUME PInv, CInv', NEW n \in Node, NEW m \in Peers(n), Told(n, m),
         Overhears(n, m), notifiedDispatch'[n] => notifiedDispatch[n],
         NEW c, NEW data, NEW orders, Carries(n, c, data, orders),
         KeepsOthers(n), Prompted(n, m, c), Ordered(n, c, data, orders)
  PROVE  Keeps(n, m)
<1>1. m \in Node \ {n} /\ m \in Node /\ n \in Peers(m) /\ CInv /\ FilesAgree
  BY DEF Peers, PInv, DInv
<1>2. /\ Orders(n) /\ Orders(m) /\ Names(n, m) /\ Names(m, n)
      /\ Follows(n, m) /\ Follows(m, n)
  BY <1>1 DEF FilesAgree, OnSameFile
<1>3. /\ state'[m] = state[m] /\ hbq'[m] = hbq[m]
      /\ currentFile'[m] = currentFile[m] /\ dispq'[m] = dispq[m]
  BY <1>1 DEF KeepsOthers
<1>4. /\ beat'[n] = beat[n] /\ beat'[m] = beat[m]
      /\ phase'[n] = phase[n] /\ phase'[m] = phase[m]
      /\ job'[n] = job[n] /\ job'[m] = job[m]
      /\ notifiedDispatch'[m] = notifiedDispatch[m]
      /\ net'[n][m] = net[n][m]
  BY DEF Overhears
<1>5. /\ Words(m, n)' \subseteq Words(m, n)
      /\ Of(net'[m][n]) \subseteq Of(net[m][n])
      /\ Single(net'[m][n])
      /\ Words(n, m)' = Of(net[n][m]) \cup {beat[n]} \cup Of(hbq'[n])
  BY <1>1, <1>3, OverhearsWords
<1>6. CASE /\ state'[n] = state[n] /\ hbq'[n] = hbq[n]
           /\ currentFile'[n] = currentFile[n] /\ dispq'[n] = orders
           /\ MovesFor(state[n], get_event_by_status_code(c), c) = {}
  <2>1. Harmless(n)
    BY <1>2, <1>4, <1>6 DEF Harmless, Ordered, Orders
  <2>2. Harmless(m)
    BY <1>2, <1>3, <1>4 DEF Harmless, Orders
  <2>3. HarmlessTo(n, m)
    BY <1>2, <1>4, <1>5, <1>6 DEF HarmlessTo, Names, Words
  <2>4. HarmlessTo(m, n)
    BY <1>5 DEF HarmlessTo
  <2>5. QED
    BY <1>1, <2>1, <2>2, <2>3, <2>4, HarmlessKeeps
<1>7. ASSUME NEW e, hbq'[n] = Append(hbq[n], e),
             Changes(state[n], c, e.status, state'[n]),
             state'[n] \notin SendingMetadataStates =>
               currentFile'[n] = currentFile[n],
             state'[n] = "sending_new_file_metadata" =>
               /\ data # <<>> /\ e.file = Head(data)
               /\ currentFile'[n] = Head(data)
               /\ dispq'[n] = orders
      PROVE  Keeps(n, m)
  <2>1. /\ state[n] \in EngagedStates \cup RestingStates
        /\ hbq[n] \in Seq(Spoken) /\ net[m][n] \in Seq(Spoken)
    BY <1>1 DEF CInv, Coupled, NodeFits, Fits, NothingUnheard
  <2>2. Of(hbq'[n]) \subseteq Of(hbq[n]) \cup {e}
    BY <1>7, <2>1, OfAppend
  <2>3. Words(n, m)' \subseteq Words(n, m) \cup {e}
    BY <1>5, <2>2 DEF Words
  <2>4. /\ "sending_new_file" \notin SendingMetadataStates
        /\ "sending_fake_file" \notin SendingMetadataStates
        /\ "promoting_new_file_metadata" \notin SendingMetadataStates
    BY DEF SendingMetadataStates
  <2>5. /\ \A s \in DataStates : RoleIn(s) = "sending"
        /\ Voice(130) = "sending" /\ Voice(170) = "sending"
        /\ Voice(140) = "following"
    BY RoleOfEach DEF DataStates, Voice
  \* Only a sender of content is left behind by a 140.
  <2>6. ASSUME state[n] \in DataStates, state'[n] \notin DataStates
        PROVE  /\ phase[n] = "stopping"
               /\ \A w \in Of(net[n][m]) : w.status # 200
    <3>1. c = 142
      BY <1>7, <2>6 DEF Changes, DataStates
    <3>2. \E w \in Words(m, n) : w.status = 140
      BY <3>1 DEF Prompted
    <3>3. RoleIn(state[n]) = "sending"
      BY <2>5, <2>6
    <3>4. state[m] = "broadcasting_all_received"
      BY <1>2, <3>2, <3>3 DEF Follows
    <3>5. QED
      BY <1>2, <3>3, <3>4 DEF Follows
  <2>7. ASSUME state[n] \in DataStates, state'[n] \in DataStates
        PROVE  currentFile'[n] = currentFile[n]
    BY <1>7, <2>4, <2>7 DEF Changes, DataStates
  <2>8. Orders(n)'
    <3>1. phase'[n] \in {"armed_send", "sending"} =>
            state'[n] \in DataStates /\ job'[n].path = currentFile'[n].path
      BY <1>2, <1>4, <2>6, <2>7 DEF Orders
    <3>2. ASSUME NEW w \in Of(dispq'[n]), w.status \in {122, 177}
          PROVE  state'[n] \in DataStates /\ w.file.path = currentFile'[n].path
      <4>1. NodeFits(n)' /\ dispq'[n] \in Seq(WellFormedOrder)
        BY DEF CInv, IInv, PayloadsPresent, Coupled
      <4>2. state'[n] = "sending_new_file_metadata"
        <5> DEFINE q == dispq'[n]
        <5>1. Fits(state'[n], phase'[n], q, posts'[n], timingOffset'[n],
                   notifiedDispatch'[n], stopSync'[n])
          BY <4>1 DEF NodeFits
        <5>2. q \in Seq(WellFormedOrder) /\ w \in Of(q)
          BY <3>2, <4>1
        <5> HIDE DEF q
        <5>3. QED
          BY <3>2, <5>1, <5>2, OrdersOf
      <4>3. c \in {122, 177} /\ state[n] \notin DataStates
        BY <1>7, <4>2 DEF Changes, DataStates
      <4>4. w \notin Of(dispq[n])
        BY <1>2, <3>2, <4>3 DEF Orders
      <4>5. w.file = Head(data) /\ currentFile'[n] = Head(data)
        BY <1>7, <3>2, <4>2, <4>4 DEF Ordered
      <4>6. QED
        BY <4>2, <4>5 DEF DataStates
    <3>3. state'[n] = "acknowledging_new_file" => ~notifiedDispatch'[n]
      BY <1>7 DEF Changes, Prompted
    <3>4. \A w \in {beat'[n]} \cup Of(hbq'[n]) : w.status # 200
      BY <1>2, <1>4, <1>7, <2>2 DEF Orders, Changes
    <3>5. QED
      BY <3>1, <3>2, <3>3, <3>4 DEF Orders
  <2>9. Orders(m)'
    BY <1>2, <1>3, <1>4 DEF Orders
  \* What n said as a sender.
  <2>10. ASSUME RoleIn(state'[n]) = "sending", NEW w \in Words(n, m),
                RoleIn(state[n]) = "announcing"
         PROVE  w.status # 130 /\ w.status # 170
    BY <2>5, <2>10 DEF Told
  <2>11. ASSUME RoleIn(state'[n]) = "sending", RoleIn(state[n]) # "announcing"
         PROVE  \/ /\ state[n] = "sending_new_file_metadata"
                   /\ state'[n] = "sending_new_file"
                \/ /\ state[n] = "sending_file_metadata_change_with_more"
                   /\ state'[n] \in {"sending_new_file_metadata",
                                     "sending_new_file_metadata_with_more"}
    <3>1. RoleIn(state[n]) = "sending"
      BY <2>11 DEF Told
    <3>2. QED
      BY <1>7, <2>1, <2>11, <3>1, SendsOn
  <2>12. e.status = 130 => /\ state'[n] \in DataStates
                           /\ e.file.path = currentFile'[n].path
    BY <1>7 DEF Changes, DataStates
  <2>13. Names(n, m)'
    <3>1. ASSUME RoleIn(state'[n]) = "sending", NEW w \in Words(n, m)'
          PROVE  /\ w.status = 130 => /\ state'[n] \in DataStates
                                      /\ w.file.path = currentFile'[n].path
                 /\ w.status = 170 => state'[n] = "sending_file_metadata_change"
      <4>1. CASE w = e
        BY <1>7, <2>12, <4>1 DEF Changes
      <4>2. CASE w \in Words(n, m) /\ RoleIn(state[n]) = "announcing"
        BY <2>10, <3>1, <4>2
      <4>3. CASE w \in Words(n, m) /\ RoleIn(state[n]) # "announcing"
        <5>1. RoleIn(state[n]) = "sending"
          BY <3>1, <4>3 DEF Told
        <5>2. /\ w.status = 130 => /\ state[n] \in DataStates
                                   /\ w.file.path = currentFile[n].path
              /\ w.status = 170 => state[n] = "sending_file_metadata_change"
          BY <1>2, <4>3, <5>1 DEF Names
        <5>3. QED
          BY <2>7, <2>11, <3>1, <4>3, <5>2 DEF DataStates
      <4>4. QED
        BY <2>3, <3>1, <4>1, <4>2, <4>3
    <3>2. ASSUME NEW w \in Of(net'[n][m]), w.status = 200
          PROVE  /\ state'[n] \in DataStates /\ phase'[n] = "stopping"
                 /\ w.file.path = currentFile'[n].path
      <4>1. /\ w \in Of(net[n][m])
            /\ state[n] \in DataStates /\ phase[n] = "stopping"
            /\ w.file.path = currentFile[n].path
        BY <1>2, <1>4, <3>2 DEF Names
      <4>2. QED
        BY <1>4, <2>6, <2>7, <3>2, <4>1
    <3>3. Single(net'[n][m])
      BY <1>2, <1>4 DEF Names
    <3>4. QED
      BY <3>1, <3>2, <3>3 DEF Names
  <2>14. Follows(m, n)'
    <3> SUFFICES ASSUME RoleIn(state'[n]) = "sending"
                 PROVE  /\ state[m] = "broadcasting_all_metadata_received" =>
                             \/ state'[n] = "sending_file_metadata_change"
                             \/ ~notifiedDispatch[m]
                        /\ TakesData(m) =>
                             /\ state'[n] \in DataStates
                             /\ currentFile[m] # NoFile
                             /\ currentFile[m].path = currentFile'[n].path
                        /\ state[m] = "broadcasting_all_received" =>
                             /\ state'[n] \in DataStates /\ phase[n] = "stopping"
                             /\ \A w \in Of(net[n][m]) : w.status # 200
                        /\ \A w \in Words(m, n)' : w.status = 140 =>
                             state[m] = "broadcasting_all_received"
      BY <1>3, <1>4 DEF Follows, TakesData
    <3>1. CASE RoleIn(state[n]) = "announcing"
      <4>1. /\ RoleIn(state[m]) = "acknowledging"
            /\ \A w \in Words(m, n)' : Voice(w.status) # "following"
        BY <3>1 DEF Told
      <4>2. /\ state[m] \notin {"broadcasting_all_metadata_received",
                                "broadcasting_all_received"}
            /\ ~TakesData(m)
        BY <4>1, RoleOfEach DEF TakesData
      <4>3. QED
        BY <2>5, <4>1, <4>2
    <3>2. CASE RoleIn(state[n]) # "announcing"
      <4>1. RoleIn(state[n]) = "sending"
        BY <3>2 DEF Told
      <4>2. \/ /\ state[n] = "sending_new_file_metadata"
               /\ state'[n] = "sending_new_file"
            \/ /\ state[n] = "sending_file_metadata_change_with_more"
               /\ state'[n] \in {"sending_new_file_metadata",
                                 "sending_new_file_metadata_with_more"}
        BY <2>11, <3>2
      <4>3. state[n] # "sending_file_metadata_change"
            /\ (state[n] \in DataStates => /\ state'[n] \in DataStates
                                           /\ currentFile'[n] = currentFile[n])
        BY <2>7, <4>2 DEF DataStates
      <4>4. QED
        BY <1>2, <1>5, <4>1, <4>3 DEF Follows
    <3>3. QED
      BY <3>1, <3>2
  <2>15. Names(m, n)'
    BY <1>2, <1>3, <1>4, <1>5 DEF Names
  <2>16. Follows(n, m)'
    <3> SUFFICES ASSUME RoleIn(state[m]) = "sending"
                 PROVE  /\ state'[n] = "broadcasting_all_metadata_received" =>
                             state[m] = "sending_file_metadata_change"
                        /\ TakesData(n)' =>
                             /\ state[m] \in DataStates
                             /\ currentFile'[n] # NoFile
                             /\ currentFile'[n].path = currentFile[m].path
                        /\ state'[n] = "broadcasting_all_received" =>
                             /\ state[m] \in DataStates /\ phase[m] = "stopping"
                             /\ \A w \in Of(net'[m][n]) : w.status # 200
                        /\ \A w \in Words(n, m)' : w.status = 140 =>
                             state'[n] = "broadcasting_all_received"
      BY <1>3, <1>4 DEF Follows
    <3>1. ASSUME state'[n] = "broadcasting_all_metadata_received"
          PROVE  state[m] = "sending_file_metadata_change"
      <4>1. \E w \in Words(m, n) : w.status = 170
        BY <1>7, <3>1 DEF Changes, Prompted
      <4>2. QED
        BY <1>2, <4>1 DEF Names
    <3>2. ASSUME TakesData(n)'
          PROVE  TakesData(n) /\ currentFile'[n] = currentFile[n]
      <4>1. CASE state'[n] = "sending_fake_file"
        <5>1. state[n] = "promoting_new_file_metadata" /\ c = 132
          BY <1>7, <4>1 DEF Changes
        <5>2. QED
          BY <1>7, <2>4, <4>1, <5>1 DEF TakesData, Prompted
      <4>2. CASE state'[n] = "promoting_new_file_metadata" /\ notifiedDispatch'[n]
        <5>1. notifiedDispatch[n]
          BY <4>2
        <5>2. state[n] # "acknowledging_new_file"
          BY <1>2, <5>1 DEF Orders
        <5>3. state[n] = "broadcasting_all_metadata_received" /\ c = 130
          BY <1>7, <4>2, <5>2 DEF Changes
        <5>4. state[m] = "sending_file_metadata_change"
          BY <1>2, <5>1, <5>3 DEF Follows
        <5>5. \E w \in Words(m, n) : w.status = 130
          BY <5>3 DEF Prompted
        <5>6. state[m] \in DataStates
          BY <1>2, <5>5 DEF Names
        <5>7. QED
          BY <5>4, <5>6 DEF DataStates
      <4>3. QED
        BY <3>2, <4>1, <4>2 DEF TakesData
    <3>3. ASSUME state'[n] = "broadcasting_all_received"
          PROVE  /\ state[m] \in DataStates /\ phase[m] = "stopping"
                 /\ \A w \in Of(net'[m][n]) : w.status # 200
      <4>1. state[n] = "sending_fake_file" /\ c = 113
        BY <1>7, <3>3 DEF Changes
      <4>2. state[m] \in DataStates
        BY <1>2, <4>1 DEF Follows, TakesData
      <4>3. /\ net[m][n] # <<>> /\ Head(net[m][n]).status = 200
            /\ net'[m][n] = Tail(net[m][n])
        BY <4>1 DEF Prompted
      <4>4. Head(net[m][n]) \in Of(net[m][n])
        BY <2>1, <4>3, OfTail
      <4>5. phase[m] = "stopping" /\ Single(net[m][n])
        BY <1>2, <4>3, <4>4 DEF Names
      <4>6. \A w \in Of(Tail(net[m][n])) : w.status # 200
        BY <2>1, <4>3, <4>5, SingleTail
      <4>7. QED
        BY <4>2, <4>3, <4>5, <4>6
    <3>4. ASSUME NEW w \in Words(n, m)', w.status = 140
          PROVE  state'[n] = "broadcasting_all_received"
      <4>1. CASE w = e
        BY <1>7, <3>4, <4>1 DEF Changes
      <4>2. CASE w \in Words(n, m)
        <5>1. state[n] = "broadcasting_all_received"
          BY <1>2, <3>4, <4>2 DEF Follows
        <5>2. state'[n] = "syncing_stop"
          BY <1>7, <5>1 DEF Changes
        <5>3. RoleIn(state[n]) = "following" /\ RoleIn(state'[n]) = "resting"
          BY <5>1, <5>2, RoleOfEach
        <5>4. QED
          BY <5>3 DEF Told
      <4>3. QED
        BY <2>3, <3>4, <4>1, <4>2
    <3>5. TakesData(n)' =>
            /\ state[m] \in DataStates /\ currentFile'[n] # NoFile
            /\ currentFile'[n].path = currentFile[m].path
      BY <1>2, <3>2 DEF Follows
    <3>6. QED
      BY <3>1, <3>3, <3>4, <3>5
  <2>17. QED
    BY <2>8, <2>9, <2>13, <2>14, <2>15, <2>16 DEF Keeps, OnSameFile
<1>8. QED
  BY <1>6, <1>7 DEF Carries

-----------------------------------------------------------------------------
(* The actions.                                                            *)

\* A message of the peer.
LEMMA HeardKeeps ==
  ASSUME PInv, DInv', NEW n \in Node, NEW m \in Peers(n), PeerStep(n, m)
  PROVE  Keeps(n, m)
<1> DEFINE d == Heard(n, m).status
<1>0. /\ m \in Node \ {n} /\ m \in Node /\ n \in Peers(m)
      /\ CInv /\ CInv' /\ DInv /\ FilesAgree
  BY DEF Peers, PInv, DInv
<1>1. HearFrom(n, m) /\ UNCHANGED <<beat, phase, job>>
  BY DEF PeerStep, heartbeaterVars, dispatcherVars
<1>2. /\ state \in [Node -> State] /\ hbq \in [Node -> Seq(Spoken)]
      /\ currentFile \in [Node -> File \cup {NoFile}]
      /\ notifiedDispatch \in [Node -> BOOLEAN]
      /\ dispq \in [Node -> Seq(WellFormedOrder)]
      /\ net \in [Node -> [Node -> Seq(Spoken)]]
      /\ net \in [Node -> [Node -> Seq(WellFormed)]]
      /\ state[n] \in EngagedStates \cup RestingStates
  BY <1>0, Typed
  DEF CInv, NothingUnheard, BoxofficeTypeOK, WiresWellFormed, Coupled, NodeFits,
      Fits
<1>3. Told(n, m)
  BY <1>0, PeerStepTalks, TalksTold
<1>4. /\ Orders(n) /\ Orders(m) /\ Names(n, m) /\ Names(m, n)
      /\ Follows(n, m) /\ Follows(m, n)
  BY <1>0 DEF FilesAgree, OnSameFile
<1>5. ASSUME NEW statuses, Takes(n, m, statuses)
      PROVE  /\ d \in statuses \ Unheard
             /\ net[m][n] # <<>> /\ net'[m][n] = Tail(net[m][n])
             /\ net'[n][m] = net[n][m]
             /\ Heard(n, m) \in Words(m, n)
             /\ Heard(n, m) \in WellFormed
  <2>1. d \in statuses \ Unheard
    BY <1>0, <1>5, TakesSpoken
  <2>2. net[m][n] # <<>> /\ net' = [net EXCEPT ![m][n] = Tail(@)]
    BY <1>5 DEF Takes
  <2>3. net'[m][n] = Tail(net[m][n]) /\ net'[n][m] = net[n][m]
    BY <1>0, <1>2, <2>2
  <2>4. net[m][n] \in Seq(Spoken) /\ net[m][n] \in Seq(WellFormed)
    BY <1>0, <1>2
  <2>5. Head(net[m][n]) \in Of(net[m][n]) /\ Head(net[m][n]) \in WellFormed
    BY <2>2, <2>4, OfTail, HeadTailProperties
  <2>6. QED
    BY <2>1, <2>2, <2>3, <2>5 DEF Heard, Words
<1>6. ASSUME NEW statuses, Hears(n, m, statuses)
      PROVE  Takes(n, m, statuses)
  BY <1>6 DEF Hears
<1>7. ASSUME NEW statuses, Takes(n, m, statuses),
             notifiedDispatch'[m] = notifiedDispatch[m]
      PROVE  Overhears(n, m)
  BY <1>1, <1>5, <1>7 DEF Overhears
\* Without a change but the heartbeat 100.
<1>8. ASSUME NEW statuses, Takes(n, m, statuses),
             UNCHANGED <<state, currentFile, notifiedDispatch, dispq>>,
             \/ UNCHANGED hbq
             \/ \E e : e.status = 100 /\ hbq' = [hbq EXCEPT ![n] = Append(@, e)]
      PROVE  Keeps(n, m)
  <2>1. hbq'[m] = hbq[m]
    BY <1>0, <1>2, <1>8
  <2>2. /\ Words(m, n)' \subseteq Words(m, n)
        /\ Of(net'[m][n]) \subseteq Of(net[m][n])
        /\ Single(net'[m][n])
        /\ Words(n, m)' = Of(net[n][m]) \cup {beat[n]} \cup Of(hbq'[n])
    BY <1>0, <1>7, <1>8, <2>1, OverhearsWords
  <2>3. \A w \in Of(hbq'[n]) : w \in Of(hbq[n]) \/ w.status = 100
    <3>1. CASE UNCHANGED hbq
      BY <3>1
    <3>2. ASSUME NEW e, e.status = 100, hbq' = [hbq EXCEPT ![n] = Append(@, e)]
          PROVE  \A w \in Of(hbq'[n]) : w \in Of(hbq[n]) \/ w.status = 100
      <4>1. hbq'[n] = Append(hbq[n], e) /\ hbq[n] \in Seq(Spoken)
        BY <1>2, <3>2
      <4>2. Of(hbq'[n]) \subseteq Of(hbq[n]) \cup {e}
        BY <4>1, OfAppend
      <4>3. QED
        BY <3>2, <4>2
    <3>3. QED
      BY <1>8, <3>1, <3>2
  <2>4. Harmless(n) /\ Harmless(m)
    BY <1>1, <1>4, <1>8, <2>1, <2>3 DEF Harmless, Orders
  <2>5. HarmlessTo(n, m)
    BY <1>4, <1>5, <1>8, <2>2, <2>3 DEF HarmlessTo, Words, Names
  <2>6. HarmlessTo(m, n)
    BY <2>2 DEF HarmlessTo
  <2>7. QED
    BY <1>0, <2>4, <2>5, <2>6, HarmlessKeeps
\* With a call of the state machine.
<1>9. ASSUME NEW statuses, Takes(n, m, statuses), NEW c, Live(state[n], c),
             NEW data, NEW meta, NEW stop, NEW orders,
             FsmContinue(n, c, data, meta, stop, orders),
             \/ UNCHANGED notifiedDispatch
             \/ notifiedDispatch' = [notifiedDispatch EXCEPT ![n] = FALSE],
             Prompted(n, m, c), Ordered(n, c, data, orders)
      PROVE  Keeps(n, m)
  <2>1. Carries(n, c, data, orders) /\ KeepsOthers(n)
    BY <1>0, <1>9, ContinueCarries
  <2>2. /\ notifiedDispatch'[n] => notifiedDispatch[n]
        /\ notifiedDispatch'[m] = notifiedDispatch[m]
    BY <1>0, <1>2, <1>9
  <2>3. Overhears(n, m)
    BY <1>7, <1>9, <2>2
  <2>4. QED
    BY <1>0, <1>3, <1>9, <2>1, <2>2, <2>3, CallKeeps
<1>10. ASSUME NEW c \in HeartbeatStatus \cup {113, 142, 162, 166, 172, 173, 174,
                                             122, 177, 178},
              c \notin Unheard
       PROVE  Live(state[n], c)
  BY <1>2, <1>10 DEF Live, HeartbeatStatus
<1>11. ASSUME NEW c, c \notin {122, 177}, NEW data
       PROVE  Ordered(n, c, data, dispq[n])
  BY <1>11 DEF Ordered
<1>12. ASSUME NEW statuses, Hears(n, m, statuses), d \in HeartbeatStatus \ {120},
              PlainContinue(n, d), UNCHANGED notifiedDispatch
       PROVE  Keeps(n, m)
  <2>1. /\ Takes(n, m, statuses) /\ d \notin Unheard
        /\ Heard(n, m) \in Words(m, n)
    BY <1>5, <1>6, <1>12
  <2>2. d \notin {113, 120, 122, 132, 142, 173, 177}
    BY <1>12 DEF HeartbeatStatus
  <2>3. Prompted(n, m, d)
    BY <2>1, <2>2 DEF Prompted
  <2>4. Live(state[n], d) /\ Ordered(n, d, fileListData[n], dispq[n])
    BY <1>10, <1>11, <1>12, <2>1, <2>2
  <2> HIDE DEF d
  <2>5. QED
    BY <1>9, <1>12, <2>1, <2>3, <2>4 DEF PlainContinue
<1> HIDE DEF d
<1>13. CASE IgnoreMessage(n, m)
  BY <1>8, <1>13 DEF IgnoreMessage, boVars
<1>14. CASE HearPlain(n, m)
  <2>1. /\ Hears(n, m, HeartbeatStatus) /\ PlainContinue(n, d)
        /\ UNCHANGED notifiedDispatch /\ d # 120
    BY <1>14 DEF HearPlain, d
  <2>2. QED
    BY <1>5, <1>6, <1>12, <2>1
<1>15. CASE Hear100(n, m)
  BY <1>6, <1>8, <1>15 DEF Hear100
<1>16. CASE HearReply(n, m)
  <2>1. /\ Hears(n, m, ReplyStatus) /\ PlainContinue(n, d)
        /\ UNCHANGED notifiedDispatch
    BY <1>16 DEF HearReply, d
  <2>2. d \in HeartbeatStatus \ {120}
    BY <1>5, <1>6, <2>1 DEF ReplyStatus, HeartbeatStatus
  <2>3. QED
    BY <1>12, <2>1, <2>2
<1>17. CASE HearLastReply(n, m)
  <2> DEFINE c == StatusOnceAllReplied(n, d)
             data == fileListData[n]
             stop == stopSync[n]
             orders == SendOrders(n, c)
  <2>1. /\ Takes(n, m, ReplyStatus) /\ d \in ReplyStatus \ Unheard
        /\ Heard(n, m) \in Words(m, n) /\ UNCHANGED notifiedDispatch
    BY <1>5, <1>6, <1>17 DEF HearLastReply
  <2>2. /\ c \in {122, 162, 166, 142, 174, 178, 177, 172}
        /\ c = 142 => d = 140
    BY <2>1 DEF StatusOnceAllReplied, ReplyStatus
  <2>3. \/ UNCHANGED <<state, currentFile, hbq, dispq>>
        \/ /\ Accepts(n, c)
           /\ FsmContinue(n, c, data, fileListMetadata[n], stop, orders)
    BY <1>17 DEF HearLastReply, d
  <2>4. ASSUME Accepts(n, c)
        PROVE  Ordered(n, c, data, orders)
    <3>1. CASE c \notin {122, 177}
      BY <1>11, <3>1 DEF SendOrders
    <3>2. CASE c \in {122, 177}
      <4> DEFINE order == Msg(c, Head(data), TRUE)
      <4>1. orders = Append(dispq[n], order) /\ order.file = Head(data)
        BY <3>2 DEF SendOrders, Msg
      <4>2. MovesFor(state[n], get_event_by_status_code(c), c) # {}
        BY <2>4, <3>2, OrdersMove DEF Accepts, check_event
      <4>3. dispq[n] \in Seq(WellFormedOrder)
        BY <1>2
      <4> HIDE DEF order, orders, c, data
      <4>4. Of(orders) \subseteq Of(dispq[n]) \cup {order}
        BY <4>1, <4>3, OfAppend
      <4>5. QED
        BY <3>2, <4>1, <4>2, <4>4 DEF Ordered
    <3>3. QED
      BY <3>1, <3>2
  <2>5. Prompted(n, m, c)
    BY <2>1, <2>2 DEF Prompted, d
  <2>6. Live(state[n], c)
    BY <1>10, <2>2 DEF Unheard
  <2> HIDE DEF c, data, stop, orders
  <2>7. QED
    BY <1>8, <1>9, <2>1, <2>3, <2>4, <2>5, <2>6
<1>18. CASE HearAnnouncement(n, m)
  <2> DEFINE c == 120
  <2>1. /\ Takes(n, m, {120, 124}) /\ d = c /\ PlainContinue(n, d)
        /\ notifiedDispatch' = [notifiedDispatch EXCEPT ![n] = FALSE]
    <3>1. Hears(n, m, {120, 124}) /\ PlainContinue(n, d)
          /\ notifiedDispatch' = [notifiedDispatch EXCEPT ![n] = FALSE]
      BY <1>18 DEF HearAnnouncement, d
    <3>2. Takes(n, m, {120, 124}) /\ d \in {120, 124} \ Unheard
      BY <1>5, <1>6, <3>1
    <3>3. QED
      BY <3>1, <3>2 DEF Unheard
  <2>2. ~notifiedDispatch'[n]
    BY <1>2, <2>1
  <2>3. /\ Prompted(n, m, c) /\ Ordered(n, c, fileListData[n], dispq[n])
        /\ Live(state[n], c)
    BY <1>10, <1>11, <2>2 DEF Prompted, HeartbeatStatus, Unheard
  <2> HIDE DEF c
  <2>4. QED
    BY <1>9, <2>1, <2>3 DEF PlainContinue
<1>19. CASE Hear160(n, m)
  <2>1. /\ Hears(n, m, {160}) /\ PlainContinue(n, 160)
        /\ UNCHANGED notifiedDispatch
    BY <1>19 DEF Hear160
  <2>2. d = 160
    BY <1>5, <1>6, <2>1
  <2>3. d \in HeartbeatStatus \ {120} /\ PlainContinue(n, d)
    BY <2>1, <2>2 DEF HeartbeatStatus
  <2>4. QED
    BY <1>12, <2>1, <2>3
<1>20. CASE Hear170(n, m)
  <2> DEFINE c == 173
  <2>1. /\ Takes(n, m, {170}) /\ PlainContinue(n, c)
        /\ UNCHANGED notifiedDispatch
    BY <1>6, <1>20 DEF Hear170
  <2>2. Heard(n, m) \in Words(m, n) /\ Heard(n, m).status = 170
    BY <1>5, <2>1 DEF d
  <2>3. /\ Prompted(n, m, c) /\ Ordered(n, c, fileListData[n], dispq[n])
        /\ Live(state[n], c)
    BY <1>10, <1>11, <2>2 DEF Prompted, Unheard
  <2> HIDE DEF c
  <2>4. QED
    BY <1>9, <2>1, <2>3 DEF PlainContinue
<1>21. CASE Hear155(n, m)
  <2> DEFINE c == 155
             stop == TRUE
             order == StopOrder(Heard(n, m))
             orders == Append(dispq[n], order)
  <2>1. /\ Takes(n, m, {155}) /\ UNCHANGED notifiedDispatch
        /\ FsmContinue(n, c, fileListData[n], fileListMetadata[n], stop, orders)
    BY <1>6, <1>21 DEF Hear155
  <2>2. Prompted(n, m, c) /\ Live(state[n], c)
    BY <1>10 DEF Prompted, Unheard, HeartbeatStatus
  <2>3. order.status = 155 /\ dispq[n] \in Seq(WellFormedOrder)
    BY <1>2 DEF StopOrder, Msg
  <2> HIDE DEF order
  <2>4. Of(orders) \subseteq Of(dispq[n]) \cup {order}
    BY <2>3, OfAppend
  <2>5. Ordered(n, c, fileListData[n], orders)
    BY <2>3, <2>4 DEF Ordered
  <2> HIDE DEF c, stop, orders
  <2>6. QED
    BY <1>9, <2>1, <2>2, <2>5
<1>22. CASE HearData(n, m)
  <2> DEFINE c == 113
  <2>1. /\ Takes(n, m, {200}) /\ PlainContinue(n, c)
        /\ UNCHANGED notifiedDispatch
    BY <1>6, <1>22 DEF HearData, StoreData
  <2>2. /\ net[m][n] # <<>> /\ Head(net[m][n]).status = 200
        /\ net'[m][n] = Tail(net[m][n])
    BY <1>5, <2>1 DEF d, Heard
  <2>3. /\ Prompted(n, m, c) /\ Ordered(n, c, fileListData[n], dispq[n])
        /\ Live(state[n], c)
    BY <1>10, <1>11, <2>2 DEF Prompted, Unheard
  <2> HIDE DEF c
  <2>4. QED
    BY <1>9, <2>1, <2>3 DEF PlainContinue
<1>23. CASE Hear150InReady(n, m)
  <2> DEFINE e == Msg(100, NoFile, FALSE)
  <2>1. /\ Takes(n, m, {150})
        /\ UNCHANGED <<state, currentFile, notifiedDispatch, dispq>>
        /\ hbq' = [hbq EXCEPT ![n] =
                     IF @ # <<>> /\ @[Len(@)] = e THEN @ ELSE Append(@, e)]
    BY <1>6, <1>23 DEF Hear150InReady, boVars
  <2>2. e.status = 100
    BY DEF Msg
  <2> HIDE DEF e
  <2>3. hbq' = hbq \/ hbq' = [hbq EXCEPT ![n] = Append(@, e)]
    BY <1>2, <2>1
  <2>4. QED
    BY <1>8, <2>1, <2>2, <2>3, ZenonT(40)
\* The two calls that set current_file_ themselves.
<1>24. ASSUME NEW statuses, Takes(n, m, statuses),
              RoleIn(state[n]) = "following", RoleIn(state'[n]) = "following",
              \A k \in Node \ {n} :
                /\ state'[k] = state[k] /\ hbq'[k] = hbq[k]
                /\ currentFile'[k] = currentFile[k] /\ dispq'[k] = dispq[k]
                /\ notifiedDispatch'[k] = notifiedDispatch[k],
              \A w \in Of(dispq'[n]) : w \in Of(dispq[n]) \/ w.status = 130,
              \A w \in Of(hbq'[n]) : w \in Of(hbq[n]) \/ w.status = 141,
              state[n] # "broadcasting_all_received",
              state'[n] # "broadcasting_all_received",
              state'[n] = "broadcasting_all_metadata_received" =>
                ~notifiedDispatch'[n],
              TakesData(n)' =>
                Heard(n, m).status = 130 /\ currentFile'[n] = Heard(n, m).file
       PROVE  Keeps(n, m)
  <2>1. /\ state'[m] = state[m] /\ hbq'[m] = hbq[m]
        /\ currentFile'[m] = currentFile[m] /\ dispq'[m] = dispq[m]
        /\ notifiedDispatch'[m] = notifiedDispatch[m]
    BY <1>0, <1>24
  <2>2. /\ Words(m, n)' \subseteq Words(m, n)
        /\ Of(net'[m][n]) \subseteq Of(net[m][n])
        /\ Single(net'[m][n])
        /\ Words(n, m)' = Of(net[n][m]) \cup {beat[n]} \cup Of(hbq'[n])
    BY <1>0, <1>7, <1>24, <2>1, OverhearsWords
  <2>3. /\ state[n] \notin DataStates
        /\ state'[n] # "acknowledging_new_file"
    BY <1>24, RoleOfEach DEF DataStates
  <2>4. Orders(n)'
    BY <1>1, <1>4, <1>24, <2>3 DEF Orders
  <2>5. Orders(m)'
    BY <1>1, <1>4, <2>1 DEF Orders
  <2>6. Names(n, m)'
    BY <1>4, <1>5, <1>24, <2>3 DEF Names
  <2>7. Follows(m, n)'
    BY <1>24 DEF Follows
  <2>8. Names(m, n)'
    BY <1>1, <1>4, <2>1, <2>2 DEF Names
  <2>9. Follows(n, m)'
    <3> SUFFICES ASSUME RoleIn(state[m]) = "sending"
                 PROVE  /\ TakesData(n)' =>
                             /\ state[m] \in DataStates
                             /\ currentFile'[n] # NoFile
                             /\ currentFile'[n].path = currentFile[m].path
                        /\ \A w \in Words(n, m)' : w.status # 140
      BY <1>24, <2>1 DEF Follows
    <3>1. ASSUME TakesData(n)'
          PROVE  /\ state[m] \in DataStates
                 /\ currentFile'[n] # NoFile
                 /\ currentFile'[n].path = currentFile[m].path
      <4>1. /\ Heard(n, m) \in Words(m, n) /\ Heard(n, m) \in WellFormed
            /\ Heard(n, m).status = 130
        BY <1>5, <1>24, <3>1
      <4>2. /\ state[m] \in DataStates
            /\ Heard(n, m).file.path = currentFile[m].path
        BY <1>4, <4>1 DEF Names
      <4>3. Heard(n, m).file # NoFile
        BY <4>1 DEF WellFormed, Carrying
      <4>4. QED
        BY <1>24, <3>1, <4>2, <4>3
    <3>2. \A w \in Words(n, m)' : w.status # 140
      BY <1>4, <1>24, <2>2 DEF Follows, Words
    <3>3. QED
      BY <3>1, <3>2
  <2>10. QED
    BY <2>4, <2>5, <2>6, <2>7, <2>8, <2>9 DEF Keeps, OnSameFile
<1>25. CASE Hear130(n, m)
  <2> DEFINE order == Msg(130, NoFile, TRUE)
  <2>1. /\ Takes(n, m, {130})
        /\ state[n] = "promoting_new_file_metadata"
        /\ currentFile' = [currentFile EXCEPT ![n] = Heard(n, m).file]
        /\ dispq' = [dispq EXCEPT ![n] = Append(@, order)]
        /\ notifiedDispatch' = [notifiedDispatch EXCEPT ![n] = TRUE]
        /\ UNCHANGED <<state, hbq>>
    BY <1>6, <1>25 DEF Hear130, Promote, ArmsDispatcher
  <2>2. Heard(n, m).status = 130
    BY <1>5, <2>1 DEF d
  <2>3. order.status = 130
    BY DEF Msg
  <2> HIDE DEF order
  <2>4. /\ dispq'[n] = Append(dispq[n], order)
        /\ currentFile'[n] = Heard(n, m).file
        /\ dispq[n] \in Seq(WellFormedOrder)
        /\ \A k \in Node \ {n} :
             /\ currentFile'[k] = currentFile[k] /\ dispq'[k] = dispq[k]
             /\ notifiedDispatch'[k] = notifiedDispatch[k]
    BY <1>2, <2>1
  <2>5. Of(dispq'[n]) \subseteq Of(dispq[n]) \cup {order}
    BY <2>4, OfAppend
  <2>6. RoleIn(state[n]) = "following" /\ RoleIn(state'[n]) = "following"
    BY <2>1, RoleOfEach
  <2>7. \A w \in Of(dispq'[n]) : w \in Of(dispq[n]) \/ w.status = 130
    BY <2>3, <2>5
  <2>8. QED
    BY <1>24, <2>1, <2>2, <2>4, <2>6, <2>7
<1>26. CASE Hear174(n, m)
  <2> DEFINE e == Msg(141, NoFile, FALSE)
  <2>1. /\ Takes(n, m, {174})
        /\ state[n] = "receiving_file_metadata_change_with_more"
        /\ notifiedDispatch' = [notifiedDispatch EXCEPT ![n] = FALSE]
        /\ state' = [state EXCEPT ![n] = "broadcasting_all_metadata_received"]
        /\ hbq' = [hbq EXCEPT ![n] = Append(@, e)]
        /\ currentFile' = [currentFile EXCEPT ![n] = Heard(n, m).file]
        /\ UNCHANGED dispq
    BY <1>6, <1>26 DEF Hear174
  <2>2. e.status = 141
    BY DEF Msg
  <2> HIDE DEF e
  <2>3. /\ hbq'[n] = Append(hbq[n], e) /\ hbq[n] \in Seq(Spoken)
        /\ state'[n] = "broadcasting_all_metadata_received"
        /\ ~notifiedDispatch'[n]
        /\ \A k \in Node \ {n} :
             /\ state'[k] = state[k] /\ hbq'[k] = hbq[k]
             /\ currentFile'[k] = currentFile[k]
             /\ notifiedDispatch'[k] = notifiedDispatch[k]
    BY <1>2, <2>1
  <2>4. Of(hbq'[n]) \subseteq Of(hbq[n]) \cup {e}
    BY <2>3, OfAppend
  <2>5. RoleIn(state[n]) = "following" /\ RoleIn(state'[n]) = "following"
    BY <2>1, <2>3, RoleOfEach
  <2>6. \A w \in Of(hbq'[n]) : w \in Of(hbq[n]) \/ w.status = 141
    BY <2>2, <2>4
  <2>7. ~TakesData(n)'
    BY <2>3 DEF TakesData
  <2>8. QED
    BY <1>24, <2>1, <2>3, <2>5, <2>6, <2>7
<1>27. QED
  BY <1>1, <1>13, <1>14, <1>15, <1>16, <1>17, <1>18, <1>19, <1>20, <1>21,
     <1>22, <1>23, <1>25, <1>26
  DEF HearFrom

\* A 132 or 156 of n's dispatcher.
LEMMA PostKeeps ==
  ASSUME PInv, DInv', NEW n \in Node, NEW m \in Peers(n), PostStep(n)
  PROVE  Keeps(n, m)
<1> DEFINE c == Head(posts[n])
           data == fileListData[n]
           orders == dispq[n]
<1>0. CInv /\ CInv' /\ DInv
  BY DEF PInv, DInv
<1>1. /\ posts[n] # <<>>
      /\ FsmContinue(n, c, data, fileListMetadata[n], stopSync[n], orders)
      /\ UNCHANGED <<net, beat, phase, job, notifiedDispatch>>
  BY DEF PostStep, HearDispatcher, PlainContinue, heartbeaterVars,
         dispatcherVars
<1>2. /\ c \in {132, 156} /\ NodeFits(n)
      /\ state[n] \in EngagedStates \cup RestingStates
  <2>1. posts[n] \in Seq({132, 156})
    BY <1>0, Typed DEF CInv, WiresWellFormed
  <2>2. QED
    BY <1>0, <1>1, <2>1, HeadTailProperties DEF CInv, Coupled, NodeFits, Fits
<1>3. state[n] \in RestingStates => posts[n] = <<>>
  BY <1>2 DEF NodeFits, Fits
<1>4. state[n] = "promoting_new_file_metadata" => notifiedDispatch[n]
  BY <1>1, <1>2 DEF NodeFits, Fits
<1> HIDE DEF c
<1>5. Live(state[n], c)
  <2>1. "sending_new_file_metadata_with_more" \in RestingStates
    BY DEF RestingStates, EngagedStates, Unentered, MoreDataStates, State,
           SendingMetadataStates
  <2>2. state[n] # "sending_new_file_metadata_with_more"
    BY <1>1, <1>3, <2>1
  <2>3. QED
    BY <1>2, <2>2 DEF Live, Unheard
<1>6. Prompted(n, m, c) /\ Ordered(n, c, data, orders)
  BY <1>2, <1>4 DEF Prompted, Ordered
<1>7. Overhears(n, m)
  BY <1>1 DEF Overhears
<1>8. Told(n, m)
  BY <1>0, PostStepTalks, TalksTold
<1> HIDE DEF data, orders
<1>9. Carries(n, c, data, orders) /\ KeepsOthers(n)
  BY <1>0, <1>1, <1>5, ContinueCarries
<1>10. notifiedDispatch'[n] => notifiedDispatch[n]
  BY <1>1
<1>11. QED
  BY <1>0, <1>6, <1>7, <1>8, <1>9, <1>10, CallKeeps

\* Nothing that matters here changes.
LEMMA StillKeeps ==
  ASSUME PInv, NEW n \in Node, NEW m \in Peers(n),
         UNCHANGED <<state, currentFile, notifiedDispatch, dispq, hbq, beat,
                     phase, job, net>>
  PROVE  Keeps(n, m)
<1>1. m \in Node /\ n \in Peers(m) /\ FilesAgree
  BY DEF Peers, PInv
<1>2. Orders(n) /\ Orders(m) /\ Names(n, m) /\ Names(m, n)
  BY <1>1 DEF FilesAgree, OnSameFile
<1>3. Harmless(n) /\ Harmless(m)
  BY <1>2 DEF Harmless, Orders
<1>4. HarmlessTo(n, m) /\ HarmlessTo(m, n)
  BY <1>2 DEF HarmlessTo, Names, Words
<1>5. QED
  BY <1>1, <1>3, <1>4, HarmlessKeeps

\* A change n's box reports.
LEMMA BoxKeeps ==
  ASSUME PInv, DInv', NEW n \in Node, NEW m \in Peers(n), BoxStep(n)
  PROVE  Keeps(n, m)
<1>0. CInv /\ CInv' /\ DInv
  BY DEF PInv, DInv
<1>1. PICK status \in LocalStatus : HearLocal(n, status)
  BY DEF BoxStep
<1>2. /\ UNCHANGED <<net, beat, phase, job, notifiedDispatch>>
      /\ state[n] \in EngagedStates \cup RestingStates
  BY <1>0, <1>1, SMTT(30)
  DEF BoxStep, heartbeaterVars, dispatcherVars, HearLocal, IgnoreLocal,
      LocalPathTooLong, LocalFileMissing, LocalReportedTwice, LocalQueued,
      TakesLocal, CInv, Coupled, NodeFits, Fits
<1>3. CASE UNCHANGED <<state, currentFile, hbq, dispq>>
  BY <1>2, <1>3, StillKeeps
<1>4. ASSUME NEW c \in {301} \cup LocalStatus, Live(state[n], c),
             NEW data, NEW meta, NEW stop,
             FsmContinue(n, c, data, meta, stop, dispq[n])
      PROVE  Keeps(n, m)
  <2> DEFINE orders == dispq[n]
  <2>1. c \notin {113, 120, 122, 130, 132, 142, 173, 177}
    BY <1>4 DEF LocalStatus, NoStatus
  <2>2. Prompted(n, m, c) /\ Ordered(n, c, data, orders)
    BY <2>1 DEF Prompted, Ordered
  <2>3. Overhears(n, m)
    BY <1>2 DEF Overhears
  <2>4. Told(n, m)
    BY <1>0, BoxStepTalks, TalksTold
  <2>5. FsmContinue(n, c, data, meta, stop, orders)
    BY <1>4
  <2> HIDE DEF orders
  <2>6. Carries(n, c, data, orders) /\ KeepsOthers(n)
    BY <1>0, <1>4, <2>5, ContinueCarries
  <2>7. notifiedDispatch'[n] => notifiedDispatch[n]
    BY <1>2
  <2>8. QED
    BY <1>0, <2>2, <2>3, <2>4, <2>6, <2>7, CallKeeps
<1>5. CASE LocalReportedTwice(n, status)
  <2> DEFINE c == 301
  <2>1. PlainContinue(n, c) /\ Live(state[n], c) /\ c \in {301}
    BY <1>2, <1>5 DEF LocalReportedTwice, Live, Unheard
  <2> HIDE DEF c
  <2>2. QED
    BY <1>4, <2>1 DEF PlainContinue
<1>6. CASE LocalQueued(n, status)
  <2> DEFINE f    == NewLocalFile(n, LocalEvent(n))
             data == IF status = 300 THEN Append(fileListData[n], f)
                                     ELSE fileListData[n]
             meta == IF status = 320 THEN Append(fileListMetadata[n], f)
                                     ELSE fileListMetadata[n]
  <2>1. /\ FsmContinue(n, status, data, meta, stopSync[n], dispq[n])
        /\ state[n] # "announcing_new_file"
    BY <1>6 DEF LocalQueued
  <2>2. Live(state[n], status)
    BY <1>2, <2>1 DEF Live, Unheard, LocalStatus, NoStatus
  <2> HIDE DEF data, meta
  <2>3. QED
    BY <1>4, <2>1, <2>2
<1>7. QED
  BY <1>1, <1>3, <1>5, <1>6
  DEF HearLocal, IgnoreLocal, LocalPathTooLong, LocalFileMissing

\* A step of n's heartbeater repeats what n has said.
LEMMA BeatKeeps ==
  ASSUME PInv, NEW n \in Node, NEW m \in Peers(n), HeartbeaterStep(n)
  PROVE  Keeps(n, m)
<1>0. /\ m \in Node \ {n} /\ m \in Node /\ n \in Peers(m)
      /\ CInv /\ FilesAgree
  BY DEF Peers, PInv, DInv
<1>1. /\ Publish(n, beat[n]) /\ PopUpdate(n)
      /\ UNCHANGED <<state, currentFile, notifiedDispatch, dispq, phase, job>>
  BY DEF HeartbeaterStep, Beat, boVars, dispatcherVars
<1>2. /\ Orders(n) /\ Orders(m) /\ Names(n, m) /\ Names(m, n)
  BY <1>0 DEF FilesAgree, OnSameFile
<1>3. /\ net[n][m] \in Seq(Spoken) /\ hbq \in [Node -> Seq(Spoken)]
      /\ hbq[n] \in Seq(Spoken) /\ beat \in [Node -> Spoken]
  BY <1>0 DEF CInv, NothingUnheard
<1>4. /\ net'[n][m] = net[n][m] \/ net'[n][m] = Append(net[n][m], beat[n])
      /\ net'[m][n] = net[m][n]
  BY <1>1, PublishTo
<1>5. beat[n].status # 200
  BY <1>2 DEF Orders
<1>6. /\ Of(net'[n][m]) \subseteq Of(net[n][m]) \cup {beat[n]}
      /\ Single(net'[n][m])
  <2>1. Single(net[n][m])
    BY <1>2 DEF Names
  <2>2. CASE net'[n][m] = net[n][m]
    BY <2>1, <2>2
  <2>3. CASE net'[n][m] = Append(net[n][m], beat[n])
    BY <1>3, <1>5, <2>1, <2>3, OfAppend, SingleAppend
  <2>4. QED
    BY <1>4, <2>2, <2>3
<1>7. /\ {beat'[n]} \cup Of(hbq'[n]) \subseteq {beat[n]} \cup Of(hbq[n])
      /\ beat'[m] = beat[m] /\ hbq'[m] = hbq[m]
  <2>1. CASE hbq[n] = <<>>
    BY <1>1, <2>1 DEF PopUpdate
  <2>2. CASE hbq[n] # <<>>
    <3>1. /\ beat'[n] = Head(hbq[n]) /\ hbq'[n] = Tail(hbq[n])
          /\ beat'[m] = beat[m] /\ hbq'[m] = hbq[m]
      BY <1>0, <1>1, <1>3, <2>2 DEF PopUpdate
    <3>2. Of(Tail(hbq[n])) \subseteq Of(hbq[n]) /\ Head(hbq[n]) \in Of(hbq[n])
      BY <1>3, <2>2, OfTail
    <3>3. QED
      BY <3>1, <3>2
  <2>3. QED
    BY <2>1, <2>2
<1>8. Harmless(n) /\ Harmless(m)
  BY <1>1, <1>2, <1>7 DEF Harmless, Orders
<1>9. HarmlessTo(n, m)
  <2>1. Words(n, m)' \subseteq Words(n, m)
    BY <1>6, <1>7 DEF Words
  <2>2. QED
    BY <1>5, <1>6, <2>1 DEF HarmlessTo
<1>10. HarmlessTo(m, n)
  BY <1>2, <1>4, <1>7 DEF HarmlessTo, Names, Words
<1>11. QED
  BY <1>0, <1>8, <1>9, <1>10, HarmlessKeeps

\* A step of n's dispatcher reads an order, or sends the file of its last one.
LEMMA DispatcherKeeps ==
  ASSUME PInv, NEW n \in Node, NEW m \in Peers(n), DispatcherStep(n)
  PROVE  Keeps(n, m)
<1>0. /\ m \in Node \ {n} /\ m \in Node /\ n \in Peers(m)
      /\ CInv /\ FilesAgree
  BY DEF Peers, PInv, DInv
<1>1. UNCHANGED <<state, currentFile, notifiedDispatch, beat, hbq>>
  BY DEF DispatcherStep, boVars, heartbeaterVars, TakeOrder, OffsetElapsed,
         SendData, SendDataSwallowed, SendDataAborts, StopReceives, StopElapsed
<1>2. /\ Orders(n) /\ Orders(m) /\ Names(n, m) /\ Names(m, n)
      /\ Follows(n, m) /\ Follows(m, n)
  BY <1>0 DEF FilesAgree, OnSameFile
<1>3. /\ phase \in [Node -> Phase] /\ job \in [Node -> File \cup {NoFile}]
      /\ dispq \in [Node -> Seq(WellFormedOrder)]
      /\ net \in [Node -> [Node -> Seq(Spoken)]]
      /\ NodeFits(n)
  BY <1>0, Typed
  DEF CInv, NothingUnheard, DispatcherTypeOK, WiresWellFormed, Coupled
<1>4. ASSUME phase'[m] = phase[m], job'[m] = job[m], dispq'[m] = dispq[m],
             net'[m][n] = net[m][n],
             Of(dispq'[n]) \subseteq Of(dispq[n]),
             phase'[n] \in {"armed_send", "sending"} =>
               state[n] \in DataStates /\ job'[n].path = currentFile[n].path,
             \/ phase[n] # "stopping" \/ phase'[n] = "stopping"
             \/ state[n] = "syncing_stop",
             \/ net'[n][m] = net[n][m]
             \/ \E e : /\ e.status = 200 /\ e.file.path = currentFile[n].path
                       /\ phase[n] = "sending" /\ phase'[n] = "stopping"
                       /\ net'[n][m] = Append(net[n][m], e)
      PROVE  Keeps(n, m)
  <2>1. Orders(n)'
    BY <1>1, <1>2, <1>4 DEF Orders
  <2>2. Orders(m)'
    BY <1>1, <1>2, <1>4 DEF Orders
  <2>3. Names(m, n)'
    BY <1>1, <1>2, <1>4 DEF Names, Words
  <2>4. phase[n] # "stopping" => \A w \in Of(net[n][m]) : w.status # 200
    BY <1>2 DEF Names
  <2>5. state[n] = "syncing_stop" =>
          \A w \in Of(net[n][m]) : w.status # 200
    BY <1>2 DEF Names, DataStates
  <2>6. /\ \A w \in Of(net'[n][m]) :
             \/ w \in Of(net[n][m])
             \/ /\ w.status = 200 /\ w.file.path = currentFile[n].path
                /\ phase'[n] = "stopping" /\ state[n] \in DataStates
        /\ Single(net'[n][m])
        /\ net'[n][m] = net[n][m] \/ phase[n] = "sending"
    <3>1. CASE net'[n][m] = net[n][m]
      BY <1>2, <3>1 DEF Names
    <3>2. ASSUME NEW e, e.status = 200, e.file.path = currentFile[n].path,
                 phase[n] = "sending", phase'[n] = "stopping",
                 net'[n][m] = Append(net[n][m], e)
          PROVE  /\ \A w \in Of(net'[n][m]) :
                      \/ w \in Of(net[n][m])
                      \/ /\ w.status = 200 /\ w.file.path = currentFile[n].path
                         /\ phase'[n] = "stopping" /\ state[n] \in DataStates
                 /\ Single(net'[n][m])
      <4>1. net[n][m] \in Seq(Spoken) /\ Single(net[n][m])
        BY <1>0, <1>2, <1>3 DEF Names
      <4>2. \A w \in Of(net[n][m]) : w.status # 200
        BY <2>4, <3>2
      <4>3. state[n] \in DataStates
        BY <1>2, <3>2 DEF Orders
      <4>4. Of(net'[n][m]) \subseteq Of(net[n][m]) \cup {e}
        BY <3>2, <4>1, OfAppend
      <4>5. Single(net'[n][m])
        BY <3>2, <4>1, <4>2, SingleAppend
      <4>6. QED
        BY <3>2, <4>3, <4>4, <4>5
    <3>3. QED
      BY <1>4, <3>1, <3>2
  <2>7. Names(n, m)'
    <3>1. ASSUME RoleIn(state[n]) = "sending", NEW w \in Words(n, m)'
          PROVE  w \in Words(n, m) \/ w.status = 200
      BY <1>1, <2>6, <3>1 DEF Words
    <3>2. ASSUME NEW w \in Of(net'[n][m]), w.status = 200
          PROVE  /\ state[n] \in DataStates /\ phase'[n] = "stopping"
                 /\ w.file.path = currentFile[n].path
      <4>1. CASE w \in Of(net[n][m])
        <5>1. /\ state[n] \in DataStates /\ phase[n] = "stopping"
              /\ w.file.path = currentFile[n].path
          BY <1>2, <3>2, <4>1 DEF Names
        <5>2. QED
          BY <1>4, <5>1 DEF DataStates
      <4>2. QED
        BY <2>6, <3>2, <4>1
    <3>3. QED
      BY <1>1, <1>2, <2>6, <3>1, <3>2 DEF Names
  <2>8. Follows(m, n)'
    <3> SUFFICES ASSUME RoleIn(state[n]) = "sending"
                 PROVE  state[m] = "broadcasting_all_received" =>
                          /\ phase'[n] = "stopping"
                          /\ \A w \in Of(net'[n][m]) : w.status # 200
      BY <1>1, <1>2, <1>4 DEF Follows, TakesData, Words
    <3>1. state[m] = "broadcasting_all_received" =>
            /\ phase[n] = "stopping" /\ state[n] \in DataStates
            /\ \A w \in Of(net[n][m]) : w.status # 200
      BY <1>2 DEF Follows
    <3>2. QED
      BY <1>4, <2>6, <3>1 DEF DataStates
  <2>9. Follows(n, m)'
    BY <1>1, <1>2, <1>4, <2>6 DEF Follows, TakesData, Words
  <2>10. QED
    BY <2>1, <2>2, <2>3, <2>7, <2>8, <2>9 DEF Keeps, OnSameFile
<1>5. dispq[n] # <<>> => /\ Head(dispq[n]) \in Of(dispq[n])
                         /\ Of(Tail(dispq[n])) \subseteq Of(dispq[n])
  BY <1>3, OfTail
<1>6. CASE TakeOrder(n)
  <2>1. /\ phase[n] = "idle" /\ dispq[n] # <<>>
        /\ dispq' = [dispq EXCEPT ![n] = Tail(@)] /\ UNCHANGED net
        /\ \/ /\ Head(dispq[n]).status \in {122, 177}
              /\ phase' = [phase EXCEPT ![n] = "armed_send"]
              /\ job' = [job EXCEPT ![n] = Head(dispq[n]).file]
           \/ /\ phase' = [phase EXCEPT ![n] = "armed_fake"]
              /\ UNCHANGED job
           \/ UNCHANGED <<phase, job>>
    BY <1>6 DEF TakeOrder
  <2>2. /\ phase'[m] = phase[m] /\ job'[m] = job[m] /\ dispq'[m] = dispq[m]
        /\ dispq'[n] = Tail(dispq[n])
        /\ phase'[n] \in {"armed_send", "sending"} =>
             Head(dispq[n]).status \in {122, 177}
             /\ job'[n] = Head(dispq[n]).file
    BY <1>0, <1>3, <2>1
  <2>3. phase'[n] \in {"armed_send", "sending"} =>
          state[n] \in DataStates /\ job'[n].path = currentFile[n].path
    BY <1>2, <1>5, <2>1, <2>2 DEF Orders
  <2>4. QED
    BY <1>4, <1>5, <2>1, <2>2, <2>3
<1>7. CASE OffsetElapsed(n)
  <2>1. /\ phase[n] \in {"armed_send", "armed_fake"}
        /\ phase' = [phase EXCEPT ![n] =
                       IF @ = "armed_send" THEN "sending" ELSE "stopping"]
        /\ UNCHANGED <<job, dispq, net>>
    BY <1>7 DEF OffsetElapsed
  <2>2. /\ phase'[m] = phase[m]
        /\ phase'[n] = IF phase[n] = "armed_send" THEN "sending" ELSE "stopping"
    BY <1>0, <1>3, <2>1
  <2>3. phase'[n] \in {"armed_send", "sending"} =>
          state[n] \in DataStates /\ job'[n].path = currentFile[n].path
    BY <1>2, <2>1, <2>2 DEF Orders
  <2>4. QED
    BY <1>4, <2>1, <2>2, <2>3
<1>8. CASE SendData(n) \/ SendDataSwallowed(n)
  <2>1. /\ phase[n] = "sending"
        /\ phase' = [phase EXCEPT ![n] = "stopping"]
        /\ UNCHANGED <<job, dispq>>
    BY <1>8 DEF SendData, SendDataSwallowed
  <2>2. phase'[m] = phase[m] /\ phase'[n] = "stopping"
    BY <1>0, <1>3, <2>1
  <2>3. job[n].path = currentFile[n].path
    BY <1>2, <2>1 DEF Orders
  <2>4. CASE UNCHANGED net
    BY <1>4, <2>1, <2>2, <2>4
  <2>5. CASE SendData(n)
    <3> DEFINE f == [job[n] EXCEPT !.version = disk[n][job[n].path].data]
               e == Msg(200, f, FALSE)
    <3>1. job[n] \in File
      BY <1>0, <1>3, <2>1 DEF CInv, IInv, PayloadsPresent
    <3>2. f.path = job[n].path
      BY <3>1 DEF File
    <3> HIDE DEF f
    <3>3. e.status = 200 /\ e.file.path = currentFile[n].path
      BY <2>3, <3>2 DEF Msg
    <3>4. Publish(n, e)
      BY <2>5 DEF SendData, f
    <3> HIDE DEF e
    <3>5. /\ net'[n][m] = net[n][m] \/ net'[n][m] = Append(net[n][m], e)
          /\ net'[m][n] = net[m][n]
      BY <3>4, PublishTo
    <3>6. QED
      BY <1>4, <2>1, <2>2, <3>3, <3>5
  <2>6. QED
    BY <1>8, <2>4, <2>5 DEF SendDataSwallowed
<1>9. CASE SendDataAborts(n)
  BY <1>1, <1>9, StillKeeps DEF SendDataAborts
<1>10. CASE StopReceives(n)
  <2>1. /\ phase[n] = "stopping" /\ dispq[n] # <<>>
        /\ dispq' = [dispq EXCEPT ![n] = Tail(@)]
        /\ UNCHANGED <<phase, job, net>>
    BY <1>10 DEF StopReceives
  <2>2. dispq'[m] = dispq[m] /\ dispq'[n] = Tail(dispq[n])
    BY <1>0, <1>3, <2>1
  <2>3. QED
    BY <1>4, <1>5, <2>1, <2>2
<1>11. CASE StopElapsed(n)
  <2>1. /\ phase[n] = "stopping" /\ timingOffset[n] = "deadline"
        /\ phase' = [phase EXCEPT ![n] = "idle"]
        /\ UNCHANGED <<job, dispq, net>>
    BY <1>11 DEF StopElapsed
  <2>2. phase'[m] = phase[m] /\ phase'[n] = "idle"
    BY <1>0, <1>3, <2>1
  <2>3. state[n] = "syncing_stop"
    BY <1>3, <2>1 DEF NodeFits, Fits
  <2>4. QED
    BY <1>4, <2>1, <2>2, <2>3
<1>12. QED
  BY <1>6, <1>7, <1>8, <1>9, <1>10, <1>11 DEF DispatcherStep

-----------------------------------------------------------------------------
(* The theorem on packages.                                                *)

\* Every step of two nodes keeps what is said of their files.
LEMMA NextFilesAgree ==
  ASSUME TwoNodes, PInv, [Next]_vars
  PROVE  FilesAgree'
<1>0. DInv'
  BY NextFits, NextInDialogue DEF PInv, DInv
<1>1. ASSUME NEW n \in Node, NEW m \in Peers(n), Keeps(n, m)
      PROVE  FilesAgree'
  <2>1. n # m /\ Node = {n, m} /\ Peers(n) = {m} /\ Peers(m) = {n}
    BY DEF TwoNodes, Peers
  <2>2. QED
    BY <1>1, <2>1 DEF FilesAgree, Keeps
<1>2. \A n \in Node : \E m : m \in Peers(n)
  BY DEF TwoNodes, Peers
<1>3. ASSUME UNCHANGED <<state, currentFile, notifiedDispatch, dispq, hbq, beat,
                         phase, job, net>>
      PROVE  FilesAgree'
  <2>1. PICK n \in Node, m \in Node : m \in Peers(n)
    BY <1>2 DEF TwoNodes, Peers
  <2>2. Keeps(n, m)
    BY <1>3, <2>1, StillKeeps
  <2>3. QED
    BY <1>1, <2>1, <2>2
<1>4. CASE UNCHANGED vars
  BY <1>3, <1>4 DEF vars, wireVars, boVars, heartbeaterVars, dispatcherVars
<1>5. ASSUME NEW n \in Node, NEW m \in Peers(n), PeerStep(n, m)
      PROVE  FilesAgree'
  BY <1>0, <1>1, <1>5, HeardKeeps
<1>6. ASSUME NEW n \in Node,
             PostStep(n) \/ BoxStep(n) \/ DispatcherStep(n) \/ HeartbeaterStep(n)
      PROVE  FilesAgree'
  <2>1. PICK m \in Peers(n) : TRUE
    BY <1>2
  <2>2. Keeps(n, m)
    BY <1>0, <1>6, PostKeeps, BoxKeeps, DispatcherKeeps, BeatKeeps
  <2>3. QED
    BY <1>1, <2>2
<1>7. ASSUME NEW n \in Node, UserStep(n)
      PROVE  FilesAgree'
  BY <1>3, <1>7 DEF UserStep, UserChange, boVars, heartbeaterVars,
                    dispatcherVars
<1>8. \A n \in Writers : n \in Node
  BY FlockAssumption
<1>9. QED
  BY <1>4, <1>5, <1>6, <1>7, <1>8 DEF Next

\* There are no files to agree on at first.
LEMMA InitFilesAgree == Init => FilesAgree
<1> SUFFICES ASSUME Init PROVE FilesAgree
  OBVIOUS
<1>1. ASSUME NEW n \in Node
      PROVE  /\ state[n] = "ready" /\ phase[n] = "idle"
             /\ dispq[n] = <<>> /\ hbq[n] = <<>> /\ beat[n].status = 100
             /\ \A m \in Node : net[n][m] = <<>>
  BY DEF Init, WiresInit, BoxofficeInit, HeartbeaterInit, DispatcherInit, Msg
<1>2. RoleIn("ready") = "resting"
  BY RoleOfEach
<1>3. /\ \A w : w \notin Of(<<>>)
      /\ Single(<<>>)
  BY DEF Of, Single
<1>4. ASSUME NEW n \in Node, NEW m \in Peers(n)
      PROVE  Orders(n) /\ Names(n, m) /\ Follows(m, n)
  <2>1. m \in Node
    BY DEF Peers
  <2>2. Orders(n)
    BY <1>1, <1>3 DEF Orders
  <2>3. Names(n, m)
    BY <1>1, <1>2, <1>3, <2>1 DEF Names
  <2>4. Follows(m, n)
    BY <1>1, <1>2 DEF Follows
  <2>5. QED
    BY <2>2, <2>3, <2>4
<1>5. ASSUME NEW n \in Node
      PROVE  Orders(n)
  BY <1>1, <1>3, <1>5 DEF Orders
<1>6. QED
  BY <1>4, <1>5 DEF FilesAgree, OnSameFile

\* No node is subscribed to itself.
NoEcho == \A n \in Node : net[n][n] = <<>>

LEMMA NextNoEcho == CInv /\ NoEcho /\ [Next]_vars => NoEcho'
<1> SUFFICES ASSUME CInv, NoEcho, [Next]_vars PROVE NoEcho'
  OBVIOUS
<1>0. net \in [Node -> [Node -> Seq(Spoken)]]
  BY DEF CInv, NothingUnheard
<1>1. CASE UNCHANGED net
  BY <1>1 DEF NoEcho
<1>2. ASSUME NEW n \in Node, NEW e, Publish(n, e)
      PROVE  NoEcho'
  BY <1>2 DEF Publish, NoEcho
<1>3. ASSUME NEW n \in Node, NEW src \in Peers(n), NEW statuses,
             Takes(n, src, statuses)
      PROVE  NoEcho'
  <2>1. net' = [net EXCEPT ![src][n] = Tail(@)] /\ src # n /\ src \in Node
    BY <1>3 DEF Takes, Peers
  <2>2. QED
    BY <1>0, <2>1 DEF NoEcho
<1>4. ASSUME NEW n \in Node, NEW src \in Peers(n), PeerStep(n, src)
      PROVE  NoEcho'
  <2>1. \E statuses : Takes(n, src, statuses)
    <3> DEFINE Taken == \E statuses : Takes(n, src, statuses)
    <3>1. ASSUME NEW statuses, Takes(n, src, statuses)
          PROVE  Taken
      BY <3>1
    <3>2. ASSUME NEW statuses, Hears(n, src, statuses)
          PROVE  Taken
      BY <3>2 DEF Hears
    <3> HIDE DEF Taken
    <3>3. ASSUME IgnoreMessage(n, src)
          PROVE  Taken
      BY <3>1, <3>3 DEF IgnoreMessage
    <3>4. ASSUME HearPlain(n, src)
          PROVE  Taken
      <4>1. Hears(n, src, HeartbeatStatus)
        BY <3>4 DEF HearPlain
      <4>2. QED
        BY <3>2, <4>1
    <3>5. ASSUME Hear100(n, src)
          PROVE  Taken
      <4>1. Hears(n, src, {100})
        BY <3>5 DEF Hear100
      <4>2. QED
        BY <3>2, <4>1
    <3>6. ASSUME HearReply(n, src)
          PROVE  Taken
      <4>1. Hears(n, src, ReplyStatus)
        BY <3>6 DEF HearReply
      <4>2. QED
        BY <3>2, <4>1
    <3>7. ASSUME HearLastReply(n, src)
          PROVE  Taken
      <4>1. Hears(n, src, ReplyStatus)
        BY <3>7 DEF HearLastReply
      <4>2. QED
        BY <3>2, <4>1
    <3>8. ASSUME HearAnnouncement(n, src)
          PROVE  Taken
      <4>1. Hears(n, src, {120, 124})
        BY <3>8 DEF HearAnnouncement
      <4>2. QED
        BY <3>2, <4>1
    <3>9. ASSUME Hear130(n, src)
          PROVE  Taken
      <4>1. Hears(n, src, {130})
        BY <3>9 DEF Hear130, Promote
      <4>2. QED
        BY <3>2, <4>1
    <3>10. ASSUME Hear150InReady(n, src)
          PROVE  Taken
      <4>1. Hears(n, src, {150})
        BY <3>10 DEF Hear150InReady
      <4>2. QED
        BY <3>2, <4>1
    <3>11. ASSUME Hear155(n, src)
          PROVE  Taken
      <4>1. Hears(n, src, {155})
        BY <3>11 DEF Hear155
      <4>2. QED
        BY <3>2, <4>1
    <3>12. ASSUME Hear160(n, src)
          PROVE  Taken
      <4>1. Hears(n, src, {160})
        BY <3>12 DEF Hear160
      <4>2. QED
        BY <3>2, <4>1
    <3>13. ASSUME Hear170(n, src)
          PROVE  Taken
      <4>1. Hears(n, src, {170})
        BY <3>13 DEF Hear170
      <4>2. QED
        BY <3>2, <4>1
    <3>14. ASSUME Hear174(n, src)
          PROVE  Taken
      <4>1. Hears(n, src, {174})
        BY <3>14 DEF Hear174
      <4>2. QED
        BY <3>2, <4>1
    <3>15. ASSUME HearData(n, src)
          PROVE  Taken
      <4>1. Hears(n, src, {200})
        BY <3>15 DEF HearData, StoreData
      <4>2. QED
        BY <3>2, <4>1
    <3>16. HearFrom(n, src)
      BY <1>4 DEF PeerStep
    <3>17. Taken
      BY <3>3, <3>4, <3>5, <3>6, <3>7, <3>8, <3>9, <3>10, <3>11, <3>12,
         <3>13, <3>14, <3>15, <3>16 DEF HearFrom
    <3>18. QED
      BY <3>17 DEF Taken
  <2>2. QED
    BY <1>3, <2>1
<1>5. ASSUME NEW n \in Node, PostStep(n) \/ BoxStep(n) \/ UserStep(n)
      PROVE  NoEcho'
  <2>1. UNCHANGED net
    BY <1>5 DEF PostStep, HearDispatcher, BoxStep, HearLocal, IgnoreLocal,
         LocalPathTooLong, LocalFileMissing, LocalReportedTwice, LocalQueued,
         TakesLocal, UserStep, UserChange
  <2>2. QED
    BY <1>1, <2>1
<1>6. ASSUME NEW n \in Node, DispatcherStep(n)
      PROVE  NoEcho'
  <2>1. UNCHANGED net \/ \E e : Publish(n, e)
    BY <1>6 DEF DispatcherStep, TakeOrder, OffsetElapsed, SendData,
         SendDataSwallowed, SendDataAborts, StopReceives, StopElapsed
  <2>2. QED
    BY <1>1, <1>2, <2>1
<1>7. ASSUME NEW n \in Node, HeartbeaterStep(n)
      PROVE  NoEcho'
  BY <1>2, <1>7 DEF HeartbeaterStep, Beat
<1>8. CASE UNCHANGED vars
  BY <1>1, <1>8 DEF vars, wireVars
<1>9. \A n \in Writers : n \in Node
  BY FlockAssumption
<1>10. QED
  BY <1>4, <1>5, <1>6, <1>7, <1>8, <1>9 DEF Next

\* Of the states that are entered one takes a package.
LEMMA DataAccepted ==
  \A s \in EngagedStates \cup RestingStates :
    check_event(s, "received_file_data", 200) => s = "sending_fake_file"
<1> SUFFICES ASSUME NEW s \in EngagedStates \cup RestingStates,
                    check_event(s, "received_file_data", 200)
             PROVE  s = "sending_fake_file"
  OBVIOUS
<1> DEFINE e == <<"received_file_data", 200>>
<1>1. \A row \in Moves : row[3] # 200
  BY DEF Moves, MovesAnnouncing, MovesSending, MovesAcknowledging,
         MovesReceiving, MovesBroadcasting, MovesLeaving, NewFile, NewMetadata
<1>2. e \in Stay(s)
  BY <1>1 DEF check_event, MovesFor
<1>3. /\ e \notin StayAnnouncing(s) /\ e \notin StaySending(s)
      /\ e \notin StayAcknowledging(s) /\ e \notin StayBroadcasting(s)
  BY DEF StayAnnouncing, StaySending, StayAcknowledging, StayBroadcasting, Hb,
         NewFile, NewMetadata, Mislabelled, Tick, FakeData
<1>4. e \in StayReceiving(s)
  BY <1>2, <1>3 DEF Stay
<1>5. s \in FakeFileStates
  BY <1>4 DEF StayReceiving, Hb, NewFile, Mislabelled, Tick, FakeFileStates
<1>6. QED
  BY <1>5 DEF FakeFileStates, EngagedStates, RestingStates, Unentered,
              MoreDataStates

\* In a flock of two, whatever the timing, a package that is accepted is stored
\* under the path of the file it was read from, although it names none: the
\* receiver's current_file_ is the sender's (boxoffice.cpp:717, 789-828).
THEOREM PackagesOfTwo == TwoNodes => (Spec => []PackageMatches)
<1> SUFFICES ASSUME TwoNodes PROVE Spec => []PackageMatches
  OBVIOUS
<1>1. Init => PInv /\ NoEcho
  BY InitFits, InitInDialogue, InitFilesAgree
  DEF PInv, DInv, NoEcho, Init, WiresInit
<1>2. PInv /\ NoEcho /\ [Next]_vars => PInv' /\ NoEcho'
  BY NextFits, NextInDialogue, NextFilesAgree, NextNoEcho DEF PInv, DInv
<1>3. PInv /\ NoEcho => PackageMatches
  <2> SUFFICES ASSUME PInv, NoEcho, NEW n \in Node, NEW s \in Node,
                      net[s][n] # <<>>, Head(net[s][n]).status = 200,
                      Accepts(n, 200)
               PROVE  /\ currentFile[n] # NoFile
                      /\ currentFile[n].path = Head(net[s][n]).file.path
    BY DEF PackageMatches
  <2>1. s \in Peers(n) /\ n \in Peers(s)
    BY DEF NoEcho, Peers
  <2>2. Names(s, n) /\ Follows(n, s)
    BY <2>1 DEF PInv, FilesAgree, OnSameFile
  <2>3. /\ net[s][n] \in Seq(Spoken)
        /\ state[n] \in EngagedStates \cup RestingStates
    BY DEF PInv, DInv, CInv, NothingUnheard, Coupled, NodeFits, Fits
  <2>4. Head(net[s][n]) \in Of(net[s][n])
    BY <2>3, OfTail
  <2>5. /\ state[s] \in DataStates
        /\ Head(net[s][n]).file.path = currentFile[s].path
    BY <2>2, <2>4 DEF Names
  <2>6. RoleIn(state[s]) = "sending"
    BY <2>5, RoleOfEach DEF DataStates
  <2>7. get_event_by_status_code(200) = "received_file_data"
    BY DEF get_event_by_status_code
  <2>8. state[n] = "sending_fake_file"
    BY <2>3, <2>7, DataAccepted DEF Accepts
  <2>9. QED
    BY <2>2, <2>5, <2>6, <2>8 DEF Follows, TakesData
<1>4. QED
  BY <1>1, <1>2, <1>3, PTL DEF Spec

-----------------------------------------------------------------------------
(* Two nodes, continued: the common stop.  For the first time something is *)
(* assumed of time: users change one file after the other, each when the   *)
(* flock is quiet, and what a node writes to its own box comes back before *)
(* the next heartbeat.                                                     *)

OneAtATime ==
  /\ "inotify" \in Timely
  /\ "quiet" \in Timely \/ MaxVersion <= 1

\* Nothing is left of a round at k.
AtRest(k) ==
  /\ state[k] = "ready" /\ ~stopSync[k]
  /\ \A m \in Peers(k) : \A w \in Words(k, m) : w.status = 100

\* A change that is about to start a round finds the flock at rest.
Pending(n) == state[n] = "ready" /\ inotify[n] # <<>>

PendingAtRest ==
  \A n \in Node : Pending(n) =>
    \A k \in Node : AtRest(k) /\ (k = n \/ inotify[k] = <<>>)

Untouched ==
  version = 0 => \A k \in Node : AtRest(k) /\ inotify[k] = <<>>

\* The stop flag is set in the round that sets it, at its end, and forgotten
\* before the next.
StopFlags ==
  \A n \in Node :
    /\ stopSync[n] => state[n] \in {"ready", "syncing_stop"}
    /\ state[n] = "syncing_stop" => inotify[n] = <<>>

\* Whoever is announced to is not at the end of a round.
AnnouncedAtRest ==
  \A n \in Node : RoleIn(state[n]) = "announcing" =>
    \A m \in Peers(n) : ~stopSync[m] /\ RoleIn(state[m]) # "following"

OneFollows ==
  \A n \in Node : \A m \in Peers(n) :
    ~(RoleIn(state[n]) = "following" /\ RoleIn(state[m]) = "following")

\* A 155 that reaches a receiver carries the deadline.
StampsTrue ==
  \A n \in Node : \A m \in Peers(n) : RoleIn(state[n]) = "following" =>
    \A w \in Words(m, n) : w.status = 155 => w.stamp

\* The dispatcher of a node in syncing_stop has the deadline or is told it.
Scheduled(n) ==
  state[n] = "syncing_stop" =>
    /\ \A w \in Of(dispq[n]) : w.stamp
    /\ phase[n] = "stopping" /\ dispq[n] = <<>> => timingOffset[n] = "deadline"

Stopping ==
  /\ PendingAtRest /\ Untouched /\ StopFlags /\ AnnouncedAtRest
  /\ OneFollows /\ StampsTrue /\ \A n \in Node : Scheduled(n)

\* What a step of n, but a user's, may do.
Proceeds(n, m) ==
  /\ \A k \in Node \ {n} :
       /\ state'[k] = state[k] /\ stopSync'[k] = stopSync[k]
       /\ inotify'[k] = inotify[k] /\ Scheduled(k)'
  /\ version' = version
  /\ Words(m, n)' \subseteq Words(m, n)
  /\ \A w \in Words(n, m)' :
       \/ w \in Words(n, m)
       \/ w.status = 155 => w.stamp \/ RoleIn(state[n]) = "following"
  /\ stopSync'[n] => stopSync[n] \/ state'[n] = "syncing_stop"
  /\ Scheduled(n)'
  /\ RoleIn(state[n]) # "announcing" /\ RoleIn(state'[n]) = "announcing" =>
       Pending(n)
  /\ Pending(n)' => Pending(n) /\ Words(n, m)' \subseteq Words(n, m)
  /\ state'[n] = "syncing_stop" =>
       /\ inotify'[n] = <<>>
       /\ RoleIn(state[n]) \in {"sending", "following"}
            \/ state[n] = "syncing_stop"
  /\ /\ state[n] = "ready" /\ inotify[n] = <<>>
     /\ \A w \in Words(m, n) : w.status = 100
     /\ \A w \in Words(n, m) : w.status = 100
     => /\ state'[n] = "ready" /\ inotify'[n] = <<>>
        /\ \A w \in Words(n, m)' : w.status = 100

\* The states without a role in a round.
LEMMA Resting ==
  ASSUME NEW s \in EngagedStates \cup RestingStates, RoleIn(s) = "resting"
  PROVE  s \in {"ready", "syncing_stop"}
<1>1. s \in State /\ s # "exit"
  BY DEF EngagedStates, RestingStates, Unentered, State, SendingMetadataStates,
         SendingFileStates, ReceivingMetadataStates, FakeFileStates,
         BroadcastingStates
<1>2. /\ s \notin AnnouncingStates
      /\ s \notin SendingMetadataStates \cup SendingFileStates
      /\ s \notin AcknowledgingStates
      /\ s \notin ReceivingMetadataStates \cup FakeFileStates
                    \cup BroadcastingStates
  BY RoleOf
<1>3. QED
  BY <1>1, <1>2 DEF State

\* A step of n that proceeds keeps what is said of the stop.
LEMMA ProceedsKeeps ==
  ASSUME TwoNodes, PInv, DInv', Stopping,
         NEW n \in Node, NEW m \in Peers(n), Talks(n, m), Proceeds(n, m)
  PROVE  Stopping'
<1> DEFINE r  == RoleIn(state[n])
           r1 == RoleIn(state'[n])
           s  == RoleIn(state[m])
           p  == Speech(n, m)
           q  == Speech(m, n)
<1>1. /\ n # m /\ Node = {n, m} /\ Peers(n) = {m} /\ Peers(m) = {n}
      /\ Node \ {n} = {m}
  BY DEF TwoNodes, Peers
<1>2. PICK h : Turn(r, h, r1) /\ (h \in Role => Says(q, h))
  BY DEF Talks, Loses
<1>3. /\ state'[m] = state[m] /\ stopSync'[m] = stopSync[m]
      /\ inotify'[m] = inotify[m] /\ Scheduled(m)'
      /\ RoleIn(state'[m]) = s
  BY <1>1 DEF Proceeds
<1>4. Dialogue(r, p, s, q) /\ Dialogue(s, q, r, p)
  BY <1>1 DEF PInv, DInv, InDialogue
<1>5. \A w \in Words(m, n) : Says(q, Voice(w.status))
  BY SaysWords
<1>6. /\ \A v : v \in {"resting", "announcing", "sending", "acknowledging"} =>
           v \in Role
      /\ Voice(155) = "resting"
  BY DEF Role, Voice
<1>7. /\ state[n] = "syncing_stop" => stopSync[n]
      /\ state[n] = "ready" \/ state[n] = "syncing_stop" => r = "resting"
      /\ state[m] = "ready" \/ state[m] = "syncing_stop" => s = "resting"
      /\ state'[n] = "ready" \/ state'[n] = "syncing_stop" => r1 = "resting"
  BY <1>1, RoleOf DEF PInv, DInv, CInv, Coupled, NodeFits, Fits
<1>8. r1 = "resting" => state'[n] \in {"ready", "syncing_stop"}
  BY Resting DEF DInv, CInv, Coupled, NodeFits, Fits
<1>9. Pending(n) \/ Pending(m) =>
        /\ AtRest(n) /\ AtRest(m)
        /\ Pending(n) => inotify[m] = <<>>
        /\ Pending(m) => inotify[n] = <<>>
  BY <1>1 DEF Stopping, PendingAtRest
<1>10. /\ r = "announcing" => ~stopSync[m] /\ s # "following"
       /\ s = "announcing" => ~stopSync[n] /\ r # "following"
       /\ ~(r = "following" /\ s = "following")
  BY <1>1 DEF Stopping, AnnouncedAtRest, OneFollows
<1>11. /\ stopSync[n] => state[n] \in {"ready", "syncing_stop"}
       /\ stopSync[m] => state[m] \in {"ready", "syncing_stop"}
  BY <1>1 DEF Stopping, StopFlags
<1>12. AtRest(m) /\ Words(m, n)' \subseteq Words(m, n) => AtRest(m)'
  BY <1>1, <1>3 DEF AtRest
<1>13. AtRest(n) <=> /\ state[n] = "ready" /\ ~stopSync[n]
                     /\ \A w \in Words(n, m) : w.status = 100
  BY <1>1 DEF AtRest
<1>14. AtRest(n)' <=> /\ state'[n] = "ready" /\ ~stopSync'[n]
                      /\ \A w \in Words(n, m)' : w.status = 100
  BY <1>1 DEF AtRest
<1>15. AtRest(m) => \A w \in Words(m, n) : w.status = 100
  BY <1>1 DEF AtRest
<1>16. AtRest(n) /\ AtRest(m) /\ inotify[n] = <<>> =>
         AtRest(n)' /\ AtRest(m)' /\ inotify'[n] = <<>>
  <2> SUFFICES ASSUME AtRest(n), AtRest(m), inotify[n] = <<>>
               PROVE  AtRest(n)' /\ AtRest(m)' /\ inotify'[n] = <<>>
    OBVIOUS
  <2>1. /\ state'[n] = "ready" /\ inotify'[n] = <<>>
        /\ \A w \in Words(n, m)' : w.status = 100
    BY <1>13, <1>15 DEF Proceeds
  <2>2. ~stopSync'[n]
    BY <1>13, <2>1 DEF Proceeds
  <2>3. QED
    BY <1>12, <1>14, <2>1, <2>2 DEF Proceeds
<1>17. Pending(n)' \/ Pending(m)' =>
         /\ AtRest(n)' /\ AtRest(m)'
         /\ Pending(n)' => inotify'[m] = <<>>
         /\ Pending(m)' => inotify'[n] = <<>>
  <2>1. CASE Pending(n)'
    <3>1. Pending(n) /\ Words(n, m)' \subseteq Words(n, m)
      BY <2>1 DEF Proceeds
    <3>2. AtRest(n) /\ AtRest(m) /\ inotify[m] = <<>>
      BY <1>9, <3>1
    <3>3. state'[n] = "ready" /\ ~stopSync'[n]
      BY <1>13, <2>1, <3>2 DEF Proceeds, Pending
    <3>4. AtRest(n)' /\ AtRest(m)'
      BY <1>12, <1>13, <1>14, <3>1, <3>2, <3>3 DEF Proceeds
    <3>5. QED
      BY <1>3, <3>2, <3>4 DEF Pending
  <2>2. CASE Pending(m)'
    <3>1. Pending(m)
      BY <1>3, <2>2 DEF Pending
    <3>2. QED
      BY <1>9, <1>16, <3>1, <1>3 DEF Pending
  <2>3. QED
    BY <2>1, <2>2
<1>18. PendingAtRest'
  BY <1>1, <1>17 DEF PendingAtRest
<1>19. Untouched'
  <2> SUFFICES ASSUME version' = 0
               PROVE  \A k \in Node : AtRest(k)' /\ inotify'[k] = <<>>
    BY DEF Untouched
  <2>1. \A k \in Node : AtRest(k) /\ inotify[k] = <<>>
    BY DEF Stopping, Untouched, Proceeds
  <2>2. QED
    BY <1>1, <1>3, <1>16, <2>1
<1>20. StopFlags'
  <2>1. ASSUME stopSync'[n]
        PROVE  state'[n] \in {"ready", "syncing_stop"}
    <3> SUFFICES ASSUME stopSync[n]
                 PROVE  r1 = "resting"
      BY <1>8, <2>1 DEF Proceeds
    <3>1. r = "resting"
      BY <1>7, <1>11
    <3>2. r1 # "announcing"
      BY <1>9, <1>13, <3>1 DEF Proceeds
    <3>3. ~(h = "announcing" /\ r1 = "acknowledging")
      BY <1>2, <1>4, <1>6, <1>10, <3>1 DEF Dialogue
    <3>4. QED
      BY <1>2, <3>1, <3>2, <3>3 DEF Turn
  <2>2. state'[n] = "syncing_stop" => inotify'[n] = <<>>
    BY DEF Proceeds
  <2>3. QED
    BY <1>1, <1>3, <2>1, <2>2 DEF StopFlags, Stopping
<1>21. AnnouncedAtRest'
  <2>1. ASSUME r1 = "announcing"
        PROVE  ~stopSync'[m] /\ s # "following"
    <3>1. CASE r = "announcing"
      BY <1>3, <1>10, <3>1
    <3>2. CASE r # "announcing"
      <4>1. AtRest(m)
        BY <1>9, <2>1, <3>2 DEF Proceeds
      <4>2. ~stopSync[m] /\ state[m] = "ready"
        BY <4>1 DEF AtRest
      <4>3. QED
        BY <1>3, <1>7, <4>2
    <3>3. QED
      BY <3>1, <3>2
  <2>2. ASSUME s = "announcing"
        PROVE  ~stopSync'[n] /\ r1 # "following"
    <3>1. ~stopSync[n] /\ r # "following" /\ r # "sending"
      BY <1>4, <1>10, <2>2 DEF Dialogue
    <3>2. state'[n] # "syncing_stop"
      BY <1>7, <3>1 DEF Proceeds
    <3>3. r = "acknowledging" => ~Says(q, "sending")
      BY <1>4, <2>2 DEF Dialogue
    <3>4. r1 # "following"
      BY <1>2, <1>6, <3>1, <3>3 DEF Turn
    <3>5. QED
      BY <3>1, <3>2, <3>4 DEF Proceeds
  <2>3. QED
    BY <1>1, <1>3, <2>1, <2>2 DEF AnnouncedAtRest
<1>22. r1 = "following" => r \in {"following", "acknowledging"}
  BY <1>2 DEF Turn
<1>23. OneFollows'
  <2>1. ~(r1 = "following" /\ s = "following")
    BY <1>4, <1>10, <1>22 DEF Dialogue
  <2>2. QED
    BY <1>1, <1>3, <2>1 DEF OneFollows
<1>24. StampsTrue'
  <2>1. ASSUME r1 = "following", NEW w \in Words(m, n)', w.status = 155
        PROVE  w.stamp
    <3>1. w \in Words(m, n)
      BY DEF Proceeds
    <3>2. r # "acknowledging"
      BY <1>4, <1>5, <1>6, <2>1, <3>1 DEF Dialogue
    <3>3. r = "following"
      BY <1>22, <2>1, <3>2
    <3>4. QED
      BY <1>1, <2>1, <3>1, <3>3 DEF Stopping, StampsTrue
  <2>2. ASSUME s = "following", NEW w \in Words(n, m)', w.status = 155
        PROVE  w.stamp
    <3>1. CASE w \in Words(n, m)
      BY <1>1, <2>2, <3>1 DEF Stopping, StampsTrue
    <3>2. CASE w \notin Words(n, m)
      BY <1>10, <2>2, <3>2 DEF Proceeds
    <3>3. QED
      BY <3>1, <3>2
  <2>3. QED
    BY <1>1, <1>3, <2>1, <2>2 DEF StampsTrue
<1>25. \A k \in Node : Scheduled(k)'
  BY <1>1, <1>3 DEF Proceeds
<1>26. QED
  BY <1>18, <1>19, <1>20, <1>21, <1>23, <1>24, <1>25 DEF Stopping

\* So does a step that changes none of this.
LEMMA StillScheduled ==
  ASSUME NEW k \in Node, Scheduled(k), state'[k] = state[k],
         dispq'[k] = dispq[k], phase'[k] = phase[k],
         timingOffset'[k] = timingOffset[k]
  PROVE  Scheduled(k)'
BY DEF Scheduled, Of

\* n's heartbeater repeats what n has said.
LEMMA BeatProceeds ==
  ASSUME PInv, Stopping, NEW n \in Node, NEW m \in Peers(n),
         HeartbeaterStep(n)
  PROVE  Proceeds(n, m)
<1>0. m \in Node \ {n} /\ m \in Node /\ n \in Peers(m) /\ CInv
  BY DEF Peers, PInv, DInv
<1>1. /\ Publish(n, beat[n]) /\ PopUpdate(n)
      /\ UNCHANGED <<state, stopSync, dispq, phase, timingOffset, inotify,
                     version>>
  BY DEF HeartbeaterStep, Beat, boVars, dispatcherVars
<1>2. /\ net[n][m] \in Seq(Spoken) /\ hbq \in [Node -> Seq(Spoken)]
      /\ hbq[n] \in Seq(Spoken) /\ beat \in [Node -> Spoken]
  BY <1>0 DEF CInv, NothingUnheard
<1>3. /\ net'[n][m] = net[n][m] \/ net'[n][m] = Append(net[n][m], beat[n])
      /\ net'[m][n] = net[m][n]
  BY <1>1, PublishTo
<1>4. Of(net'[n][m]) \subseteq Of(net[n][m]) \cup {beat[n]}
  BY <1>2, <1>3, OfAppend
<1>5. /\ {beat'[n]} \cup Of(hbq'[n]) \subseteq {beat[n]} \cup Of(hbq[n])
      /\ beat'[m] = beat[m] /\ hbq'[m] = hbq[m]
  <2>1. CASE hbq[n] = <<>>
    BY <1>1, <2>1 DEF PopUpdate
  <2>2. CASE hbq[n] # <<>>
    <3>1. /\ beat'[n] = Head(hbq[n]) /\ hbq'[n] = Tail(hbq[n])
          /\ beat'[m] = beat[m] /\ hbq'[m] = hbq[m]
      BY <1>0, <1>1, <1>2, <2>2 DEF PopUpdate
    <3>2. Of(Tail(hbq[n])) \subseteq Of(hbq[n]) /\ Head(hbq[n]) \in Of(hbq[n])
      BY <1>2, <2>2, OfTail
    <3>3. QED
      BY <3>1, <3>2
  <2>3. QED
    BY <2>1, <2>2
<1>6. Words(n, m)' \subseteq Words(n, m) /\ Words(m, n)' = Words(m, n)
  BY <1>3, <1>4, <1>5 DEF Words
<1>7. \A k \in Node : Scheduled(k)'
  BY <1>1, StillScheduled DEF Stopping
<1>8. state[n] = "syncing_stop" => inotify[n] = <<>>
  BY DEF Stopping, StopFlags
<1>9. QED
  BY <1>1, <1>6, <1>7, <1>8 DEF Proceeds, Pending

\* n's dispatcher is idle when n is ready, writes to the box only when n sends,
\* and waits for the deadline in syncing_stop.
LEMMA DispatcherProceeds ==
  ASSUME PInv, Stopping, NEW n \in Node, NEW m \in Peers(n),
         DispatcherStep(n)
  PROVE  Proceeds(n, m)
<1>0. m \in Node \ {n} /\ m \in Node /\ n \in Peers(m) /\ CInv
  BY DEF Peers, PInv, DInv
<1>1. UNCHANGED <<state, stopSync, beat, hbq, version>>
  BY DEF DispatcherStep, boVars, heartbeaterVars, TakeOrder, OffsetElapsed,
         SendData, SendDataSwallowed, SendDataAborts, StopReceives, StopElapsed
<1>2. /\ phase \in [Node -> Phase]
      /\ timingOffset \in [Node -> {"relative", "deadline", "blank"}]
      /\ dispq \in [Node -> Seq(WellFormedOrder)]
      /\ inotify \in [Node -> Seq(FileEvent)]
      /\ net \in [Node -> [Node -> Seq(Spoken)]]
      /\ NodeFits(n) /\ Scheduled(n) /\ Scheduled(m)
      /\ phase[n] = "sending" => state[n] \in DataStates
  BY <1>0, Typed
  DEF CInv, NothingUnheard, DispatcherTypeOK, WiresWellFormed, Coupled,
      Stopping, PInv, FilesAgree, Orders
<1>3. state[n] # "ready"
  <2> SUFFICES ASSUME state[n] = "ready" PROVE FALSE
    OBVIOUS
  <2>1. phase[n] = "idle" /\ dispq[n] = <<>>
    BY <1>2 DEF NodeFits, Fits, RestingStates, EngagedStates, Unentered,
                MoreDataStates, State
  <2>2. QED
    BY <2>1 DEF DispatcherStep, TakeOrder, OffsetElapsed, SendData,
                SendDataSwallowed, SendDataAborts, StopReceives, StopElapsed
<1>4. ASSUME \A k \in Node \ {n} :
               /\ phase'[k] = phase[k] /\ dispq'[k] = dispq[k]
               /\ timingOffset'[k] = timingOffset[k]
               /\ inotify'[k] = inotify[k],
             net'[m][n] = net[m][n],
             \A w \in Of(net'[n][m]) : w \in Of(net[n][m]) \/ w.status # 155,
             state[n] = "syncing_stop" => inotify'[n] = inotify[n],
             Scheduled(n)'
      PROVE  Proceeds(n, m)
  <2>1. Words(m, n)' = Words(m, n)
    BY <1>1, <1>4 DEF Words
  <2>2. \A w \in Words(n, m)' : w \in Words(n, m) \/ w.status # 155
    BY <1>1, <1>4 DEF Words
  <2>3. \A k \in Node \ {n} : Scheduled(k)'
    BY <1>1, <1>4, StillScheduled DEF Stopping
  <2>4. state[n] = "syncing_stop" => inotify[n] = <<>>
    BY DEF Stopping, StopFlags
  <2>5. QED
    BY <1>1, <1>3, <1>4, <2>1, <2>2, <2>3, <2>4 DEF Proceeds, Pending
<1>5. CASE TakeOrder(n)
  <2>1. /\ phase[n] = "idle" /\ dispq[n] # <<>>
        /\ UNCHANGED <<net, inotify>>
    BY <1>5 DEF TakeOrder
  <2>2. /\ phase' = [phase EXCEPT ![n] = phase'[n]]
        /\ dispq' = [dispq EXCEPT ![n] = dispq'[n]]
        /\ timingOffset' = [timingOffset EXCEPT ![n] = timingOffset'[n]]
    BY <1>2, <1>5 DEF TakeOrder
  <2>3. \A k \in Node \ {n} : /\ phase'[k] = phase[k] /\ dispq'[k] = dispq[k]
                              /\ timingOffset'[k] = timingOffset[k]
    BY <1>2, <2>2
  <2>4. state[n] # "syncing_stop"
    BY <1>2, <2>1 DEF NodeFits, Fits
  <2>5. Scheduled(n)'
    BY <1>1, <2>4 DEF Scheduled
  <2>6. QED
    BY <1>4, <2>1, <2>3, <2>5
<1>6. CASE OffsetElapsed(n)
  <2>1. /\ phase[n] \in {"armed_send", "armed_fake"}
        /\ \E ph : phase' = [phase EXCEPT ![n] = ph]
        /\ UNCHANGED <<dispq, timingOffset, net, inotify>>
    BY <1>6 DEF OffsetElapsed
  <2>2. state[n] # "syncing_stop"
    BY <1>2, <2>1 DEF NodeFits, Fits
  <2>3. Scheduled(n)'
    BY <1>1, <2>2 DEF Scheduled
  <2>4. QED
    BY <1>2, <1>4, <2>1, <2>3
<1>7. CASE SendData(n) \/ SendDataSwallowed(n)
  <2>1. /\ phase[n] = "sending"
        /\ phase' = [phase EXCEPT ![n] = "stopping"]
        /\ UNCHANGED <<dispq, timingOffset>>
        /\ ReadBack(n)
    BY <1>7 DEF SendData, SendDataSwallowed
  <2>2. state[n] # "syncing_stop"
    BY <1>2, <2>1 DEF DataStates
  <2>3. Scheduled(n)'
    BY <1>1, <2>2 DEF Scheduled
  <2>4. \A k \in Node \ {n} : inotify'[k] = inotify[k]
    BY <1>2, <2>1 DEF ReadBack
  <2>5. /\ net'[m][n] = net[m][n]
        /\ \A w \in Of(net'[n][m]) : w \in Of(net[n][m]) \/ w.status # 155
    <3>1. CASE UNCHANGED net
      BY <3>1
    <3>2. CASE SendData(n)
      <4>1. PICK e : Publish(n, e) /\ e.status = 200
        BY <3>2 DEF SendData, Msg
      <4>2. /\ net'[n][m] = net[n][m] \/ net'[n][m] = Append(net[n][m], e)
            /\ net'[m][n] = net[m][n]
        BY <4>1, PublishTo
      <4>3. net[n][m] \in Seq(Spoken)
        BY <1>0, <1>2
      <4>4. Of(net'[n][m]) \subseteq Of(net[n][m]) \cup {e}
        BY <4>2, <4>3, OfAppend
      <4>5. QED
        BY <4>1, <4>2, <4>4
    <3>3. QED
      BY <1>7, <3>1, <3>2 DEF SendDataSwallowed
  <2>6. QED
    BY <1>2, <1>4, <2>1, <2>2, <2>3, <2>4, <2>5
<1>8. CASE SendDataAborts(n)
  <2>1. UNCHANGED <<phase, dispq, timingOffset, net, inotify>>
    BY <1>8 DEF SendDataAborts
  <2>2. Scheduled(n)'
    BY <1>1, <1>2, <2>1, StillScheduled
  <2>3. QED
    BY <1>4, <2>1, <2>2
<1>9. CASE StopReceives(n)
  <2> DEFINE w == Head(dispq[n])
  <2>1. /\ phase[n] = "stopping" /\ dispq[n] # <<>>
        /\ dispq' = [dispq EXCEPT ![n] = Tail(@)]
        /\ IF w.status = 155
             THEN timingOffset' = [timingOffset EXCEPT ![n] =
                                     IF w.stamp THEN "deadline" ELSE "blank"]
             ELSE UNCHANGED timingOffset
        /\ UNCHANGED <<phase, net, inotify>>
    BY <1>9 DEF StopReceives
  <2>2. /\ dispq[n] \in Seq(WellFormedOrder)
        /\ w \in Of(dispq[n]) /\ Of(Tail(dispq[n])) \subseteq Of(dispq[n])
    BY <1>2, <2>1, OfTail
  <2>3. dispq'[n] = Tail(dispq[n]) /\ phase'[n] = phase[n]
    BY <1>2, <2>1
  <2>4. ASSUME state[n] = "syncing_stop"
        PROVE  w.status = 155 /\ w.stamp
    <3>1. OneOrder(dispq[n], {155})
      BY <1>2, <2>1, <2>4 DEF NodeFits, Fits
    <3>2. QED
      BY <1>2, <2>2, <2>4, <3>1 DEF OneOrder, Scheduled
  <2>5. state[n] = "syncing_stop" => timingOffset'[n] = "deadline"
    BY <1>2, <2>1, <2>4
  <2>6. Scheduled(n)'
    BY <1>1, <1>2, <2>2, <2>3, <2>5 DEF Scheduled
  <2>7. \A k \in Node \ {n} : /\ dispq'[k] = dispq[k]
                              /\ timingOffset'[k] = timingOffset[k]
    BY <1>2, <2>1
  <2>8. QED
    BY <1>4, <2>1, <2>6, <2>7
<1>10. CASE StopElapsed(n)
  <2>1. /\ phase[n] = "stopping"
        /\ phase' = [phase EXCEPT ![n] = "idle"]
        /\ UNCHANGED <<dispq, timingOffset, net, inotify>>
    BY <1>10 DEF StopElapsed
  <2>2. phase'[n] = "idle" /\ \A k \in Node \ {n} : phase'[k] = phase[k]
    BY <1>2, <2>1
  <2>3. Scheduled(n)'
    BY <1>1, <1>2, <2>1, <2>2 DEF Scheduled, Of
  <2>4. QED
    BY <1>4, <2>1, <2>2, <2>3
<1>11. QED
  BY <1>5, <1>6, <1>7, <1>8, <1>9, <1>10 DEF DispatcherStep

-----------------------------------------------------------------------------
(* The calls of processEvent, by the end of the round.                     *)

\* In state s a call with status c goes to t and beats d.
Ends(s, c, d, t) ==
  /\ t # s
  /\ d = 155 => t = "syncing_stop"
  /\ t = "ready" => c \in {150, 156, 172}
  /\ t = "syncing_stop" => c \in {142, 155}
  /\ RoleIn(t) = "announcing" =>
       RoleIn(s) = "announcing" \/ (s = "ready" /\ c \in {300, 320})

EndsBy(row) ==
  row[2] # "node_only_sends_heartbeats" /\ Live(row[1], row[3]) =>
    Ends(row[1], row[3], row[4], row[5])

LEMMA RowsEnd == \A row \in Moves : EndsBy(row)
<1> USE DEF EndsBy, Ends
<1>1. \A row \in MovesAnnouncing : EndsBy(row)
  BY LiveState, RoleOfEach DEF MovesAnnouncing, NewFile, NewMetadata, Live,
                               Unheard
<1>2. \A row \in MovesSending : EndsBy(row)
  BY LiveState, RoleOfEach DEF MovesSending, Live, Unheard
<1>3. \A row \in MovesAcknowledging : EndsBy(row)
  BY LiveState, RoleOfEach DEF MovesAcknowledging, Live, Unheard
<1>4. \A row \in MovesReceiving : EndsBy(row)
  BY LiveState, RoleOfEach DEF MovesReceiving, Live, Unheard
<1>5. \A row \in MovesBroadcasting : EndsBy(row)
  BY LiveState, RoleOfEach DEF MovesBroadcasting, Live, Unheard
<1>6. \A row \in MovesLeaving : EndsBy(row)
  BY DEF MovesLeaving, Live, Unheard
<1>7. QED
  BY <1>1, <1>2, <1>3, <1>4, <1>5, <1>6 DEF Moves

\* What the end of processEvent says.
LEMMA ContinueEnds ==
  ASSUME CInv, NEW n \in Node, NEW c, Live(state[n], c),
         NEW data, NEW meta, NEW stop, NEW orders,
         FsmContinue(n, c, data, meta, stop, orders)
  PROVE  \/ state'[n] = state[n] /\ hbq'[n] = hbq[n]
         \/ \E e : /\ hbq'[n] = Append(hbq[n], e)
                   /\ Ends(state[n], c, e.status, state'[n])
                   /\ e.status = 155 => stop \/ e.stamp
<1> DEFINE moves == MovesFor(state[n], get_event_by_status_code(c), c)
<1>0. state \in [Node -> State] /\ hbq \in [Node -> Seq(Spoken)]
  BY Typed DEF CInv, NothingUnheard, BoxofficeTypeOK
<1>1. CASE moves = {} /\ UNCHANGED <<state, hbq>>
  BY <1>1
<1>2. ASSUME NEW row \in moves, state' = [state EXCEPT ![n] = row[5]],
             UpdateHeartbeat(n, row[4], row[5], data, meta, stop, orders)
      PROVE  \E e : /\ hbq'[n] = Append(hbq[n], e)
                    /\ Ends(state[n], c, e.status, state'[n])
                    /\ e.status = 155 => stop \/ e.stamp
  <2>1. row \in Moves /\ row[1] = state[n] /\ row[3] = c
        /\ row[2] # "node_only_sends_heartbeats"
    BY NobodyOnlyBeats DEF MovesFor
  <2>2. Ends(state[n], c, row[4], row[5]) /\ state'[n] = row[5]
    BY <1>0, <1>2, <2>1, RowsEnd DEF EndsBy
  <2>3. "syncing_stop" \notin SendingMetadataStates
    BY DEF SendingMetadataStates
  <2>4. \E f, g : /\ hbq' = [hbq EXCEPT ![n] = Append(@, Msg(row[4], f, g))]
                  /\ row[5] = "syncing_stop" => stop \/ g
    BY <1>2, <2>3 DEF UpdateHeartbeat
  <2>5. PICK f, g : /\ hbq' = [hbq EXCEPT ![n] = Append(@, Msg(row[4], f, g))]
                    /\ row[5] = "syncing_stop" => stop \/ g
    BY <2>4, ZenonT(40)
  <2> DEFINE e == Msg(row[4], f, g)
  <2>6. e.status = row[4] /\ e.stamp = g
    BY DEF Msg
  <2>7. hbq'[n] = Append(hbq[n], e)
    BY <1>0, <2>5
  <2> HIDE DEF e
  <2>8. e.status = 155 => stop \/ e.stamp
    BY <2>2, <2>5, <2>6 DEF Ends
  <2>9. QED
    BY <2>2, <2>6, <2>7, <2>8
<1>3. QED
  BY <1>1, <1>2 DEF FsmContinue

\* Why a call of n has status c, and what it has done before its end: the flag
\* set to stop, the orders given.
Called(n, m, c, stop, orders) ==
  /\ stop = stopSync[n] \/ c = 155
  /\ \/ stop = stopSync[n] /\ orders = dispq[n]
     \/ MovesFor(state[n], get_event_by_status_code(c), c) # {}
  /\ c \notin {122, 155, 177} => orders = dispq[n]
  /\ c = 155 /\ state[n] = "broadcasting_all_received" =>
       stop /\ orders # <<>> /\ \A w \in Of(orders) : w.stamp
  /\ c \in {300, 320} => inotify[n] # <<>>
  /\ inotify'[n] # <<>> =>
       /\ c \notin {142, 150, 155, 156, 172}
       /\ inotify[n] # <<>> \/ state[n] \notin {"ready", "syncing_stop"}
  /\ \/ state[n] # "ready" \/ inotify[n] # <<>>
     \/ \E w \in Words(m, n) : w.status # 100

\* The stop is scheduled by the call that brings n to it.
LEMMA CallSchedules ==
  ASSUME PInv, Stopping, NEW n \in Node, NEW m \in Peers(n),
         NEW c, NEW stop \in BOOLEAN, NEW orders,
         Stays(n, c, stop, orders) \/ Moving(n, c, stop, orders),
         Called(n, m, c, stop, orders), UNCHANGED <<phase, timingOffset>>
  PROVE  Scheduled(n)'
<1>1. NodeFits(n) /\ Scheduled(n)
  BY DEF PInv, DInv, CInv, Coupled, Stopping
<1>2. CASE Stays(n, c, stop, orders)
  <2>1. dispq'[n] = dispq[n] /\ state'[n] = state[n]
    BY <1>2 DEF Stays, Called
  <2>2. QED
    BY <1>1, <2>1, StillScheduled
<1>3. CASE Moving(n, c, stop, orders)
  <2> SUFFICES ASSUME state'[n] = "syncing_stop"
               PROVE  dispq'[n] # <<>> /\ \A w \in Of(dispq'[n]) : w.stamp
    BY DEF Scheduled
  <2>1. Goes(state[n], c, "syncing_stop")
    BY <1>3 DEF Moving
  <2>2. \/ state[n] = "sending_new_file" /\ c = 142
        \/ state[n] = "broadcasting_all_received" /\ c = 155
    BY <2>1 DEF Goes, RestingStates, EngagedStates
  <2>3. CASE state[n] = "sending_new_file" /\ c = 142
    <3>1. ~stopSync[n] /\ dispq[n] = <<>>
      BY <1>1, <2>3 DEF Stopping, StopFlags, NodeFits, Fits
    <3>2. dispq'[n] = Append(<<>>, ToldToStop)
      BY <1>3, <2>3, <3>1 DEF Moving, Called
    <3> DEFINE e == ToldToStop
    <3>3. e.stamp
      BY DEF ToldToStop, Msg
    <3> HIDE DEF e
    <3>4. dispq'[n] = <<e>>
      BY <3>2 DEF e
    <3>5. QED
      BY <3>3, <3>4 DEF Of
  <2>4. CASE state[n] = "broadcasting_all_received" /\ c = 155
    BY <1>3, <2>4 DEF Moving, Called
  <2>5. QED
    BY <2>2, <2>3, <2>4
<1>4. QED
  BY <1>2, <1>3

\* Such a call proceeds.
LEMMA CallProceeds ==
  ASSUME PInv, Stopping, NEW n \in Node, NEW m \in Peers(n),
         NEW c, Live(state[n], c),
         NEW data \in Seq(File), NEW meta \in Seq(File),
         NEW stop \in BOOLEAN, NEW orders,
         FsmContinue(n, c, data, meta, stop, orders),
         Called(n, m, c, stop, orders), Overhears(n, m),
         UNCHANGED <<timingOffset, version>>,
         \A k \in Node \ {n} : inotify'[k] = inotify[k]
  PROVE  Proceeds(n, m)
<1>0. m \in Node \ {n} /\ m \in Node /\ CInv /\ FilesAgree /\ NodeFits(n)
  BY DEF Peers, PInv, DInv, CInv, Coupled
<1>1. /\ OnlyAt(n)
      /\ Stays(n, c, stop, orders) \/ Moving(n, c, stop, orders)
  BY <1>0, Continues
<1>2. \/ state'[n] = state[n] /\ hbq'[n] = hbq[n]
      \/ \E e : /\ hbq'[n] = Append(hbq[n], e)
                /\ Ends(state[n], c, e.status, state'[n])
                /\ e.status = 155 => stop \/ e.stamp
  BY <1>0, ContinueEnds, SMTT(30)
<1>3. hbq'[m] = hbq[m]
  BY <1>0, ContinueTurns DEF OnlySays
<1>4. /\ Words(m, n)' \subseteq Words(m, n)
      /\ Words(n, m)' = Of(net[n][m]) \cup {beat[n]} \cup Of(hbq'[n])
  BY <1>0, <1>3, OverhearsWords
<1>5. UNCHANGED phase
  BY DEF Overhears
<1>6. Scheduled(n)'
  BY <1>1, <1>5, CallSchedules
<1>7. \A k \in Node \ {n} :
        /\ state'[k] = state[k] /\ stopSync'[k] = stopSync[k]
        /\ Scheduled(k)'
  BY <1>1, <1>5, StillScheduled DEF OnlyAt, Stopping
<1>8. Ends(state[n], c, 0, state'[n]) \/ state'[n] = state[n]
  BY <1>2 DEF Ends
<1>9. ASSUME state'[n] = "syncing_stop", state'[n] # state[n]
      PROVE  \/ RoleIn(state[n]) = "sending" /\ c = 142 /\ ~stop
             \/ RoleIn(state[n]) = "following"
  <2>1. Goes(state[n], c, "syncing_stop")
    BY <1>1, <1>9 DEF Moving, Stays
  <2>2. \/ state[n] = "sending_new_file" /\ c = 142
        \/ state[n] = "broadcasting_all_received" /\ c = 155
    BY <1>9, <2>1 DEF Goes, RestingStates, EngagedStates
  <2>3. state[n] = "sending_new_file" => ~stopSync[n]
    BY DEF Stopping, StopFlags
  <2>4. QED
    BY <2>2, <2>3, RoleOfEach DEF Called
<1>10. \A w \in Words(n, m)' :
         \/ w \in Words(n, m)
         \/ w.status = 155 => w.stamp \/ RoleIn(state[n]) = "following"
  <2>1. CASE hbq'[n] = hbq[n]
    BY <1>4, <2>1 DEF Words
  <2>2. ASSUME NEW e, hbq'[n] = Append(hbq[n], e),
               Ends(state[n], c, e.status, state'[n]),
               e.status = 155 => stop \/ e.stamp
        PROVE  \A w \in Words(n, m)' :
                 \/ w \in Words(n, m)
                 \/ w.status = 155 => w.stamp \/ RoleIn(state[n]) = "following"
    <3>1. hbq[n] \in Seq(Spoken)
      BY <1>0 DEF CInv, NothingUnheard
    <3>2. Of(hbq'[n]) \subseteq Of(hbq[n]) \cup {e}
      BY <2>2, <3>1, OfAppend
    <3>3. e.status = 155 => e.stamp \/ RoleIn(state[n]) = "following"
      BY <1>9, <2>2 DEF Ends
    <3>4. QED
      BY <1>4, <3>2, <3>3 DEF Words
  <2>3. QED
    BY <1>2, <2>1, <2>2
<1>11. stopSync'[n] => stopSync[n] \/ state'[n] = "syncing_stop"
  <2>1. CASE Stays(n, c, stop, orders)
    BY <2>1 DEF Stays, Called
  <2>2. CASE Moving(n, c, stop, orders)
    <3>1. Goes(state[n], c, state'[n])
      BY <2>2 DEF Moving
    <3>2. c = 155 => state'[n] = "syncing_stop"
      BY <3>1 DEF Goes
    <3>3. stop = stopSync[n] \/ c = 155
      BY DEF Called
    <3>4. QED
      BY <2>2, <3>2, <3>3 DEF Moving
  <2>3. QED
    BY <1>1, <2>1, <2>2
<1>12. RoleIn(state[n]) # "announcing" /\ RoleIn(state'[n]) = "announcing" =>
         Pending(n)
  BY <1>8 DEF Ends, Called, Pending
<1>13. Pending(n)' => Pending(n) /\ Words(n, m)' \subseteq Words(n, m)
  <2> SUFFICES ASSUME state'[n] = "ready", inotify'[n] # <<>>
               PROVE  Pending(n) /\ Words(n, m)' \subseteq Words(n, m)
    BY DEF Pending
  <2>1. c \notin {142, 150, 155, 156, 172}
    BY DEF Called
  <2>2. state'[n] = state[n] /\ hbq'[n] = hbq[n]
    BY <1>2, <2>1 DEF Ends
  <2>3. QED
    BY <1>4, <2>1, <2>2 DEF Called, Pending, Words
<1>14. state'[n] = "syncing_stop" =>
         /\ inotify'[n] = <<>>
         /\ RoleIn(state[n]) \in {"sending", "following"}
              \/ state[n] = "syncing_stop"
  <2>1. state[n] = "syncing_stop" => inotify[n] = <<>>
    BY DEF Stopping, StopFlags
  <2>2. state'[n] = "syncing_stop" => inotify'[n] = <<>>
    BY <1>8, <2>1 DEF Ends, Called
  <2>3. QED
    BY <1>9, <2>2
<1>15. ~(/\ state[n] = "ready" /\ inotify[n] = <<>>
         /\ \A w \in Words(m, n) : w.status = 100)
  BY DEF Called
<1>16. QED
  BY <1>4, <1>6, <1>7, <1>10, <1>11, <1>12, <1>13, <1>14, <1>15 DEF Proceeds

\* So does a step of the boxoffice in which n keeps its role.
LEMMA RoleKeptProceeds ==
  ASSUME PInv, Stopping, NEW n \in Node, NEW m \in Peers(n),
         Overhears(n, m), UNCHANGED <<timingOffset, version>>,
         \A k \in Node \ {n} :
           /\ state'[k] = state[k] /\ stopSync'[k] = stopSync[k]
           /\ hbq'[k] = hbq[k] /\ dispq'[k] = dispq[k]
           /\ inotify'[k] = inotify[k],
         RoleIn(state'[n]) = RoleIn(state[n]),
         state'[n] = state[n] \/ state'[n] \notin {"ready", "syncing_stop"},
         stopSync'[n] => stopSync[n],
         state[n] = "syncing_stop" => dispq'[n] = dispq[n],
         \A w \in Of(hbq'[n]) :
           w \in Of(hbq[n]) \/ w.status \in {100, 141},
         state[n] = "ready" =>
           /\ state'[n] = "ready"
           /\ \A w \in Of(hbq'[n]) : w \in Of(hbq[n]) \/ w.status = 100,
         state'[n] \in {"ready", "syncing_stop"} =>
           \/ inotify'[n] = <<>>
           \/ inotify[n] # <<>> /\ hbq'[n] = hbq[n]
  PROVE  Proceeds(n, m)
<1>0. m \in Node \ {n} /\ m \in Node /\ CInv /\ FilesAgree
  BY DEF Peers, PInv, DInv
<1>1. /\ Words(m, n)' \subseteq Words(m, n)
      /\ Words(n, m)' = Of(net[n][m]) \cup {beat[n]} \cup Of(hbq'[n])
  BY <1>0, OverhearsWords
<1>2. UNCHANGED phase
  BY DEF Overhears
<1>3. \A k \in Node \ {n} : Scheduled(k)'
  BY <1>2, StillScheduled DEF Stopping
<1>4. Scheduled(n)'
  <2>1. CASE state'[n] = "syncing_stop"
    BY <1>2, <2>1, StillScheduled DEF Stopping
  <2>2. CASE state'[n] # "syncing_stop"
    BY <2>2 DEF Scheduled
  <2>3. QED
    BY <2>1, <2>2
<1>5. \A w \in Words(n, m)' : \/ w \in Words(n, m)
                              \/ w.status \in {100, 141}
  BY <1>1 DEF Words
<1>6. Pending(n)' => Pending(n) /\ Words(n, m)' \subseteq Words(n, m)
  BY <1>1 DEF Pending, Words
<1>7. state[n] = "syncing_stop" => inotify[n] = <<>>
  BY DEF Stopping, StopFlags
<1>8. state[n] = "ready" =>
        \A w \in Words(n, m)' : w \in Words(n, m) \/ w.status = 100
  BY <1>1 DEF Words
<1>9. /\ stopSync'[n] => stopSync[n]
      /\ state'[n] = "syncing_stop" =>
           inotify'[n] = <<>> /\ state[n] = "syncing_stop"
  BY <1>7
<1>10. /\ state[n] = "ready" /\ inotify[n] = <<>>
       /\ \A w \in Words(n, m) : w.status = 100
       => /\ state'[n] = "ready" /\ inotify'[n] = <<>>
          /\ \A w \in Words(n, m)' : w.status = 100
  BY <1>8
<1>11. QED
  BY <1>1, <1>3, <1>4, <1>5, <1>6, <1>9, <1>10 DEF Proceeds

\* A 132 or 156 of n's dispatcher ends no round, or the one n has stopped.
LEMMA PostProceeds ==
  ASSUME PInv, Stopping, NEW n \in Node, NEW m \in Peers(n), PostStep(n)
  PROVE  Proceeds(n, m)
<1> DEFINE c      == Head(posts[n])
           stop   == stopSync[n]
           orders == dispq[n]
<1>0. CInv
  BY DEF PInv, DInv
<1>1. /\ posts[n] # <<>>
      /\ FsmContinue(n, c, fileListData[n], fileListMetadata[n], stop, orders)
      /\ UNCHANGED <<net, beat, phase, job, notifiedDispatch, timingOffset,
                     version, inotify>>
  BY DEF PostStep, HearDispatcher, PlainContinue, heartbeaterVars,
         dispatcherVars
<1>2. /\ c \in {132, 156} /\ NodeFits(n) /\ stop \in BOOLEAN
      /\ fileListData[n] \in Seq(File) /\ fileListMetadata[n] \in Seq(File)
      /\ state[n] \in EngagedStates \cup RestingStates
  <2>1. /\ posts[n] \in Seq({132, 156}) /\ stopSync \in [Node -> BOOLEAN]
        /\ fileListData \in [Node -> Seq(File)]
        /\ fileListMetadata \in [Node -> Seq(File)]
    BY <1>0, Typed DEF CInv, WiresWellFormed, BoxofficeTypeOK
  <2>2. QED
    BY <1>0, <1>1, <2>1, HeadTailProperties DEF CInv, Coupled, NodeFits, Fits
<1>3. state[n] \notin RestingStates
  BY <1>1, <1>2 DEF NodeFits, Fits
<1>4. state[n] \in EngagedStates /\ state[n] # "ready"
  BY <1>2, <1>3 DEF EngagedStates
<1>5. c = 156 => state[n] = "syncing_stop"
  <2>1. posts[n] = <<132>> => c = 132
    BY OnePost
  <2>2. posts[n] # <<>> /\ state[n] # "syncing_stop" => posts[n] = <<132>>
    BY <1>2, <1>4 DEF NodeFits, Fits, EngagedStates
  <2>3. QED
    BY <1>1, <2>1, <2>2
<1>6. c = 132 => state[n] # "syncing_stop"
  <2>1. posts[n] = <<156>> => c = 156
    BY OnePost
  <2>2. posts[n] # <<>> /\ state[n] = "syncing_stop" => posts[n] = <<156>>
    BY <1>2 DEF NodeFits, Fits
  <2>3. QED
    BY <1>1, <2>1, <2>2
<1> HIDE DEF c
<1>7. Live(state[n], c)
  BY <1>2, <1>4 DEF Live, Unheard, EngagedStates
<1>8. Overhears(n, m)
  BY <1>1 DEF Overhears

<1>9. Called(n, m, c, stop, orders)
  <2>1. state[n] = "syncing_stop" => inotify[n] = <<>>
    BY DEF Stopping, StopFlags
  <2>2. inotify'[n] # <<>> => c # 156
    BY <1>1, <1>5, <2>1
  <2>3. c \notin {122, 142, 150, 155, 172, 177, 300, 320}
    BY <1>2
  <2>4. inotify'[n] # <<>> => state[n] \notin {"ready", "syncing_stop"}
    BY <1>1, <1>4, <2>1
  <2>5. QED
    BY <1>4, <2>2, <2>3, <2>4 DEF Called
<1> HIDE DEF stop, orders
<1>10. QED
  BY <1>1, <1>2, <1>7, <1>8, <1>9, CallProceeds

\* A change n's box reports starts a round, or is put off.
LEMMA BoxProceeds ==
  ASSUME PInv, Stopping, NEW n \in Node, NEW m \in Peers(n), BoxStep(n)
  PROVE  Proceeds(n, m)
<1>0. m \in Node \ {n} /\ CInv
  BY DEF PInv, DInv, Peers
<1>1. PICK status \in LocalStatus : HearLocal(n, status)
  BY DEF BoxStep
<1>2. /\ UNCHANGED <<net, beat, phase, job, notifiedDispatch, timingOffset,
                     version>>
      /\ TakesLocal(n, status)
  BY <1>1
  DEF BoxStep, heartbeaterVars, dispatcherVars, HearLocal, IgnoreLocal,
      LocalPathTooLong, LocalFileMissing, LocalReportedTwice, LocalQueued,
      TakesLocal
<1>3. /\ fileListData[n] \in Seq(File) /\ fileListMetadata[n] \in Seq(File)
      /\ stopSync[n] \in BOOLEAN
      /\ inotify \in [Node -> Seq(FileEvent)]
      /\ state[n] \in EngagedStates \cup RestingStates
  BY <1>0, Typed DEF CInv, WiresWellFormed, BoxofficeTypeOK, Coupled, NodeFits,
                     Fits
<1>4. /\ inotify[n] # <<>>
      /\ \E q : inotify' = [inotify EXCEPT ![n] = q]
  BY <1>2 DEF TakesLocal
<1>5. \A k \in Node \ {n} : inotify'[k] = inotify[k]
  BY <1>3, <1>4
<1>6. Overhears(n, m)
  BY <1>2 DEF Overhears
<1>7. CASE UNCHANGED <<state, stopSync, hbq, dispq>>
  BY <1>2, <1>4, <1>5, <1>6, <1>7, RoleKeptProceeds
<1>8. ASSUME NEW c \in {301} \cup LocalStatus, Live(state[n], c),
             NEW data \in Seq(File), NEW meta \in Seq(File),
             NEW stop, stop = stopSync[n], NEW orders, orders = dispq[n],
             FsmContinue(n, c, data, meta, stop, orders)
      PROVE  Proceeds(n, m)
  <2>1. c \notin {122, 142, 150, 155, 156, 172, 177}
    BY <1>8 DEF LocalStatus, NoStatus
  <2>2. Called(n, m, c, stop, orders)
    BY <1>4, <1>8, <2>1 DEF Called
  <2>3. stop \in BOOLEAN
    BY <1>3, <1>8
  <2>4. QED
    BY <1>2, <1>5, <1>6, <1>8, <2>2, <2>3, CallProceeds
<1>9. CASE LocalReportedTwice(n, status)
  <2> DEFINE c == 301
  <2>1. PlainContinue(n, c) /\ Live(state[n], c) /\ c \in {301}
    BY <1>3, <1>9 DEF LocalReportedTwice, Live, Unheard
  <2> HIDE DEF c
  <2>2. QED
    BY <1>3, <1>8, <2>1 DEF PlainContinue
<1>10. CASE LocalQueued(n, status)
  <2> DEFINE f    == NewLocalFile(n, LocalEvent(n))
             data == IF status = 300 THEN Append(fileListData[n], f)
                                     ELSE fileListData[n]
             meta == IF status = 320 THEN Append(fileListMetadata[n], f)
                                     ELSE fileListMetadata[n]
  <2>1. f \in File
    <3>1. LocalEvent(n) \in FileEvent
      BY <1>0, <1>2, TakesLocalTyped DEF CInv
    <3>2. /\ LocalEvent(n).path \in Path
          /\ disk[n][LocalEvent(n).path] \in Copy
      BY <1>0, <3>1, Typed DEF CInv, WiresWellFormed, FileEvent
    <3>3. QED
      BY <3>1, <3>2 DEF NewLocalFile, File, Copy
  <2> HIDE DEF f
  <2>2. data \in Seq(File) /\ meta \in Seq(File)
    BY <1>3, <2>1, AppendProperties
  <2>3. FsmContinue(n, status, data, meta, stopSync[n], dispq[n])
    BY <1>10 DEF LocalQueued, f
  <2> HIDE DEF data, meta
  <2>4. Live(state[n], status)
    <3>1. state[n] # "announcing_new_file"
      BY <1>10 DEF LocalQueued
    <3>2. /\ status \notin Unheard \cup {126, 136, 146, 304, 324, 500}
          /\ status # 132
      BY DEF Unheard, LocalStatus, NoStatus
    <3>3. QED
      BY <1>3, <3>1, <3>2 DEF Live
  <2>5. QED
    BY <1>8, <2>2, <2>3, <2>4
<1>11. QED
  BY <1>1, <1>7, <1>9, <1>10
  DEF HearLocal, IgnoreLocal, LocalPathTooLong, LocalFileMissing

\* A message of the peer ends a round, or takes n on in it.  n's box has nothing
\* to report then.
LEMMA PeerProceeds ==
  ASSUME OneAtATime, PInv, Stopping, NEW n \in Node, NEW m \in Peers(n),
         PeerStep(n, m)
  PROVE  Proceeds(n, m)
<1> DEFINE h == Heard(n, m)
           d == h.status
<1>0. m \in Node \ {n} /\ m \in Node /\ n \in Peers(m) /\ CInv
  BY DEF Peers, PInv, DInv
<1>1. HearFrom(n, m) /\ UNCHANGED <<beat, phase, job, timingOffset, version>>
  BY DEF PeerStep, heartbeaterVars, dispatcherVars
<1>2. /\ state \in [Node -> State] /\ hbq \in [Node -> Seq(Spoken)]
      /\ stopSync \in [Node -> BOOLEAN]
      /\ notifiedDispatch \in [Node -> BOOLEAN]
      /\ dispq \in [Node -> Seq(WellFormedOrder)]
      /\ inotify \in [Node -> Seq(FileEvent)]
      /\ net \in [Node -> [Node -> Seq(Spoken)]]
      /\ fileListData[n] \in Seq(File) /\ fileListMetadata[n] \in Seq(File)
      /\ stopSync[n] \in BOOLEAN
      /\ state[n] \in EngagedStates \cup RestingStates /\ NodeFits(n)
  BY <1>0, Typed, ZenonT(40)
  DEF CInv, NothingUnheard, BoxofficeTypeOK, WiresWellFormed, Coupled, NodeFits,
      Fits
<1>3. /\ stopSync[n] => state[n] \in {"ready", "syncing_stop"}
      /\ state[n] = "syncing_stop" => stopSync[n]
  BY <1>2 DEF Stopping, StopFlags, NodeFits, Fits
<1>4. ASSUME NEW statuses, Takes(n, m, statuses)
      PROVE  /\ d \in statuses \ Unheard /\ h \in Words(m, n)
             /\ net[m][n] # <<>> /\ net'[m][n] = Tail(net[m][n])
             /\ net'[n][m] = net[n][m]
             /\ inotify[n] = <<>>
  <2>1. d \in statuses \ Unheard
    BY <1>0, <1>4, TakesSpoken
  <2>2. /\ net[m][n] # <<>> /\ net' = [net EXCEPT ![m][n] = Tail(@)]
        /\ inotify[n] = <<>>
    BY <1>4 DEF Takes, OneAtATime
  <2>3. net'[m][n] = Tail(net[m][n]) /\ net'[n][m] = net[n][m]
    BY <1>0, <1>2, <2>2
  <2>4. Head(net[m][n]) \in Of(net[m][n])
    BY <1>0, <1>2, <2>2, OfTail
  <2>5. QED
    BY <2>1, <2>2, <2>3, <2>4 DEF Heard, Words
<1>5. ASSUME NEW statuses, Hears(n, m, statuses)
      PROVE  Takes(n, m, statuses)
  BY <1>5 DEF Hears
<1>6. ASSUME NEW statuses, Takes(n, m, statuses),
             notifiedDispatch'[m] = notifiedDispatch[m]
      PROVE  Overhears(n, m)
  BY <1>1, <1>4, <1>6 DEF Overhears
\* Without a change of role.
<1>7. ASSUME NEW statuses, Takes(n, m, statuses),
             UNCHANGED <<state, notifiedDispatch, dispq, inotify>>,
             UNCHANGED stopSync \/ stopSync' = [stopSync EXCEPT ![n] = FALSE],
             \/ UNCHANGED hbq
             \/ \E e : e.status = 100 /\ hbq' = [hbq EXCEPT ![n] = Append(@, e)]
      PROVE  Proceeds(n, m)
  <2>1. /\ \A k \in Node \ {n} :
             stopSync'[k] = stopSync[k] /\ hbq'[k] = hbq[k]
        /\ stopSync'[n] => stopSync[n]
    BY <1>2, <1>7
  <2>2. \A w \in Of(hbq'[n]) : w \in Of(hbq[n]) \/ w.status = 100
    <3>1. CASE UNCHANGED hbq
      BY <3>1
    <3>2. ASSUME NEW e, e.status = 100, hbq' = [hbq EXCEPT ![n] = Append(@, e)]
          PROVE  \A w \in Of(hbq'[n]) : w \in Of(hbq[n]) \/ w.status = 100
      <4>1. hbq'[n] = Append(hbq[n], e) /\ hbq[n] \in Seq(Spoken)
        BY <1>2, <3>2
      <4>2. Of(hbq'[n]) \subseteq Of(hbq[n]) \cup {e}
        BY <4>1, OfAppend
      <4>3. QED
        BY <3>2, <4>2
    <3>3. QED
      BY <1>7, <3>1, <3>2
  <2>3. Overhears(n, m) /\ inotify'[n] = <<>>
    BY <1>4, <1>6, <1>7
  <2>4. QED
    BY <1>1, <1>7, <2>1, <2>2, <2>3, RoleKeptProceeds
\* With a call of the state machine.
<1>8. ASSUME NEW statuses, Takes(n, m, statuses), NEW c, Live(state[n], c),
             NEW data \in Seq(File), NEW meta \in Seq(File),
             NEW stop \in BOOLEAN, NEW orders,
             FsmContinue(n, c, data, meta, stop, orders),
             notifiedDispatch'[m] = notifiedDispatch[m],
             \A k \in Node \ {n} : inotify'[k] = inotify[k],
             Called(n, m, c, stop, orders)
      PROVE  Proceeds(n, m)
  BY <1>1, <1>6, <1>8, CallProceeds
<1>9. ASSUME NEW c \in HeartbeatStatus \cup {113, 142, 162, 166, 172, 173, 174,
                                            122, 177, 178},
             c \notin Unheard
      PROVE  Live(state[n], c)
  <2>1. state[n] \in EngagedStates \cup RestingStates
    BY <1>2
  <2>2. c \notin {126, 132, 136, 146, 300, 304, 320, 324, 500}
    BY <1>9 DEF HeartbeatStatus
  <2>3. QED
    BY <1>9, <2>1, <2>2 DEF Live
\* One that gives no order and does not touch the flag.
<1>10. ASSUME NEW statuses, Takes(n, m, statuses), d # 100,
              NEW c, Live(state[n], c), PlainContinue(n, c),
              c \notin {122, 177, 300, 320}, c = 155 => stopSync[n],
              notifiedDispatch'[m] = notifiedDispatch[m],
              \A k \in Node \ {n} : inotify'[k] = inotify[k],
              \/ inotify'[n] = <<>>
              \/ /\ c \notin {142, 150, 155, 156, 172}
                 /\ state[n] \notin {"ready", "syncing_stop"}
       PROVE  Proceeds(n, m)
  <2> DEFINE stop   == stopSync[n]
             orders == dispq[n]
             data   == fileListData[n]
             meta   == fileListMetadata[n]
  <2>1. Called(n, m, c, stop, orders)
    BY <1>3, <1>4, <1>10 DEF Called
  <2>2. /\ FsmContinue(n, c, data, meta, stop, orders)
        /\ stop \in BOOLEAN /\ data \in Seq(File) /\ meta \in Seq(File)
    BY <1>2, <1>10 DEF PlainContinue
  <2> HIDE DEF stop, orders, data, meta
  <2>3. QED
    BY <1>8, <1>10, <2>1, <2>2
<1>11. ASSUME NEW statuses, Hears(n, m, statuses), PlainContinue(n, d),
              d \in HeartbeatStatus \ {100}, d = 155 => stopSync[n],
              notifiedDispatch'[m] = notifiedDispatch[m], UNCHANGED inotify
       PROVE  Proceeds(n, m)
  <2>1. Takes(n, m, statuses) /\ d \notin Unheard /\ inotify[n] = <<>>
    BY <1>4, <1>5, <1>11
  <2>2. Live(state[n], d)
    BY <1>9, <1>11, <2>1
  <2>3. d # 100 /\ d \notin {122, 177, 300, 320}
    BY <1>11 DEF HeartbeatStatus
  <2> HIDE DEF d
  <2>4. QED
    BY <1>10, <1>11, <2>1, <2>2, <2>3
<1> HIDE DEF d
<1>12. CASE IgnoreMessage(n, m)
  BY <1>7, <1>12 DEF IgnoreMessage, boVars
<1>13. CASE HearPlain(n, m)
  <2>1. /\ Hears(n, m, HeartbeatStatus) /\ PlainContinue(n, d)
        /\ UNCHANGED <<notifiedDispatch, inotify>>
        /\ d # 100 /\ (d = 155 => stopSync[n])
    BY <1>13 DEF HearPlain, d
  <2>2. d \in HeartbeatStatus
    BY <1>4, <1>5, <2>1
  <2>3. QED
    BY <1>11, <2>1, <2>2
<1>14. CASE Hear100(n, m)
  <2>1. /\ Takes(n, m, {100})
        /\ UNCHANGED <<state, notifiedDispatch, dispq, inotify, hbq>>
        /\ stopSync' = [stopSync EXCEPT ![n] = FALSE]
    BY <1>5, <1>14 DEF Hear100
  <2>2. QED
    BY <1>7, <2>1
<1>15. CASE HearReply(n, m)
  <2>1. /\ Hears(n, m, ReplyStatus) /\ PlainContinue(n, d)
        /\ UNCHANGED <<notifiedDispatch, inotify>>
    BY <1>15 DEF HearReply, d
  <2>2. d \in HeartbeatStatus \ {100} /\ d # 155
    BY <1>4, <1>5, <2>1 DEF ReplyStatus, HeartbeatStatus
  <2>3. QED
    BY <1>11, <2>1, <2>2
<1>16. CASE HearLastReply(n, m)
  <2> DEFINE c      == StatusOnceAllReplied(n, d)
             data   == fileListData[n]
             meta   == fileListMetadata[n]
             stop   == stopSync[n]
             orders == SendOrders(n, c)
  <2>1. /\ Takes(n, m, ReplyStatus) /\ d \in ReplyStatus \ Unheard
        /\ h \in Words(m, n) /\ UNCHANGED <<notifiedDispatch, inotify>>
        /\ inotify[n] = <<>>
    BY <1>4, <1>5, <1>16 DEF HearLastReply
  <2>2. c \in {122, 162, 166, 142, 174, 178, 177, 172}
    BY <2>1 DEF StatusOnceAllReplied, ReplyStatus
  <2>3. \/ UNCHANGED <<state, stopSync, hbq, dispq>>
        \/ /\ Accepts(n, c)
           /\ FsmContinue(n, c, data, meta, stop, orders)
    BY <1>16 DEF HearLastReply, d
  <2>4. d # 100
    BY <2>1 DEF ReplyStatus
  <2>5. ASSUME Accepts(n, c)
        PROVE  Called(n, m, c, stop, orders)
    <3>1. c \in {122, 177} =>
            MovesFor(state[n], get_event_by_status_code(c), c) # {}
      BY <2>5, OrdersMove DEF Accepts, check_event
    <3>2. c \notin {122, 177} => orders = dispq[n]
      BY DEF SendOrders
    <3>3. \E w \in Words(m, n) : w.status # 100
      BY <2>1, <2>4 DEF d
    <3>4. c \notin {155, 300, 320} /\ inotify'[n] = <<>> /\ stop = stopSync[n]
      BY <2>1, <2>2
    <3> HIDE DEF c, stop, orders
    <3>5. QED
      BY <3>1, <3>2, <3>3, <3>4 DEF Called
  <2>6. Live(state[n], c)
    BY <1>9, <2>2 DEF Unheard
  <2>7. data \in Seq(File) /\ meta \in Seq(File) /\ stop \in BOOLEAN
    BY <1>2
  <2>8. stop = stopSync[n]
    OBVIOUS
  <2> HIDE DEF c, data, meta, stop, orders
  <2>9. CASE UNCHANGED <<state, stopSync, hbq, dispq>>
    BY <1>7, <2>1, <2>9
  <2>10. CASE /\ Accepts(n, c)
              /\ FsmContinue(n, c, data, meta, stop, orders)
    BY <1>8, <2>1, <2>5, <2>6, <2>7, <2>10
  <2>11. QED
    BY <2>3, <2>9, <2>10
<1>17. CASE HearAnnouncement(n, m)
  <2>1. /\ Hears(n, m, {120, 124}) /\ PlainContinue(n, d)
        /\ notifiedDispatch' = [notifiedDispatch EXCEPT ![n] = FALSE]
        /\ UNCHANGED inotify
    BY <1>17 DEF HearAnnouncement, d
  <2>2. d \in HeartbeatStatus \ {100} /\ d # 155
    BY <1>4, <1>5, <2>1 DEF HeartbeatStatus
  <2>3. notifiedDispatch'[m] = notifiedDispatch[m]
    BY <1>0, <1>2, <2>1
  <2>4. QED
    BY <1>11, <2>1, <2>2, <2>3
<1>18. CASE Hear160(n, m)
  <2>1. /\ Hears(n, m, {160}) /\ PlainContinue(n, 160)
        /\ UNCHANGED <<notifiedDispatch, inotify>>
    BY <1>18 DEF Hear160
  <2>2. d = 160
    BY <1>4, <1>5, <2>1
  <2>3. d \in HeartbeatStatus \ {100} /\ PlainContinue(n, d) /\ d # 155
    BY <2>1, <2>2 DEF HeartbeatStatus
  <2>4. QED
    BY <1>11, <2>1, <2>3
<1>19. CASE Hear170(n, m)
  <2> DEFINE c == 173
  <2>1. /\ Takes(n, m, {170}) /\ PlainContinue(n, c)
        /\ UNCHANGED notifiedDispatch
        /\ state[n] = "receiving_file_metadata_change"
        /\ inotify' = [inotify EXCEPT ![n] = inotify'[n]]
    BY <1>2, <1>5, <1>19 DEF Hear170, EchoOfReadFile
  <2>2. d # 100 /\ \A k \in Node \ {n} : inotify'[k] = inotify[k]
    BY <1>2, <1>4, <2>1
  <2>3. Live(state[n], c) /\ c \notin {122, 142, 150, 155, 156, 172, 177, 300, 320}
    BY <1>9 DEF Unheard
  <2> HIDE DEF c
  <2>4. QED
    BY <1>10, <2>1, <2>2, <2>3
<1>20. CASE HearData(n, m)
  <2> DEFINE c == 113
  <2>1. /\ Hears(n, m, {200}) /\ PlainContinue(n, c)
        /\ UNCHANGED notifiedDispatch
        /\ inotify' = [inotify EXCEPT ![n] = inotify'[n]]
    BY <1>2, <1>20 DEF HearData, StoreData
  <2>2. Takes(n, m, {200}) /\ d = 200 /\ Accepts(n, d)
    BY <1>4, <1>5, <2>1 DEF Hears, Heard, d
  <2>3. get_event_by_status_code(200) = "received_file_data"
    BY DEF get_event_by_status_code
  <2>4. state[n] = "sending_fake_file"
    BY <1>2, <2>2, <2>3, DataAccepted DEF Accepts
  <2>5. \A k \in Node \ {n} : inotify'[k] = inotify[k]
    BY <1>2, <2>1
  <2>6. Live(state[n], c) /\ c \notin {122, 142, 150, 155, 156, 172, 177, 300, 320}
    BY <1>9 DEF Unheard
  <2> HIDE DEF c
  <2>7. QED
    BY <1>10, <2>1, <2>2, <2>4, <2>5, <2>6
<1>21. CASE Hear155(n, m)
  <2> DEFINE c      == 155
             data   == fileListData[n]
             meta   == fileListMetadata[n]
             stop   == TRUE
             order  == StopOrder(h)
             orders == Append(dispq[n], order)
  <2>1. /\ Takes(n, m, {155}) /\ UNCHANGED <<notifiedDispatch, inotify>>
        /\ Accepts(n, d) /\ ~stopSync[n]
        /\ FsmContinue(n, c, data, meta, stop, orders)
    BY <1>5, <1>21 DEF Hear155, Hears, Heard, d
  <2>2. d = c /\ h \in Words(m, n) /\ inotify[n] = <<>>
    BY <1>4, <2>1
  <2>3. MovesFor(state[n], get_event_by_status_code(c), c) # {}
    BY <1>3, <2>1, <2>2, OrdersMove DEF Accepts, check_event
  <2>4. order.stamp = h.stamp
    BY DEF StopOrder, Msg
  <2>5. ASSUME state[n] = "broadcasting_all_received"
        PROVE  orders # <<>> /\ \A w \in Of(orders) : w.stamp
    <3>1. RoleIn(state[n]) = "following"
      BY <2>5, RoleOfEach
    <3>2. h.stamp
      BY <2>2, <3>1 DEF Stopping, StampsTrue, d
    <3>3. dispq[n] = <<>>
      BY <1>2, <2>5 DEF NodeFits, Fits
    <3> HIDE DEF order
    <3>4. orders = <<order>>
      BY <3>3
    <3>5. order.stamp
      BY <2>4, <3>2
    <3> HIDE DEF orders
    <3>6. QED
      BY <3>4, <3>5 DEF Of
  <2>6. \E w \in Words(m, n) : w.status # 100
    BY <2>2 DEF d
  <2>7. Live(state[n], c)
    BY <1>9 DEF Unheard, HeartbeatStatus
  <2>8. c = 155 /\ stop /\ stop \in BOOLEAN
    OBVIOUS
  <2>9. data \in Seq(File) /\ meta \in Seq(File) /\ inotify'[n] = <<>>
    BY <1>2, <2>1, <2>2
  <2> HIDE DEF c, data, meta, stop, order, orders
  <2>10. Called(n, m, c, stop, orders)
    <3>1. state[n] = "broadcasting_all_received" =>
            stop /\ orders # <<>> /\ \A w \in Of(orders) : w.stamp
      BY <2>5, <2>8
    <3>2. c \notin {300, 320} /\ c \in {122, 155, 177}
      BY <2>8
    <3>3. QED
      BY <2>3, <2>6, <2>8, <2>9, <3>1, <3>2 DEF Called
  <2>11. QED
    BY <1>8, <2>1, <2>7, <2>8, <2>9, <2>10
<1>22. CASE Hear150InReady(n, m)
  <2> DEFINE e == Msg(100, NoFile, FALSE)
  <2>1. /\ Takes(n, m, {150})
        /\ UNCHANGED <<state, notifiedDispatch, dispq, inotify, stopSync>>
        /\ hbq' = [hbq EXCEPT ![n] =
                     IF @ # <<>> /\ @[Len(@)] = e THEN @ ELSE Append(@, e)]
    BY <1>5, <1>22 DEF Hear150InReady, boVars
  <2>2. e.status = 100
    BY DEF Msg
  <2> HIDE DEF e
  <2>3. hbq' = hbq \/ hbq' = [hbq EXCEPT ![n] = Append(@, e)]
    BY <1>2, <2>1
  <2>4. QED
    BY <1>7, <2>1, <2>2, <2>3, ZenonT(40)
\* The two that a receiver stays one in.
<1>23. CASE Hear130(n, m)
  <2>1. /\ Takes(n, m, {130})
        /\ state[n] = "promoting_new_file_metadata"
        /\ dispq' = [dispq EXCEPT ![n] = dispq'[n]]
        /\ notifiedDispatch' = [notifiedDispatch EXCEPT ![n] = TRUE]
        /\ inotify' = [inotify EXCEPT ![n] = inotify'[n]]
        /\ UNCHANGED <<state, hbq, stopSync>>
    BY <1>2, <1>5, <1>23 DEF Hear130, Promote, ArmsDispatcher, EchoOfReadFile
  <2>2. \A k \in Node \ {n} :
          /\ dispq'[k] = dispq[k] /\ inotify'[k] = inotify[k]
          /\ notifiedDispatch'[k] = notifiedDispatch[k]
    BY <1>2, <2>1
  <2>3. Overhears(n, m)
    BY <1>0, <1>6, <2>1, <2>2
  <2>4. QED
    BY <1>1, <2>1, <2>2, <2>3, RoleKeptProceeds
<1>24. CASE Hear174(n, m)
  <2> DEFINE e == Msg(141, NoFile, FALSE)
  <2>1. /\ Takes(n, m, {174})
        /\ state[n] = "receiving_file_metadata_change_with_more"
        /\ notifiedDispatch' = [notifiedDispatch EXCEPT ![n] = FALSE]
        /\ state' = [state EXCEPT ![n] = "broadcasting_all_metadata_received"]
        /\ hbq' = [hbq EXCEPT ![n] = Append(@, e)]
        /\ inotify' = [inotify EXCEPT ![n] = inotify'[n]]
        /\ UNCHANGED <<dispq, stopSync>>
    BY <1>2, <1>5, <1>24 DEF Hear174, EchoOfReadFile
  <2>2. e.status = 141
    BY DEF Msg
  <2> HIDE DEF e
  <2>3. /\ hbq'[n] = Append(hbq[n], e) /\ hbq[n] \in Seq(Spoken)
        /\ state'[n] = "broadcasting_all_metadata_received"
        /\ \A k \in Node \ {n} :
             /\ state'[k] = state[k] /\ hbq'[k] = hbq[k]
             /\ inotify'[k] = inotify[k]
             /\ notifiedDispatch'[k] = notifiedDispatch[k]
    BY <1>2, <2>1
  <2>4. Of(hbq'[n]) \subseteq Of(hbq[n]) \cup {e}
    BY <2>3, OfAppend
  <2>5. RoleIn(state'[n]) = RoleIn(state[n])
    BY <2>1, <2>3, RoleOfEach
  <2>6. Overhears(n, m)
    BY <1>0, <1>6, <2>1, <2>3
  <2>7. \A w \in Of(hbq'[n]) : w \in Of(hbq[n]) \/ w.status \in {100, 141}
    BY <2>2, <2>4
  <2>8. QED
    BY <1>1, <2>1, <2>3, <2>5, <2>6, <2>7, RoleKeptProceeds
<1>25. QED
  BY <1>1, <1>12, <1>13, <1>14, <1>15, <1>16, <1>17, <1>18, <1>19, <1>20,
     <1>21, <1>22, <1>23, <1>24
  DEF HearFrom

\* A user changes a file of a flock at rest.
LEMMA UserStops ==
  ASSUME OneAtATime, PInv, Stopping, NEW n \in Node, UserStep(n)
  PROVE  Stopping'
<1>1. PICK p \in Path, kind \in Kinds : UserChange(n, p, kind)
  BY DEF UserStep
<1>2. /\ UNCHANGED <<state, stopSync, beat, hbq, net, phase, dispq,
                     timingOffset>>
      /\ version' = version + 1 /\ version < MaxVersion
      /\ "quiet" \in Timely => Quiet
      /\ inotify' = [inotify EXCEPT ![n] = inotify'[n]]
  <2>1. inotify \in [Node -> Seq(FileEvent)]
    BY Typed DEF PInv, DInv, CInv, WiresWellFormed
  <2>2. QED
    BY <1>1, <2>1 DEF UserStep, UserChange, boVars, heartbeaterVars,
                      dispatcherVars
<1>3. /\ version \in Nat /\ MaxVersion \in Nat
      /\ inotify \in [Node -> Seq(FileEvent)]
      /\ net \in [Node -> [Node -> Seq(Spoken)]]
  BY Typed, WiresAssumption
  DEF PInv, DInv, CInv, Version, WiresWellFormed, NothingUnheard
<1>4. \A k \in Node : AtRest(k) /\ inotify[k] = <<>>
  <2>1. CASE "quiet" \in Timely
    <3> SUFFICES ASSUME NEW k \in Node
                 PROVE  AtRest(k) /\ inotify[k] = <<>>
      OBVIOUS
    <3>1. Quiet
      BY <1>2, <2>1
    <3>2. /\ state[k] = "ready" /\ ~stopSync[k] /\ inotify[k] = <<>>
          /\ beat[k].status = 100 /\ hbq[k] = <<>>
      BY <3>1 DEF Quiet
    <3>3. ASSUME NEW l \in Peers(k), NEW w \in Words(k, l)
          PROVE  w.status = 100
      <4>1. l \in Node
        BY DEF Peers
      <4>2. \A i \in DOMAIN net[k][l] : net[k][l][i].status = 100
        BY <3>1, <4>1 DEF Quiet
      <4>3. QED
        BY <3>2, <3>3, <4>2 DEF Words, Of
    <3>4. QED
      BY <3>2, <3>3 DEF AtRest
  <2>2. CASE "quiet" \notin Timely
    <3>1. version = 0
      BY <1>2, <1>3, <2>2 DEF OneAtATime
    <3>2. QED
      BY <3>1 DEF Stopping, Untouched
  <2>3. QED
    BY <2>1, <2>2
<1>5. \A k \in Node : /\ state'[k] = "ready" /\ RoleIn(state'[k]) = "resting"
                      /\ AtRest(k)'
  <2>1. \A k \in Node : AtRest(k)'
    BY <1>2, <1>4 DEF AtRest, Words
  <2>2. \A k \in Node : state'[k] = "ready"
    BY <2>1 DEF AtRest
  <2>3. QED
    BY <2>1, <2>2, RoleOf
<1>6. \A k \in Node \ {n} : inotify'[k] = <<>>
  BY <1>2, <1>3, <1>4
<1>7. PendingAtRest'
  BY <1>5, <1>6 DEF PendingAtRest, Pending
<1>8. Untouched'
  BY <1>2, <1>3 DEF Untouched
<1>9. StopFlags' /\ \A k \in Node : Scheduled(k)'
  BY <1>5 DEF StopFlags, Scheduled
<1>10. AnnouncedAtRest' /\ OneFollows' /\ StampsTrue'
  BY <1>5 DEF AnnouncedAtRest, OneFollows, StampsTrue
<1>11. QED
  BY <1>7, <1>8, <1>9, <1>10 DEF Stopping

-----------------------------------------------------------------------------
(* The theorem on the stop.                                                *)

\* Nothing is under way at first.
LEMMA InitStops == Init => Stopping
<1> SUFFICES ASSUME Init PROVE Stopping
  OBVIOUS
<1>1. \A k \in Node :
        /\ state[k] = "ready" /\ ~stopSync[k] /\ inotify[k] = <<>>
        /\ beat[k].status = 100 /\ hbq[k] = <<>>
        /\ \A l \in Node : net[k][l] = <<>>
  BY DEF Init, WiresInit, BoxofficeInit, HeartbeaterInit, Msg
<1>2. \A k \in Node : AtRest(k) /\ RoleIn(state[k]) = "resting"
  BY <1>1, RoleOf DEF AtRest, Words, Of, Peers
<1>3. PendingAtRest /\ Untouched
  BY <1>1, <1>2 DEF PendingAtRest, Pending, Untouched
<1>4. StopFlags /\ \A k \in Node : Scheduled(k)
  BY <1>1 DEF StopFlags, Scheduled
<1>5. AnnouncedAtRest /\ OneFollows /\ StampsTrue
  BY <1>2 DEF AnnouncedAtRest, OneFollows, StampsTrue
<1>6. QED
  BY <1>3, <1>4, <1>5 DEF Stopping

\* Every step of two nodes keeps what is said of the stop.
LEMMA NextStops ==
  ASSUME TwoNodes, OneAtATime, PInv, Stopping, [Next]_vars
  PROVE  Stopping'
<1>0. DInv' /\ CInv
  BY NextFits, NextInDialogue DEF PInv, DInv
<1>1. ASSUME NEW n \in Node, NEW m \in Peers(n), Talks(n, m), Proceeds(n, m)
      PROVE  Stopping'
  BY <1>0, <1>1, ProceedsKeeps
<1>2. CASE UNCHANGED vars
  <2>1. PICK n \in Node, m \in Node : n # m /\ Talks(n, m)
    BY <1>0, NextTalks
  <2>2. m \in Peers(n)
    BY <2>1 DEF Peers
  <2>3. Overhears(n, m) /\ UNCHANGED <<timingOffset, version, state, stopSync,
                                      hbq, dispq, inotify>>
    BY <1>2 DEF Overhears, vars, wireVars, boVars, heartbeaterVars,
                dispatcherVars
  <2>4. Proceeds(n, m)
    BY <2>2, <2>3, RoleKeptProceeds
  <2>5. QED
    BY <1>1, <2>1, <2>2, <2>4
<1>3. ASSUME NEW n \in Node, NEW m \in Peers(n), PeerStep(n, m)
      PROVE  Stopping'
  BY <1>0, <1>1, <1>3, PeerStepTalks, PeerProceeds
<1>4. ASSUME NEW n \in Node,
             PostStep(n) \/ BoxStep(n) \/ DispatcherStep(n) \/ HeartbeaterStep(n)
      PROVE  Stopping'
  <2>1. PICK m \in Peers(n) : TRUE
    BY DEF TwoNodes, Peers
  <2>2. CASE PostStep(n)
    BY <1>0, <1>1, <2>2, PostStepTalks, PostProceeds
  <2>3. CASE BoxStep(n)
    BY <1>0, <1>1, <2>3, BoxStepTalks, BoxProceeds
  <2>4. CASE DispatcherStep(n)
    BY <1>0, <1>1, <2>4, DispatcherStepTalks, DispatcherProceeds
  <2>5. CASE HeartbeaterStep(n)
    BY <1>0, <1>1, <2>5, HeartbeaterStepTalks, BeatProceeds
  <2>6. QED
    BY <1>4, <2>2, <2>3, <2>4, <2>5
<1>5. ASSUME NEW n \in Node, UserStep(n)
      PROVE  Stopping'
  BY <1>5, UserStops
<1>6. \A n \in Writers : n \in Node
  BY FlockAssumption
<1>7. QED
  BY <1>2, <1>3, <1>4, <1>5, <1>6 DEF Next

\* In a flock of two whose users change one file after the other, a node in
\* syncing_stop is never left there: its dispatcher has the deadline, is being
\* told it, or has posted 156 (boxoffice.cpp:649-668, 910-933;
\* dispatcher.cpp:230-275).
THEOREM StopOfTwo == TwoNodes /\ OneAtATime => (Spec => []StopIsScheduled)
<1> SUFFICES ASSUME TwoNodes, OneAtATime PROVE Spec => []StopIsScheduled
  OBVIOUS
<1>1. Init => PInv /\ Stopping
  BY InitFits, InitInDialogue, InitFilesAgree, InitStops DEF PInv, DInv
<1>2. PInv /\ Stopping /\ [Next]_vars => PInv' /\ Stopping'
  BY NextFits, NextInDialogue, NextFilesAgree, NextStops DEF PInv, DInv
<1>3. PInv /\ Stopping => StopIsScheduled
  <2> SUFFICES ASSUME PInv, Stopping, NEW n \in Node, state[n] = "syncing_stop"
               PROVE  \/ \E i \in DOMAIN dispq[n] :
                           dispq[n][i].status = 155 /\ dispq[n][i].stamp
                      \/ phase[n] = "stopping" /\ timingOffset[n] = "deadline"
                      \/ \E i \in DOMAIN posts[n] : posts[n][i] = 156
    BY DEF StopIsScheduled
  <2>1. NodeFits(n) /\ Scheduled(n) /\ Orders(n)
    BY DEF PInv, DInv, CInv, Coupled, Stopping, FilesAgree
  <2>2. phase[n] # "sending"
    BY <2>1 DEF Orders, DataStates
  <2>3. \/ /\ phase[n] = "stopping"
           /\ dispq[n] = <<>> \/ OneOrder(dispq[n], {155})
        \/ posts[n] = <<156>>
    BY <2>1, <2>2 DEF NodeFits, Fits
  <2>4. CASE phase[n] = "stopping" /\ dispq[n] = <<>>
    BY <2>1, <2>4 DEF Scheduled
  <2>5. CASE OneOrder(dispq[n], {155})
    <3>1. dispq[n] \in Seq(WellFormedOrder)
      BY Typed DEF PInv, DInv, CInv, WiresWellFormed
    <3>2. /\ 1 \in DOMAIN dispq[n] /\ dispq[n][1].status = 155
      BY <2>5, <3>1 DEF OneOrder
    <3>3. dispq[n][1] \in Of(dispq[n])
      BY <3>2 DEF Of
    <3>4. QED
      BY <2>1, <3>2, <3>3 DEF Scheduled
  <2>6. CASE posts[n] = <<156>>
    BY <2>6
  <2>7. QED
    BY <2>3, <2>4, <2>5, <2>6
<1>4. QED
  BY <1>1, <1>2, <1>3, PTL DEF Spec
=============================================================================
