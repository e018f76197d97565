------------------------------ MODULE FlockFSM ------------------------------
(***************************************************************************)
(* The deterministic state machine of the Flock protocol                   *)
(* (include/flock_fsm.h, generated from a GSL model): the states, the      *)
(* status codes, the event a status code stands for, and the four lookup   *)
(* functions the boxoffice calls.                                          *)
(*                                                                         *)
(* The header spells out the same rows four times.  Here a row that leaves *)
(* its state is one element of Moves, and the rows that stay in their      *)
(* state are the sets Stay(s).  Rows carry their event although it is      *)
(* determined by the status everywhere the code looks a row up: a row whose*)
(* event is not get_event_by_status_code of its status can never match.    *)
(***************************************************************************)
EXTENDS Naturals

AnnouncingStates ==
  { "announcing_new_file", "announcing_new_file_with_more",
    "announcing_file_metadata_change",
    "announcing_file_metadata_change_with_more" }

SendingMetadataStates ==
  { "sending_new_file_metadata", "sending_new_file_metadata_with_more",
    "sending_file_metadata_change",
    "sending_file_metadata_change_with_more" }

SendingFileStates ==
  { "sending_new_file", "sending_new_file_with_more_alpha",
    "sending_new_file_with_more_beta" }

AcknowledgingStates ==
  { "acknowledging_new_file", "acknowledging_new_file_with_more",
    "acknowledging_file_metadata_change",
    "acknowledging_file_metadata_change_with_more" }

ReceivingMetadataStates ==
  { "promoting_new_file_metadata", "promoting_new_file_metadata_with_more",
    "receiving_file_metadata_change",
    "receiving_file_metadata_change_with_more" }

FakeFileStates ==
  { "sending_fake_file", "sending_fake_file_with_more_alpha",
    "sending_fake_file_with_more_beta" }

BroadcastingStates ==
  { "broadcasting_all_received", "broadcasting_all_received_with_more_alpha",
    "broadcasting_all_received_with_more_beta",
    "broadcasting_all_metadata_received" }

State ==
  {"ready", "syncing_stop", "exit"}
    \cup AnnouncingStates \cup SendingMetadataStates \cup SendingFileStates
    \cup AcknowledgingStates \cup ReceivingMetadataStates
    \cup FakeFileStates \cup BroadcastingStates

-----------------------------------------------------------------------------
\* The status codes whose event is not received_heartbeat, by event.
get_event_by_status_code(status) ==
  CASE status = 112               -> "file_send_tick"
    [] status = 113               -> "all_data_received"
    [] status \in {122, 126, 162, 166} -> "all_nodes_replied"
    [] status \in {132, 136, 156} -> "timing_offset_elapsed"
    [] status \in {142, 172}      -> "all_nodes_have_file"
    [] status = 146               -> "all_nodes_have_file_with_more"
    [] status = 173               -> "all_metadata_received"
    [] status \in {177, 178}      ->
         "all_nodes_have_all_metadata_changes_with_more"
    [] status = 200               -> "received_file_data"
    [] status = 210               -> "received_fake_file_data"
    [] status = 300               -> "new_local_file"
    [] status = 301               -> "new_local_file_reported_twice"
    [] status = 304               -> "new_local_file_with_more"
    [] status = 320               -> "local_file_metadata_change"
    [] status = 324               -> "local_file_metadata_change_with_more"
    [] status = 500               -> "interrupt"
    [] status \in {100, 110, 111, 114, 115, 116, 117, 120, 121, 124, 125,
                   130, 131, 134, 135, 140, 141, 145, 147, 150, 155, 160,
                   161, 164, 165, 170, 171, 174, 175, 410}
                                  -> "received_heartbeat"
    [] OTHER                      -> "NULL"

Hb(statuses) == {"received_heartbeat"} \X statuses
NewFile      == {<<"new_local_file", 300>>, <<"new_local_file_with_more", 304>>}
NewMetadata  == {<<"local_file_metadata_change", 320>>,
                 <<"local_file_metadata_change_with_more", 324>>}
\* Rows for 320 and 324 that name the events of 300 and 304.
Mislabelled  == {<<"new_local_file", 320>>, <<"new_local_file_with_more", 324>>}
Tick         == {<<"file_send_tick", 112>>}
FileData     == {<<"received_file_data", 200>>}
FakeData     == {<<"received_fake_file_data", 210>>}

-----------------------------------------------------------------------------
(* Rows that keep the state, as <<event, status>> pairs.                   *)

StayAnnouncing(s) ==
  CASE s = "ready" -> Hb({100, 150})
    [] s = "announcing_new_file" ->
         Hb({121}) \cup {<<"new_local_file_reported_twice", 301>>}
    [] s = "announcing_new_file_with_more" -> Hb({125}) \cup NewFile
    [] s = "announcing_file_metadata_change" -> Hb({161})
    [] s = "announcing_file_metadata_change_with_more" ->
         Hb({165}) \cup NewFile \cup NewMetadata
    [] OTHER -> {}

StaySending(s) ==
  CASE s = "sending_new_file_metadata" -> Hb({131}) \cup NewFile \cup NewMetadata
    [] s = "sending_new_file_metadata_with_more" ->
         Hb({135}) \cup NewFile \cup NewMetadata
    [] s = "sending_file_metadata_change" ->
         Hb({171, 141}) \cup NewFile \cup NewMetadata
    [] s = "sending_file_metadata_change_with_more" ->
         Hb({175, 141}) \cup NewFile \cup NewMetadata
    [] s = "sending_new_file" ->
         Hb({111, 140}) \cup Tick \cup FakeData \cup NewFile \cup NewMetadata
    [] s \in {"sending_new_file_with_more_alpha",
              "sending_new_file_with_more_beta"} ->
         Hb({115, 140}) \cup Tick \cup FakeData \cup NewFile \cup NewMetadata
    [] OTHER -> {}

StayAcknowledging(s) ==
  CASE s = "acknowledging_new_file" ->
         Hb({120, 121}) \cup NewFile \cup NewMetadata
    [] s = "acknowledging_new_file_with_more" ->
         Hb({124, 125}) \cup NewFile \cup NewMetadata
    [] s = "acknowledging_file_metadata_change" ->
         Hb({160, 161}) \cup NewFile \cup Mislabelled
    [] s = "acknowledging_file_metadata_change_with_more" ->
         Hb({164, 165}) \cup NewFile \cup Mislabelled
    [] s = "promoting_new_file_metadata" ->
         Hb({130, 131}) \cup NewFile \cup Mislabelled
    [] s = "promoting_new_file_metadata_with_more" ->
         Hb({134, 135}) \cup NewFile \cup Mislabelled
    [] OTHER -> {}

StayReceiving(s) ==
  CASE s = "receiving_file_metadata_change" ->
         Hb({170, 171, 141}) \cup NewFile \cup Mislabelled
    [] s = "receiving_file_metadata_change_with_more" ->
         Hb({174, 175, 141}) \cup NewFile \cup Mislabelled
    [] s = "sending_fake_file" ->
         Hb({110, 111, 140}) \cup Tick \cup FileData \cup NewFile \cup Mislabelled
    [] s = "sending_fake_file_with_more_alpha" ->
         Hb({114, 115, 145}) \cup Tick \cup FileData \cup NewFile \cup Mislabelled
    [] s = "sending_fake_file_with_more_beta" ->
         Hb({114, 117, 145}) \cup Tick \cup FileData \cup NewFile \cup Mislabelled
    [] OTHER -> {}

StayBroadcasting(s) ==
  CASE s = "broadcasting_all_received" ->
         Hb({110, 111, 140}) \cup Tick \cup NewFile \cup Mislabelled
    [] s = "broadcasting_all_received_with_more_alpha" ->
         Hb({114, 115, 145}) \cup Tick \cup NewFile \cup Mislabelled
    [] s = "broadcasting_all_received_with_more_beta" ->
         Hb({116, 117, 147}) \cup Tick \cup NewFile \cup Mislabelled
    [] s = "broadcasting_all_metadata_received" ->
         Hb({170, 171, 141}) \cup NewFile \cup Mislabelled
    [] s = "syncing_stop" -> Hb({150, 155}) \cup Tick
    [] s = "exit" -> {<<"interrupt", 500>>}
    [] OTHER -> {}

Stay(s) == StayAnnouncing(s) \cup StaySending(s) \cup StayAcknowledging(s)
             \cup StayReceiving(s) \cup StayBroadcasting(s)

-----------------------------------------------------------------------------
(* Rows that change the state:                                             *)
(*   <<state, event, received status, heartbeat status, new state>>.       *)

MovesAnnouncing ==
  { <<"ready", "new_local_file", 300, 120, "announcing_new_file">>,
    <<"ready", "new_local_file_with_more", 304, 124,
      "announcing_new_file_with_more">>,
    <<"ready", "local_file_metadata_change", 320, 160,
      "announcing_file_metadata_change">>,
    <<"ready", "local_file_metadata_change_with_more", 324, 164,
      "announcing_file_metadata_change_with_more">>,
    <<"ready", "received_heartbeat", 120, 121, "acknowledging_new_file">>,
    <<"ready", "received_heartbeat", 124, 125,
      "acknowledging_new_file_with_more">>,
    <<"ready", "received_heartbeat", 160, 161,
      "acknowledging_file_metadata_change">>,
    <<"ready", "received_heartbeat", 164, 165,
      "acknowledging_file_metadata_change_with_more">>,
    <<"announcing_new_file", "all_nodes_replied", 122, 130,
      "sending_new_file_metadata">>,
    <<"announcing_new_file_with_more", "all_nodes_replied", 126, 134,
      "sending_new_file_metadata_with_more">>,
    <<"announcing_file_metadata_change", "all_nodes_replied", 162, 170,
      "sending_file_metadata_change">>,
    <<"announcing_file_metadata_change_with_more", "all_nodes_replied", 166,
      174, "sending_file_metadata_change_with_more">> }
  \cup ({"announcing_new_file"} \X {"new_local_file"} \X {300} \X {124}
          \X {"announcing_new_file_with_more"})
  \cup ({"announcing_new_file"} \X {"new_local_file_with_more"} \X {304}
          \X {124} \X {"announcing_new_file_with_more"})
  \cup { <<s, row[1], row[2], 164, "announcing_file_metadata_change_with_more">>
           : s \in {"announcing_new_file", "announcing_new_file_with_more",
                    "announcing_file_metadata_change"},
             row \in NewMetadata }
  \cup { <<"announcing_file_metadata_change", row[1], row[2], 164,
           "announcing_file_metadata_change_with_more">> : row \in NewFile }

MovesSending ==
  { <<"sending_new_file_metadata", "timing_offset_elapsed", 132, 110,
      "sending_new_file">>,
    <<"sending_new_file_metadata_with_more", "timing_offset_elapsed", 132, 114,
      "sending_new_file_with_more_alpha">>,
    <<"sending_file_metadata_change", "all_nodes_have_file", 172, 150, "ready">>,
    <<"sending_file_metadata_change_with_more", "all_nodes_have_all_files",
      172, 150, "ready">>,
    <<"sending_file_metadata_change_with_more",
      "all_nodes_have_all_metadata_changes_with_more", 177, 130,
      "sending_new_file_metadata">>,
    <<"sending_file_metadata_change_with_more",
      "all_nodes_have_all_metadata_changes_with_more", 178, 134,
      "sending_new_file_metadata_with_more">>,
    <<"sending_new_file", "all_nodes_have_file", 142, 155, "syncing_stop">>,
    <<"sending_new_file_with_more_alpha", "all_nodes_have_file", 142, 110,
      "sending_new_file">>,
    <<"sending_new_file_with_more_alpha", "all_nodes_have_file_with_more", 146,
      116, "sending_new_file_with_more_beta">>,
    <<"sending_new_file_with_more_beta", "all_nodes_have_file", 142, 110,
      "sending_new_file">>,
    <<"sending_new_file_with_more_beta", "all_nodes_have_file_with_more", 146,
      114, "sending_new_file_with_more_alpha">> }

\* Faulty: sending_fake_file waits for the 136 of its sibling row.
MovesAcknowledgingLate ==
  { <<"acknowledging_new_file", "received_heartbeat", 130, 131,
      "promoting_new_file_metadata">>,
    <<"acknowledging_file_metadata_change", "received_heartbeat", 170, 171,
      "receiving_file_metadata_change">>,
    <<"promoting_new_file_metadata", "timing_offset_elapsed", 136, 111,
      "sending_fake_file">> }

MovesAcknowledging ==
  { <<"acknowledging_new_file", "received_heartbeat", 130, 131,
      "promoting_new_file_metadata">>,
    <<"acknowledging_new_file", "received_heartbeat", 124, 125,
      "acknowledging_new_file_with_more">>,
    <<"acknowledging_new_file_with_more", "received_heartbeat", 134, 131,
      "promoting_new_file_metadata_with_more">>,
    <<"acknowledging_file_metadata_change", "received_heartbeat", 170, 171,
      "receiving_file_metadata_change">>,
    <<"acknowledging_file_metadata_change", "received_heartbeat", 164, 165,
      "acknowledging_file_metadata_change_with_more">>,
    <<"acknowledging_file_metadata_change_with_more", "received_heartbeat",
      174, 175, "receiving_file_metadata_change_with_more">>,
    <<"promoting_new_file_metadata", "received_heartbeat", 134, 135,
      "promoting_new_file_metadata_with_more">>,
    <<"promoting_new_file_metadata", "timing_offset_elapsed", 132, 111,
      "sending_fake_file">>,
    <<"promoting_new_file_metadata_with_more", "timing_offset_elapsed", 136,
      115, "sending_fake_file_with_more_alpha">> }

MovesReceiving ==
  { <<"receiving_file_metadata_change", "received_heartbeat", 175, 171,
      "receiving_file_metadata_change_with_more">>,
    <<"receiving_file_metadata_change", "all_metadata_received", 173, 141,
      "broadcasting_all_metadata_received">>,
    <<"receiving_file_metadata_change_with_more", "all_metadata_received", 173,
      141, "broadcasting_all_metadata_received">>,
    <<"sending_fake_file", "all_data_received", 113, 140,
      "broadcasting_all_received">>,
    <<"sending_fake_file_with_more_alpha", "all_data_received", 113, 145,
      "broadcasting_all_received_with_more_alpha">>,
    <<"sending_fake_file_with_more_beta", "all_data_received", 113, 147,
      "broadcasting_all_received_with_more_beta">> }

\* Faulty: neither round ends, the rows for 150 and 156 are missing.
MovesBroadcastingEndless ==
  { <<"broadcasting_all_received", "received_heartbeat", 155, 155,
      "syncing_stop">> }

MovesBroadcasting ==
  { <<"broadcasting_all_received", "received_heartbeat", 155, 155,
      "syncing_stop">>,
    <<"broadcasting_all_received_with_more_alpha", "received_heartbeat", 150,
      111, "sending_fake_file">>,
    <<"broadcasting_all_received_with_more_alpha", "received_heartbeat", 116,
      117, "sending_fake_file_with_more_beta">>,
    <<"broadcasting_all_received_with_more_beta", "received_heartbeat", 150,
      111, "sending_fake_file">>,
    <<"broadcasting_all_received_with_more_beta", "received_heartbeat", 114,
      115, "sending_fake_file_with_more_alpha">>,
    <<"broadcasting_all_metadata_received", "received_heartbeat", 130, 131,
      "promoting_new_file_metadata">>,
    <<"broadcasting_all_metadata_received", "received_heartbeat", 134, 135,
      "promoting_new_file_metadata_with_more">>,
    <<"broadcasting_all_metadata_received", "received_heartbeat", 150, 150,
      "ready">>,
    <<"syncing_stop", "timing_offset_elapsed", 156, 100, "ready">> }

\* Giving up (410 from another node, or the unused node_only_sends_heartbeats)
\* and the interrupt, the same in every state that has them.
MovesLeaving ==
  { <<s, "received_heartbeat", 410, 410, "ready">> :
      s \in SendingFileStates \cup FakeFileStates }
  \cup { <<s, "node_only_sends_heartbeats", 100, 410, "ready">> :
           s \in SendingFileStates \cup FakeFileStates \cup BroadcastingStates }
  \cup { <<s, "interrupt", 500, 500, "exit">> : s \in State \ {"exit"} }

Moves == MovesAnnouncing \cup MovesSending \cup MovesAcknowledging
           \cup MovesReceiving \cup MovesBroadcasting \cup MovesLeaving

-----------------------------------------------------------------------------
(* The API of the header.                                                  *)

MovesFor(state, event, status) ==
  { row \in Moves : row[1] = state /\ row[2] = event /\ row[3] = status }

check_event(state, event, status) ==
  <<event, status>> \in Stay(state) \/ MovesFor(state, event, status) # {}

\* The action of a row that changes the state.  The actions of the other rows
\* (add_new_file_to_queue, store_file_data, ...) are never performed: the
\* boxoffice asks for the action only when the new state differs.
get_action(event) ==
  IF event = "interrupt" THEN "exit" ELSE "send_heartbeat"

\* Every status some get_heartbeat_status row returns for a state change, and
\* the 100 with which a ready node answers 150.
HeartbeatStatus ==
  {100, 110, 111, 114, 115, 116, 117, 120, 121, 124, 125, 130, 131, 134, 135,
   140, 141, 145, 147, 150, 155, 160, 161, 164, 165, 170, 171, 174, 175, 410}
=============================================================================
