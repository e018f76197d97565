# Verification of flocksy

flocksy keeps directories ("boxes") of several machines ("nodes") in step. Every
node runs one process; the processes are connected by ZeroMQ PUB/SUB links and
follow the *Flock* protocol: each repeats, once a second, a *heartbeat* with a
status number, and all of them move through a common state machine. This
directory holds TLA+ modules of that protocol, of the threads that run it, of how
a process starts and ends, of the transfer of a file and of the watching of a box,
TLC configurations, and proofs checked by TLAPS. `PROJECT.json` lists runs,
mutants, findings, hazards and the source lines behind every definition.

    tlc -workers 2 -config data_round.cfg MCFlock     # one run
    tlc -workers 2 -config process.cfg MCProcess
    tlc -workers 2 -config transfer.cfg MCTransfer
    tlc -workers 2 -config watch.cfg MCBox
    tlapm FlockProofs.tla                             # the proofs
    tlapm CouplingProofs.tla                          # and so for *Proofs, Recursion

## 1. The system

| Component | State | Operations | Talks to |
|---|---|---|---|
| Flock state machine, `include/flock_fsm.h` (generated) | none: tables | `get_event_by_status_code`, `check_event`, `get_new_state`, `get_action`, `get_heartbeat_status` | called by the boxoffice |
| Boxoffice, `boxoffice.cpp` | `state_`, the two queues `file_list_data_` and `file_list_metadata_`, the `replied` flag of each subscriber, `notified_dispatch_`, `file_metadata_written_`, `stop_sync_timeout_received_`, `current_file_`, `current_box_` | `runRouter`, `processEvent`, `performAction`, `updateHeartbeat`, `prepareHeartbeatMessage` | everyone, by inproc sockets |
| Heartbeater, `heartbeater.cpp` | current status and message | loop: poll one update, sleep 1 s, publish | boxoffice → heartbeater → publisher |
| Dispatcher, `dispatcher.cpp` | `waiting_for_stop_`, `timing_offset_`, the file it sends | wait for an agreed instant, send file packages, `synchronizingStop` | boxoffice ↔ dispatcher → publisher |
| Publisher, subscriber, `s_recv` (`publisher.cpp`, `subscriber.cpp`, `constants.cpp`) | sockets | forward | other nodes |
| Box watcher, `box.cpp` | inotify descriptor, watch table | loop: read a batch of events, report the first | kernel → boxoffice |
| File, `file.cpp` | path, mode, mtime, size, deleted flag | construct from disk, serialise, parse (creates and removes files), store metadata, store content | used by boxoffice and dispatcher |
| Directory, `directory.cpp` | path, hash of name and files | scan, return subdirectories | used by the box watcher at start |
| Hash tree, `hash_tree.cpp` | levels of hashes | build, top hash, changed hashes | used by Directory and Box |
| Config, `config.cpp` | nodes, hosts, boxes, keys | command line, config file, key file and keystore, sanity checks | read by main and the boxoffice |
| Process, `main.cpp`, `transmitter.cpp`, `boxoffice.cpp` | threads, their sockets, the interrupt | start, check all are there, interrupt, count exits, join | main ↔ boxoffice ↔ children |

A *metadata round* (a file was touched, created, deleted): the sender announces
160; receivers answer 161; when all have, the sender beats 170 with the file;
receivers store it and answer 141; when all have, the sender beats 150 and is
`ready`, and so is everyone who hears it. A *data round* (a file was written): 120, 121
and then 130 with the file's metadata and an instant at least three seconds
ahead. Receivers hand the instant to their dispatchers at the second 130; at the
instant every dispatcher posts 132 and the sender's dispatcher sends the content
(200), which receivers store before they answer 140. When all have, the sender
agrees a common deadline (155), after which every dispatcher posts 156 and all
return to `ready`.

**What is hard here.** Nothing is acknowledged but by heartbeats, which repeat
the *current* status only, so a status is never lost but is heard any number of
times, late, by nodes that are in another state. Flags that belong to one round
(`replied`, `file_metadata_written_`, `stop_sync_timeout_received_`,
`notified_dispatch_`) are reset by some statuses and not by others. The boxoffice
and the dispatcher run in separate threads and must agree which of the two is
waiting for what. What a node writes to its box comes back to it as inotify
events. Users change files at any time: while a box is scanned, between the report
of a change and the reading of the file, between two packages. At shutdown the
threads count each other's messages, and one message too few or too many, or one
read together with another, leaves somebody waiting.

**What makes it correct**, component by component:

* state machine: every status a node is made to beat leads the others on;
  `Settled`, `Delivered`;
* boxoffice: replies are counted for the round they belong to (`AnnouncedToAll`,
  `ConfirmedIsHeld`), queues are never read when empty (`FrontDefined`), it does
  not give up (`AllRun`);
* dispatcher: neither side throws away what the other sends once (`OrdersFit`,
  `PostsHandled`), and whoever waits for the common stop knows when it is
  (`StopIsScheduled`);
* wires and File: whoever parses a file finds one (`PayloadsPresent`), content is
  stored under the right name (`PackageMatches`);
* the flock: one sender at a time (`OneSender`), all nodes end with the same files
  (`Delivered`), and each round is the abstract one (`IsRound`);
* file transfer: what a receiver reports complete is one content of the sender, whole,
  and nothing of its older copy behind it but where `file_metadata_written_` was left set
  (`CompleteIsFaithful`, `IsAtomic`), the loop over packages ends (`LoopEnds`), the file
  arrives (`ArrivesUnlessHindered`);
* process: the router starts when all are connected (`RoutesAllConnected`), exits are
  accounted for (`ExitsAccounted`), main is last (`MainIsLast`), the process ends when
  told to (`EndsUnlessHindered`);
* configuration: what is wrong with one box costs no other its place (`OwnBoxesWatched`),
  each node is heard once (`KeyedNodesHeard`);
* box watcher, directory, hash tree: all directories are watched (`WatchedUnlessTwin`),
  paths are true (`ReportsTruePath`), the scan ends (`StartsUp`), trees have the shape the
  tests count (`TreeShape`) and show every difference (`ChangesFound`).

## 2. The modules

    FlockFSM ── Wires ─┬─ Boxoffice ──┐            FlockRound (abstract)
                       ├─ Heartbeater ┼─ Flock ─┬─ MCFlock        (TLC)
                       └─ Dispatcher ─┘         └─ FlockProofs ── CouplingProofs (TLAPS)

    AtomicTransfer (abstract)    FileTransfer ──┬─ MCTransfer     (TLC)
                                                └─ TransferProofs (TLAPS)

    Config ────┬─ Process ──────────────────────┬─ MCProcess      (TLC)
    Lifecycle ─┘                                ├─ ProcessProofs  (TLAPS)
                 Recursion (TLAPS, lemmas) ─────┴─ ConfigProofs   (TLAPS)

    HashTree ─┬── BoxWatch ─────────────────────┬─ MCBox          (TLC)
              │                                 └─ BoxProofs      (TLAPS)
              └── HashTreeProofs (TLAPS, also under BoxProofs; uses Recursion)

* **FlockFSM** is the generated table. A row of `Moves` is
  `<<state, event, status, status of the new heartbeat, new state>>`, one for each
  triple for which `get_new_state` leaves the state; the `Stay…` sets are the
  further triples `check_event` accepts. A triple in neither is ignored. Of the
  states, `announcing_new_file_with_more` (a change during `announcing_new_file` is
  turned into a 301) and the alpha and beta variants (178 gives the dispatcher no
  order, so no 132 follows) are in the table and out of the boxoffice's reach.
* **Wires** declares what threads and processes share: the queues between
  boxoffice, heartbeater and dispatcher, one FIFO `net[s][d]` for each ordered pair
  of nodes, the disks and the inotify queues. A file is a path with two version
  numbers, of its metadata and of its content, so that a file with new metadata and
  old content can be told from one with both. A message is a status, the File it
  carries or `NoFile`, and whether a timing offset follows (`stamp`).
* **Boxoffice** has one action for each kind of message `processEvent` handles, each
  the whole call. `FsmContinue` is the code's "FSM CONTINUE", with the new
  heartbeat, the pop of a queue and the stop order that come with it. `Takes` is the
  router socket. Actions for local events cover `Box::run` from the inotify queue
  on, since the box thread keeps no state between two events; `TakesLocal` drops the
  rest of a batch as the code does, and `BoxStatus` is a choice for `IN_MOVED_FROM`
  and `IN_MOVED_TO`, for which `status` is uninitialised.
* **Heartbeater** publishes the current heartbeat and then takes at most one update.
* **Dispatcher** has the phases of `run`: `idle` (blocking receive), `armed_send` and
  `armed_fake` (asleep until the instant), `sending`, `stopping`
  (`synchronizingStop`).
* **Flock** composes them, adds the users, and states the properties.
* **FlockRound** is what a round promises, without messages, flags or threads: while
  nothing is offered a user may change a file; one node offers a file as it is on its
  disk; each other node takes over its metadata or its content from the offerer's disk;
  the offer ends when all have it. `Flock` implements it (`IsRound`) under the mapping
  that a node offers `current_file_` while it is in a sending state and nothing
  otherwise. The property fails if a receiver writes anything else to its disk, if two
  nodes send, if the announced file is not the one on disk, or if a sender leaves the
  sending states before everyone has the change.
* **FileTransfer** is the data part of the rounds about one file byte by byte, where `Flock`
  has one step. Rounds follow each other. `BeginRound` is the 130 at the receiver, with
  `file_metadata_written_` as the rounds before left it: only if it is unset is the copy
  resized (`StoreMetadata`, `boxoffice.cpp:521-525`). `OtherRound` is a round that matters
  only by what it leaves: a data round about another file sets the flag, a metadata round
  (160, 170) or one of the receiver's own (122, 160) unsets it, and may change the copy.
  Within a round there are the dispatcher's loop with `offset`, `data_size`, `more` and the
  failbit of the stream; the publisher with what `s_recv` concatenates, its `substr(5)` and
  the `msg_signal` that survives from the message before; `storeFileData` of a receiver. The
  file is rewritten at any time, also to something shorter. `size` is the `size_` serialised
  with the order and stays what it was when the change was reported. A package after the
  first has no status: the receiver takes other bytes for `data_size`, and an allocation of
  2^40 bytes or more ends its process (`ReceiveMisaligned`). `message->write(contents,
  data_size)` of a later package reads past the buffer; the bytes land behind the content,
  where no receiver looks.
* **AtomicTransfer** is what a transfer amounts to: one read at the sender and, later, one
  instant at which the receiver has that, with the tail of its older copy behind it if the
  round began with the flag set. `FileTransfer` implements it (`IsAtomic`) with three
  history variables: `taken` for what was read, `stale` for the flag and `older` for the
  copy at the round's begin. This is what justifies `SendData` and `HearData` as single
  steps for files of one package. `HearData` takes content as one version, which is right
  of a round that resized the copy; `data_round`, the run about content, has one.
* **Config** is `Config::initialize` as operators from an input (command line, config
  file, key file, keystore, the directories that exist) to a configuration or to giving
  up. Strings are model data: an address is a scheme and a rest. As in the code,
  `std::unique` compares neighbours as they were spelled, `boost::program_options` keeps
  the first store of an option, `nodes_` is keyed by the hash of a key. `updateBoxMap`
  compares a hash with names, so it never finds a name claimed: a second box of one name
  replaces the first, and the setting for symbolic links is never looked at. Paths are what
  they are in the code, spellings: `is_directory` is asked of each, and two are the same
  directory to the code only if they are the same string (`config.cpp:441,458`), so `/d` and
  `/d/`, or a link to it, become two boxes. The loops
  over addresses, boxes and nodes are recursive functions of the number of turns.
* **Lifecycle** is the main thread, the boxoffice by the function it is in
  (`setup*`, `checkChildren`, `runRouter`, `closeConnections`, joins) and its children, each
  a pair of kind and id. What processEvent does with an event is the subject of
  `Boxoffice`; here it may succeed or return 1. `heartbeats` is what the counting loop
  still waits for. `swallowed` is a history variable: whose exit, or the broadcast, was
  received where it is not counted. Merged into one step because nobody can tell them
  apart: a signal and main noticing it; a child's reading of the interrupt,
  `sendExitSignal` and its destructor. `MissInterrupt` is the poll that returns the
  interrupt with something else, `PackageBlocks` the PAIR without a peer, `Event` at a full
  queue the high-water mark of PUSH and PULL.
* **Process** puts the two together: a configuration decides which children there are.
  With two hostnames the second heartbeater binds an address that is taken, and the
  exception ends the process (`StartAborts`). `OwnBoxesWatched` and `KeyedNodesHeard` are
  about the pure operators; they are evaluated on all `Samples` while a process is about
  to be configured.
* **HashTree** has the tree's levels as sequences. Hashing is injective here: the hash of
  two hashes is their pair. The leaves are sorted: `PlaceOf` says which place `std::sort`
  gives a hash, `Sorted` what is at each. The loop that doubles until there are leaves
  enough is the function `LeafCount` of its turns, `TreeDepth` the turn it stops at.
  `std::unique` compares shared pointers and removes nothing.
  `getChangedHashes` is modelled for trees with leaves; of an empty tree it reads
  `elements_per_level_` out of range.
* **BoxWatch** is a box: the constructor's scan, depth first in any order of
  `directory_iterator`, then the watches, then the loop, with a kernel that queues events
  for watched inodes and users who write, create, remove and rename files and
  directories meanwhile. Symbolic links to directories are followed, as the default of
  `Directory` says. `entries_` is a map by hash, so of two directories with one name and
  the same files the second is dropped; `watch_descriptors_` keeps the path of the scan.
  The tree's shape is a constant, `Chain[d]`, the directories from the base path down to
  `d`: users rename directories where they are and remove them, they never move one into
  another. `ListingHash` is the top of the hash tree over a directory's files. The first
  event of a batch is reported with a name `NamesRead` gives: an event about a watched
  directory itself has none, and `s_recv_in` prints what lies behind it in the buffer, bytes
  of the next event's `wd`, or, if it was read alone, what the stack held, which may
  be an end of string.

`proc[n]` is `failed` when `processEvent` returned 1 (the boxoffice is gone; its
heartbeater and dispatcher go on, waiting to be joined) and `aborted` when an
exception that nobody catches ended the process.

Where the code would call `front()` on an empty deque the model has no step
(`data # <<>>` in `UpdateHeartbeat`, and in `HearLastReply`); `FrontDefined`,
checked and proved, says that this is never why a step is missing.

Two simplifications keep the state space finite and do not change what others can
observe: a ready node that hears 150 again and again does not queue a 100 behind an
equal one, and dummy packages (210) are left out, no row of the table acts on them.

### Time

No module has a clock. `Timely` is the set of assumptions on time an instance
grants; each run grants what it names and no more.

| Assumption | Meaning | Why the code may rely on it, or not |
|---|---|---|
| `inotify` | a change on disk reaches the boxoffice before it takes the next message of a peer | microseconds against a period of a second; nothing enforces it |
| `clocks` | the instant comes when the sender has beaten 130 and all have heard it, and content leaves only when every dispatcher that was given the instant has acted on it | `F_MINIMUM_SEND_OFFSET` is 3 s and the sender sleeps 250 ms more; the node clocks must agree that well |
| `links` | heartbeats in lockstep: read before anyone beats again | a fast network, equal periods; not enforced |
| `polls` | a package and a heartbeat never wait in one poll | not guaranteed: without it a package can be lost, see section 3 |
| `quiet` | a user changes something only when all nodes are `ready`, beat 100 and have heard it | a statement about users, not about the code |

### Bounds

`MaxVersion` bounds the number of user changes, one or two: with two, changes in
one round, in successive rounds and on two nodes occur. `MaxInFlight` bounds
the unread messages of a link; a heartbeater waits when the bound is reached. One
already allows a message to be arbitrarily old compared with what other links
carry; two (with two nodes) adds a stale heartbeat before a new one on one link.
Two nodes give sender and receiver; three give a receiver that overhears another,
the smallest case in which a count of replies can be wrong. One path is enough
unless a property is about confusing two, as `PackageMatches` is: `chaos` has two.
`Alike` is the symmetry of nodes whose users do the same (all change files, or none
does) and of paths of which none is too long; the specification treats them alike, and
the runs that use it check no liveness. `LongPath` is a path beyond the 128 characters of
`F_MAXIMUM_PATH_LENGTH`.

The life cycle: `MaxEvents` is the number of unfortunate things of the outside in one life,
a signal during start-up, an event, a package without a publisher, an interrupt that is
missed. With one each of the four ways to hang is reached; with two (738 791 states, too
slow for a routine run) there is no other. The bound stands for a heartbeat being a second
apart while shutdown takes milliseconds. `Hwm` is 1 instead of 1000, so that the queue is
full after one event. The instance has six or seven threads: all kinds, and two nodes
without a key.

The transfer: packages of two bytes and files of 0, 1, 2, 3 and 5, so of none, less than
one, exactly one, two and three packages, with contents that agree in some bytes;
`MaxRounds` = 2, so that a round finds the flag as another left it; and `MaxEdits` = 2
rewrites, before, between and during the loops, one of which makes the second round's file
shorter. What a third round finds is what the second found, the flag set or not and a copy
of any content; the proofs are for any number. `big_file` needs one round. The box: four
directories, two names of which one has a blank, one file name, two changes at any time;
hash trees of 1 to 17 leaves (`MaxHashes`; the powers of two and their neighbours are where
shapes change) and all pairs of sets of up to 5 hashes.

`F_GENERIC_HASH_LEN` is 64 in the code, and then no file content can be sent at all
(`hash_length`). So that the rest of the data round can be checked, the other runs
give it the 32 that `boxoffice.cpp` assumes; metadata rounds do not depend on it.

### Fairness

`FairSpec` says that the threads keep running: the heartbeater beats, the
dispatcher's timers fire, the box thread and the boxoffice take what waits for them,
and the router socket, which ZeroMQ serves round-robin, does not neglect a peer. All
of it is weak fairness. Users owe nothing.

`Process` has weak fairness for the main thread, the boxoffice and each child, and for
the router towards each child; no signal, event or failure ever has to come. In
`FileTransfer` dispatcher, publisher and receiver go on; heartbeats, edits and further rounds
need not come. In `BoxWatch` only the box thread owes anything.

## 3. The runs

Those that pass:

| Run | Instance | Distinct states | What it shows |
|---|---|---|---|
| `meta_round` | 2 nodes, one user touches, creates or deletes a file twice, each time in quiet; links of any delay, two messages in flight | 4 924 | metadata rounds are rounds of `FlockRound`, always end, both nodes hold the change, no boxoffice gives up, and nothing the first round leaves behind disturbs the second |
| `meta_three` | 3 nodes, one touch, links of any delay | 153 615 | replies are counted right: the sender goes on only when both have acknowledged, and ends only when both hold the change; `FlockRound` is implemented |
| `rivals` | 3 nodes, two of them touch a file whenever they like | 64 233 | two nodes never send at the same time, and whoever sends has everyone's acknowledgement |
| `data_round` | 2 nodes, one write, two messages in flight | 9 650 | the data round is a round of `FlockRound` and ends, with metadata and content on both nodes; no node stays in `syncing_stop` without a deadline |
| `chaos` | 2 nodes delete two files and move them in and out whenever they like; no assumption on clocks, links or polls | 272 149 | whatever happens, what threads hand each other fits: types, payloads, queues, orders, posts, and packages stored under the right name |
| `as_shipped` | 2 nodes; hash length 64, uninitialised `replied` flags, a path that is too long, no assumption on time | 51 480 | orders and posts fit up to where a process dies |
| `process` | four command lines, one of which starts all kinds of threads, one two nodes without keys; a signal at any time, one disturbance; 1 274 inputs looked at, of which 817 give a configuration | 146 277 | the configuration is what was asked for; the router starts with everyone connected; exits are accounted for; main is last; a process that gets a signal ends unless a child is `Deaf`, a queue `Stuffed`, `NoPublisher` left or the boxoffice `Starved` |
| `transfer` | two rounds, files of 0 to 5 bytes in packages of 2, two rewrites, polls that lose packages | 317 858 | complete means the bytes read, all of them, and behind them nothing unless the flag was left set; the rounds implement `AtomicTransfer`, the loop ends, and a receiver completes unless the file is longer than a package, shrank, or its package was lost in a poll |
| `watch` | 4 directories, a link, two changes; hash trees of up to 17 leaves | 336 238 | every directory there all along is watched unless it has a twin; paths are true unless a directory was renamed or a name has a blank, though a change to a directory itself may be reported as one to something in it; the scan ends; trees have their shape and show what differs |

`chaos`, `as_shipped`, `process`, `transfer` and `watch` say `CHECK_DEADLOCK FALSE`: all
processes may have died, the process has ended, the file has arrived, or users have
nothing left to change. `chaos` grants `inotify`: without it, with content that can be
sent, a node's echoes of its own writes give ever longer queues and the instance is
infinite. `EndsUnlessHindered` and `ArrivesUnlessHindered` name each way not to get there as
a predicate on the state; that the list is complete is what they show, and each reason
does occur. In plain words, a flocksy process does not always end on SIGINT, and here is
exactly why.

Those that find a violation. Each quotes, in `PROJECT.json`, the line of the README that
says otherwise.

| Run | Property | What happens |
|---|---|---|
| `hash_length` | `Delivered` | the order to send strips 32 bytes of a 64-byte hash; the dispatcher's parser throws and the process ends |
| `two_announcers` | `Delivered` | two nodes announce before they hear each other; neither state has a row for the other's announcement, and both wait for ever |
| `big_file` | `Arrives` | packages after the first have no header, the publisher cuts five bytes off them all the same, and the receiver's process ends allocating what it takes for the size |

Further behaviours of the model, each found by TLC with the constants of a run
changed:

* an *echo*: two nodes, `Writers = {a, b}`, `Kinds = {"attrib"}`, `QuietPrompt`,
  `MaxVersion = 2` violate `AllRun`. A receiver's own write of metadata comes back as
  `IN_MODIFY` and stays queued; when it sends later, the queue turns its last 141 into a
  177, for which `sending_file_metadata_change` has no row, and `processEvent` returns 1
  (`boxoffice.cpp:483`);
* a *second data round*: two nodes, `Kinds = {"modify"}`, `QuietLinks`, `MaxVersion = 2`
  violate `ConfirmedIsHeld`. `file_metadata_written_` is still set from the first round
  (`boxoffice.cpp:521`); the second stores no metadata and is confirmed;
* an *old tail*: with `MCTransfer` as in `transfer`, `receiver = "complete" => copy = taken`
  is violated in two rounds. The flag is set from a data round before, about this file
  or another, with no metadata round and none of the receiver's own in between; then the
  receiver does not resize, `storeFileData` writes into the file in place
  (`file.cpp:332-336`), and of a file that became shorter the copy keeps what was
  behind, for good, though the receiver reports it complete. This is against
  `src/README.md:10`, "Synchronise files and all changes with connected nodes".
  `CompleteIsFaithful` says that nothing else is ever left behind, and only then;
* *leftover replies*: three nodes, `Writers = {a, b}`, `Kinds = {"attrib"}`,
  `QuietPrompt`, `MaxVersion = 2` violate `AllRun`. A receiver counts the 161 it only
  overhears (`boxoffice.cpp:398`), keeps them into the next round of another sender, and
  its count completes where its state has no row for the result;
* three nodes, one write, `PromptLinks`: `StopIsScheduled` and `ConfirmedIsHeld` hold
  (359 727 states). With links of any delay a 155 relayed by a receiver can overtake the
  sender's own, and `StopIsScheduled` is false;
* with `attrib` in `Kinds` and no `quiet`, a user's second change during a metadata
  round has the effect of the echo: the last 141 becomes 174 or 177;
* with `modify`, two changes and no `quiet`, a sender starts its second data round
  while `stop_sync_timeout_received_` is still set from the first: it writes no
  deadline into its 155, and `StopIsScheduled` is false;
* with `UninitReplied`, three nodes and `attrib`, a receiver's first overheard 161
  completes its count and ends its boxoffice (`AllRun`);
* with `moved`, a file that left the box may reach File's constructor, which throws
  (`AllRun`);
* without `polls`, a package that waits in one poll with a heartbeat becomes its
  trailing bytes, nobody sends it again, and the round never ends (`Delivered`);
* with `Links` of `MCBox` changed so that `c` holds a link to `a`, the scan never ends
  (`StartsUp`).

A change during `announcing_new_file` is dropped as reported twice (301) whatever
file it concerns, since Files are compared by address; and a change queued during
somebody else's round stays queued when the node returns to `ready`, where only the
next local change makes it announce anything. That is why `Delivered` is claimed for
changes made one at a time.

## 4. What is proved

### The flock

`FlockProofs` proves, for any finite or infinite set of nodes and paths, any hash
length, any set of timing assumptions and any values of the bounds:

| Theorem | Statement |
|---|---|
| `TypeCorrect` | `Spec => []TypeOK` |
| `PayloadsCorrect` | `Spec => []PayloadsPresent` |
| `FrontCorrect` | `Spec => []FrontDefined` |

Assumptions: `WiresAssumption` and `FlockAssumption`, evaluated by TLC in every run.

The inductive invariant is `IInv == TypeOK /\ PayloadsPresent /\ FrontDefined`. None
of the parts that matter is inductive alone: that a 130 carries a file depends on the
queue being non-empty on the way into `sending_new_file_metadata` (`FrontDefined`);
that a file read from a heartbeat may be kept in `current_file_` and passed on
depends on there being one (`PayloadsPresent`); and that `front()` and the sequences'
heads are files at all depends on the types.

The argument: `MovesShape` says once what every row of the table looks like (its
states, and which statuses it beats on the way into which states); `ContinueTyped`
and `ContinueFront` carry that through the common end of `processEvent`;
`TakesTyped`, `TakesLocalTyped`, `NotifyTyped`, `PublishTyped` and `ReadFileTyped` do
the same for the helpers; then there is one lemma for each kind of step
(`PeerStepKeeps`, `PostStepKeeps`, `BoxStepKeeps`, `DispatcherStepKeeps`,
`HeartbeaterStepKeeps`, `UserStepKeeps`), with one case for each action, and
`NextKeeps` and `Invariance` put them together.

### Boxoffice and dispatcher

`CouplingProofs` goes on from there, for the same constants:

| Theorem | Statement |
|---|---|
| `OrdersCorrect` | `Spec => []OrdersFit` |
| `PostsCorrect` | `Spec => []((no node is in promoting_new_file_metadata_with_more) => PostsHandled)` |
| `MoreDataDead` | no boxoffice ever enters a state for several files of data; no heartbeat says one of their statuses, or 410 |
| `OneSenderOfTwo` | `TwoNodes => (Spec => []OneSender)` |
| `AnnouncedOfTwo` | `TwoNodes => (Spec => AnnouncedToAll)` |
| `PackagesOfTwo` | `TwoNodes => (Spec => []PackageMatches)` |
| `StopOfTwo` | `TwoNodes /\ OneAtATime => (Spec => []StopIsScheduled)` |

The two threads of a node share nothing but the orders of the one and the posts of the
other, and each loses what it is not waiting for. `OrdersFit` is far from inductive:
which order may still be on its way depends on the boxoffice's state, on whether it has
heard the last post, and on `notified_dispatch_` and `stop_sync_timeout_received_`, which
keep it from giving an order twice. `Fits` says, state by state, which phases of the
dispatcher, which queues and which flags go with it: outside seven *engaged* states the
dispatcher is idle and both queues are empty, in each engaged state at most one order or
post is under way, and `syncing_stop` is only entered with the stop flag set, so that no
second 155 is handed on. What remains are messages of others that would take a
boxoffice out of an engaged state: a 410 would, and so would the states for several
files. `Spoken` is the invariant about all wires that nobody ever says those; it needs
`Fits` in turn (a 136 would lead there, and no dispatcher posts one). `MovesLead` reads
off the table which state changes are left.

`PostsHandled` needs its condition. `chaos` checks it without, for two nodes. With a
second sender, which nothing in the code excludes without assumptions on time, a 134 takes
a node whose dispatcher is armed from `promoting_new_file_metadata` to its `_with_more`
sibling, whose row waits for a 136, and the dispatcher's 132 is ignored. The proof attempt
found this, and the theorem names the state.

The last four are about flocks of two nodes, still with any users and any number of files
and changes. The first three of them hold for any timing: nothing is assumed of clocks,
links or polls. `StopOfTwo` needs `OneAtATime`, below. Three nodes are another matter.
There a node counts replies it only overhears (section 3, *leftover replies*), and what the
two other nodes say to each other says little about what the third has heard.

With two nodes a round is a dialogue. Each state belongs to a *role* (resting, announcing,
sending, acknowledging, following), each status is in the *voice* of the role that says
it, and a node says nothing but in the voice of its role. `Turn` lists which role may
follow which, and what must have been heard for it. What one node may be, given what the
other is, depends on what of its words is still under way: on the link, in the current
heartbeat, in the heartbeater's queue. `Dialogue` says how: who acknowledges does so to an
announcer, who may have gone on to send; an announcer to whom an acknowledgement is under
way has a partner that still acknowledges; whoever is sent to acknowledges or follows;
nothing of an earlier round is under way between the two; and which voice may be under way
behind which other. `TurnKeeps`
proves that any turn keeps it, knowing nothing of the table; `NextTalks` that every step of
the flock is such a turn of one node, or changes no role. `InDialogue` implies `OneSender`,
and since an announcer turns sender only on an acknowledgement, `AnnouncedToAll`.

A package names no file: the receiver files it under its own `current_file_`, which every
heartbeat with a file and every announcement of its own overwrites. `FilesAgree` adds the
files to the dialogue. `Orders`: what the dispatcher is told to send, or is about to, is
what its boxoffice announces. `Names`: the 130s under way from a sender name that file; a
package under way is its file's, is the only one, and its dispatcher is by then in
`synchronizingStop`. `Follows`: a receiver that will take a package has `current_file_` on
the same path, and one that has reported all received has no package coming. It rests on
`notified_dispatch_` being reset on the way into a data round, which is what makes the
second 130 the one that counts. `PackageMatches` follows from `FilesAgree`.

`StopOfTwo` is the one theorem about the flock that assumes something of time. `OneAtATime`
says that users change one file after the other, each when the flock is quiet (`quiet`, or
`MaxVersion <= 1`), and that what a node writes to its own box comes back before the next
heartbeat (`inotify`); the instance of `data_round` is such a flock. Without `quiet` it is
false (section 3: a second data round begins with the stop flag of the first set). The
invariant `Stopping` was checked with TLC on two-node instances before it was proved. It
says what is left of a round when the next begins: nothing. A change that is about to start
a round finds both nodes at rest, with no word but heartbeats under way and no flag set
(`PendingAtRest`, and `Untouched` before the first change); the stop flag is set at a
round's end only (`StopFlags`); the partner of an announcer is not still ending a round
(`AnnouncedAtRest`), and never do both follow (`OneFollows`). Therefore a sender gives its
155 with the flag unset and so with a deadline, the 155 that reaches the receiver carries it
(`StampsTrue`), and each dispatcher has or is about to get the deadline (`Scheduled`).
`Proceeds` says what a step of one node may do to all this; there is one lemma for each kind
of step (`CallProceeds` for `processEvent`, `PeerProceeds` and so on), and `ProceedsKeeps`
shows, with the dialogue, that such a step keeps `Stopping`.

### The transfer of a file

`TransferProofs` proves, for any package size, any set of contents and any number of
rounds and of edits, from `TransferAssumption`:

| Theorem | Statement |
|---|---|
| `TransferFaithful` | `Spec => []CompleteIsFaithful` |
| `TransferIsAtomic` | `Spec => IsAtomic`, the refinement of `AtomicTransfer` |
| `TransferTypeCorrect` | `Spec => []TransferTypeOK` |

`CompleteIsFaithful` says nothing while the receiver is not complete, so the inductive
invariant `TransferInv` says what is on its way: a package with a status is the first
one of this round, with offset 0, the bytes `taken` and `more` just if they are fewer than
`size`; and what the copy of a receiving node holds behind the first `size` bytes is
`Remains`, nothing if this round resized it and the tail of the older copy if it did not.
`StoredType` says that storing from offset 0 leaves what is behind `size` as it is, and that
a package with all the bytes replaces all in front of it. A later package never carries a
status, so it cannot complete a receiver, and no package outlives its round (`AtRest`).
The refinement follows action by action: `BeginRound` is `Begin`, `OtherRound` is `Other`,
the first `SendPackage` of a round is `Read`, a `ReceivePackage` with the last bytes is
`Arrive`, an `Edit` is `Write`, the rest stutters.

### The life of a process

`ProcessProofs` proves, for any finite set of possible children, any inputs, any `Hwm`
and any number of disturbances, from `LifecycleAssumption` and `ProcessAssumption`:

| Theorem | Statement |
|---|---|
| `ProcessIsLifecycle` | `Spec => LifeSpec`: a configured process is a life cycle |
| `LifeTypeCorrect` | `Spec => []LifeTypeOK`; in particular no count goes below 0 |
| `RoutesCorrect` | `Spec => []RoutesAllConnected` |
| `ExitsCorrect` | `Spec => []ExitsAccounted` |
| `MainLastCorrect` | `Spec => []MainIsLast` |

The invariant `LifeInv` (checked with TLC on the instance of `process` before it was
proved) adds what the code relies on and nowhere says. `CountsSilent`: what
`checkChildren` still waits for is the number of children not heard of, that is, not yet
connected or with their "alive" still at the head of their queue. `Queues`: "alive" is the
first message of a child and comes once. `NothingLost`: up to `closeConnections` every
exit, and the broadcast, is still to come or was swallowed; so when `closeConnections`
sets its count to the number of children, that is less than what is outstanding
(children and the broadcast) and swallowed together. From there each message counted
takes at most one from `Outstanding` (`OutstandingReceived`, `LosesOne`), which keeps the
inequality of `ExitsAccounted`.

### The configuration

`ConfigProofs` proves, for any set of well-formed inputs (`SamplesAssumption`: every option
has a list of values and a config file a list of blocks, which is what `program_options`
and the parser of blocks deliver; nothing is assumed of the values):

| Theorem | Statement |
|---|---|
| `BoxesCorrect` | `Spec => []OwnBoxesWatched` |
| `NodesCorrect` | `Spec => []KeyedNodesHeard` |

Both are about what a loop leaves behind after any number of turns. The library's
induction theorems take an operator as a parameter, which the provers at hand cannot
instantiate. `Recursion` states induction with a *set* instead, the set of the numbers
the claim holds of: `LeastNat` (from `WFMin`), `UpTo`, and `RunExists`, that a function
defined by recursion on `0 .. n` exists, which is what makes `CHOOSE` return it;
`RunsAgree` that there is only one, and `EndlessRunExists` the same for a recursion on
`Nat`. Each loop
then has an invariant of its turns: the boxes so far are boxes that were asked for, and of
those whose turn has come every one with a name and a path of its own is among them
(`WithBoxServes`, `AddBoxesServes`): what would refuse it is a path a box in the map has, and
that box was asked for, so it is the same; what `std::unique` has kept so far holds every
address so far (`UniqueKeeps`), though it may hold one twice; every node so far is found
under its own key and every key so far has a node (`KeyedUpTo`). From the last and a key
nobody shares it follows that the node under that key is the one meant, and that it is
under no other.

### The box

`BoxProofs` proves, for any finite tree of directories with any links, names, files and
any number of changes by users, from `BoxAssumption`:

| Theorem | Statement |
|---|---|
| `BoxTypeCorrect` | `Spec => []BoxTypeOK`; in particular no directory is watched without an entry in `watch_descriptors_` |
| `ReportsCorrect` | `Spec => []ReportsTruePath` |
| `WatchedCorrect` | `Spec => []WatchedUnlessTwin` |
| `HashesDiffer` | directories whose listings differ have different hashes |
| `TreeShapeCorrect` | `Spec => []TreeShape` |
| `ChangesFoundCorrect` | `Spec => []ChangesFound` |

The invariant `BoxInv` was checked with TLC on the instance of `watch` first. `TreeInv`: a
path leads to one directory, and what is below something renamed counts as renamed.
`WatchInv`: the descriptor of a watched directory that was not renamed is its path *now*,
and every event in the queue is truthful: its directory has a descriptor, and its path is
the one the box will make of it, unless its directory was renamed. That is what makes
`ReportsTruePath` inductive, since an event is reported any time after it was queued. An
event about the directory itself is reported with that path, or with that of an entry made
of the bytes behind it (`ReadableEntry`). `ScanInv` follows a directory that stays where it
is through the three phases: it was scanned, or the path of a directory above it is still
pending, whatever links and users put there meanwhile; once scanned it has an entry or a
twin that took its place; its entry is still to be watched or the kernel watches it; and
none is left when the loop begins. The argument about twins needs that different listings
have different hashes (`HashesDiffer`): that hashing strings and pairs is injective is how
hashes are modelled, that a whole tree over any number of files then tells its listings
apart is proved, in `HashTreeProofs`.

### Hash trees

`HashTreeProofs` is about the operators of `HashTree`, for sequences of hashes of any
length; `BoxProofs` takes its theorems over to `BoxWatch`.

| Theorem | Statement |
|---|---|
| `HalvesUpwardsHolds` | one node at the top and on each level half as many as below, rounded up |
| `TellsApartHolds`, `ChangedHashesAreAll` | `getChangedHashes` returns exactly what two sets of hashes differ in |
| `TopTellsHashes` | trees with the same top hash have the same set of leaves |
| `OrderDoesNotCount` | the top hash does not depend on the order the hashes came in |

`LeafCount` is shown to be what its recursion says (`EndlessRunExists`), and to outgrow any
number, so that `TreeDepth` exists. `PlaceOf` gives no two hashes one place; an injection
from a finite set to one as large is onto, so every place is taken and `Sorted` is a
permutation (`PlacesAreTaken`, `SortedIs`). The levels exist by `RunExists`, and their
lengths halve from below (`Halving`). For equal tops the argument goes down: the nodes of
one level are the pairs of the one below, so levels with the same nodes stand on levels
with the same nodes (`SameBelow`), and a leaf is no pair, so two trees with one top have the
same depth (`KindOfLevel`, `SameLevels`).

### Only model-checked

* `AllRun`, `ConfirmedIsHeld` and `IsRound` hold under the assumptions
  on time and the bounds of their runs, and are false without: section 3 names the behaviour
  that breaks each. A proof would be one about `Timely`, and for `ConfirmedIsHeld` and
  `AllRun` about the first round only, since what a round leaves behind disturbs the next.
* `StopIsScheduled` for three nodes, which needs `links` (an experiment of section 3, no run
  of its own); two are proved.
* `OneSender` and `AnnouncedToAll` for three nodes (`rivals`, `meta_three`); two are proved.
* `PostsHandled` in `promoting_new_file_metadata_with_more` (`chaos`).
* All liveness: `Delivered`, `Settled`, `EndsUnlessHindered`, `LoopEnds`,
  `ArrivesUnlessHindered`, `StartsUp`. Liveness under fairness and `ENABLED` are out of the
  prover's reach.

## 5. What is not modelled

* Symbolic links to files, and to what is outside the box: `Directory` cuts the paths
  as if they were in it (`directory.cpp:117`), `Box` too (`box.cpp:179`).
* `inotify_add_watch` failing for another reason than a path that is gone
  (`box.cpp:113`), and an overflow of the inotify queue, whose `wd` of -1 is in no table, so
  that `at` throws (`box.cpp:177`).
* The interrupt in one poll with an event, which `s_recv_in` prints behind the event's name:
  that it is missed is `MissInterrupt` of `Lifecycle`; the wrong name is left out.
* The truncation of a heartbeat at a newline byte by `getline` (`heartbeater.cpp:79`), and
  all else that depends on the bytes of a serialised File: payloads are records.
* More than one box in the flock (`current_box_`): a File of `Wires` names no box.
* Modes and modification times one by one: they are one version of a file's metadata.
* Clock offsets (`updateTimestamp`), authentication and slow joiners of ZeroMQ's TCP
  links: the assumptions `clocks` and the FIFO links stand for them working.
* `Box::checkBoxChange` and `Box::getChangedDirHashes`, which have no caller in the
  program (the first compares pointers and is true for any two boxes), and
  `makeHashTreeFromSelf`, which only tests call.
* The bytes of the hash function, the writing of a new key pair by
  `--create-private-key`, help texts and debug output.
* A crash and restart of a process: nothing of the protocol is persisted, a restarted
  process is a new node in `ready` with the disk it finds, which is an initial state with
  unequal disks; no code reconciles those.

## 6. Plan

What is done, in order: the threads of a node and the flock (`FlockFSM` to `Flock`), its
proofs, the abstract round, file transfer with its refinement and proof, the life of a
process with its proof, the configuration, the box with its directories and hash trees;
then the proofs about boxoffice and dispatcher, the box, the configuration, hash trees of
any size, and the dialogue of two nodes with the files it is about and its common stop.

What is left:

1. The safety half of `FlockRound` for two nodes and one round; the mapping's refined state
   is what `InDialogue` and `FilesAgree` already speak of.
2. What a boxoffice may do in one step, as action properties: which queues a step may
   shorten, when flags are reset.
3. Two boxes in the flock, with `current_box_`.
