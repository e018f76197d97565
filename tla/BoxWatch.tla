------------------------------ MODULE BoxWatch ------------------------------
(***************************************************************************)
(* A box (src/box.cpp, src/directory.cpp): the constructor scans the       *)
(* directories below the base path, run() adds an inotify watch for each   *)
(* and then reports events, while users go on changing the tree.           *)
(*                                                                         *)
(* A directory is known by its inode, an element of Dir; the directories   *)
(* above it never change, its name may.  Paths are sequences of names.  A  *)
(* file is known by its name and its modification time.                    *)
(***************************************************************************)
EXTENDS HashTree, FiniteSetsExt

CONSTANTS
  Dir, Root,    \* directories, and the base path of the box
  Chain,        \* Chain[d]: the directories from below Root down to d
  LinksTo,      \* absolute symbolic links: LinksTo[d] are those in d
  Absent,       \* the directories that may be missing at first
  Name,         \* the names of directories
  FileName,     \* the names of files
  Spaced,       \* the names with a blank in them
  Listing,      \* Listing[d]: the files d may have at first, as in files
  MaxChanges    \* bound: changes by users

ASSUME BoxAssumption ==
  /\ IsFiniteSet(Dir)
  /\ Root \in Dir \ Absent
  /\ Chain \in [Dir -> Seq(Dir \ {Root})]
  /\ Chain[Root] = <<>>
  /\ \A d \in Dir \ {Root} : Chain[d] # <<>> /\ Last(Chain[d]) = d
  /\ \A d \in Dir : \A i \in DOMAIN Chain[d] :
       Chain[Chain[d][i]] = SubSeq(Chain[d], 1, i)
  /\ LinksTo \in [Dir -> SUBSET Dir]
  /\ IsFiniteSet(FileName)
  /\ Spaced \subseteq Name \cup FileName
  /\ Listing \in [Dir -> SUBSET [FileName -> {0, 1}]]
  /\ MaxChanges \in Nat

VARIABLES
  place,      \* "absent", "here" or "gone": whether a directory exists
  name,       \* its name
  files,      \* files[d][f]: modification time of f in d, 0 if there is none
  phase,      \* "scanning", "watching", "running" or "aborted"
  pending,    \* the paths still to be scanned
  entries,    \* entries_: the Directories, by hash
  toWatch,    \* those without a watch so far
  watched,    \* the directories the kernel watches
  descriptor, \* watch_descriptors_: the path of a Directory by wd
  events,     \* the inotify queue
  report,     \* the last event reported to the boxoffice
  scanned,    \* history: path, name and files of each Directory scanned
  moved,      \* history: watched, and renamed since (or an ancestor was)
  unsteady,   \* history: missing at first, or renamed (or an ancestor was)
  changes     \* the number of changes by users

treeVars == <<place, name, files, unsteady, changes>>
boxVars == <<phase, pending, entries, toWatch, descriptor, report, scanned>>
kernelVars == <<watched, events, moved>>
vars == <<treeVars, boxVars, kernelVars>>

\* The directory d is in, and d with all those it is in.
Parent(d) ==
  LET chain == Chain[d] IN
  IF Len(chain) = 1 THEN Root ELSE chain[Len(chain) - 1]

Up(d) == {Root} \cup Range(Chain[d])

\* d and what lies below it.
Below(d) == { e \in Dir : d \in Up(e) }

\* The path of d below the base path, and whether it leads there.
PathOf(d) == [i \in 1 .. Len(Chain[d]) |-> name[Chain[d][i]]]

Exists(d) == \A e \in Up(d) : place[e] = "here"

At(path) == { d \in Dir : Exists(d) /\ PathOf(d) = path }

Children(d) == { e \in Dir \ {Root} : Parent(e) = d /\ place[e] = "here" }

BoxTypeOK ==
  /\ place \in [Dir -> {"absent", "here", "gone"}]
  /\ name \in [Dir -> Name]
  /\ files \in [Dir -> [FileName -> 0 .. MaxChanges + 1]]
  /\ phase \in {"scanning", "watching", "running", "aborted"}
  /\ pending \in Seq(Seq(Name))
  /\ \A entry \in entries : entry.path \in Seq(Name)
  /\ toWatch \subseteq entries
  /\ watched \subseteq DOMAIN descriptor
  /\ DOMAIN descriptor \subseteq Dir
  /\ changes \in 0 .. MaxChanges

-----------------------------------------------------------------------------
\* The file hashes of a directory: of name and modification time.
FileHashes(listing) ==
  LET names == SetToSeq(FileName)
      here == { i \in DOMAIN names : listing[names[i]] # 0 }
  IN SetToSeq({ <<i + Len(names) * listing[names[i]]>> : i \in here })

ListingHash(listing) == GetTopHash(MakeHashTree(FileHashes(listing)))

\* Faulty: the directory's own name is left out.
DirectoryHashNameless(d) == <<ListingHash(files[d])>>

\* makeDirectoryHash: of the files and the directory's own name.
DirectoryHash(d) == <<ListingHash(files[d]), name[d]>>

\* Faulty: ".", the directory itself, is taken for an entry.
SubdirectoriesDot(d) == { PathOf(e) : e \in {d} \cup Children(d) }

\* The directories fillDirectory returns: the real ones, and those links lead
\* to (F_SYMLINK_FOLLOW, whatever the configuration says).
Subdirectories(d) ==
  { PathOf(e) : e \in Children(d) \cup { l \in LinksTo[d] : Exists(l) } }

NoReport == [wd |-> Root, path |-> <<>>, true |-> <<>>, self |-> TRUE,
             excused |-> FALSE]

\* The constructor is called.
Init ==
  /\ unsteady \in SUBSET Absent
  /\ place = [d \in Dir |-> IF d \in unsteady THEN "absent" ELSE "here"]
  /\ name \in [Dir -> Name]
  /\ \A d \in Dir : place[d] = "here" =>
       Exists(d) /\ Cardinality(At(PathOf(d))) = 1
  /\ files \in { all \in [Dir -> [FileName -> {0, 1}]] :
                    \A d \in Dir : all[d] \in Listing[d] }
  /\ \A d \in unsteady, f \in FileName : files[d][f] = 0
  /\ phase = "scanning"
  /\ pending = << <<>> >>
  /\ entries = {}
  /\ toWatch = {}
  /\ watched = {}
  /\ descriptor = << >>
  /\ events = <<>>
  /\ report = NoReport
  /\ scanned = {}
  /\ moved = {}
  /\ changes = 0

-----------------------------------------------------------------------------
(* The constructor and the start of run().                                 *)

\* fillDirectory for the next path.  A Directory with a hash seen before is
\* dropped.
Scan ==
  LET path == Head(pending) IN
  /\ phase = "scanning"
  /\ pending # <<>>
  /\ \E d \in At(path) :
       /\ \E order \in SetToSeqs(Subdirectories(d)) :
            pending' = order \o Tail(pending)
       /\ entries' =
            IF \E entry \in entries : entry.hash = DirectoryHash(d) THEN entries
            ELSE entries \cup {[hash |-> DirectoryHash(d), path |-> path]}
       /\ scanned' = scanned \cup {<<path, name[d], files[d]>>}
  /\ UNCHANGED <<treeVars, kernelVars, phase, toWatch, descriptor, report>>

\* directory_iterator throws when the directory is there no longer.
ScanFails ==
  /\ phase = "scanning"
  /\ pending # <<>>
  /\ At(Head(pending)) = {}
  /\ phase' = "aborted"
  /\ UNCHANGED <<treeVars, kernelVars, pending, entries, toWatch, descriptor,
                 report, scanned>>

StartThread ==
  /\ phase = "scanning"
  /\ pending = <<>>
  /\ phase' = "watching"
  /\ toWatch' = entries
  /\ UNCHANGED <<treeVars, kernelVars, pending, entries, descriptor, report,
                 scanned>>

\* Faulty: the Directory is not entered into watch_descriptors_.
AddWatchOnly(entry) ==
  /\ phase = "watching"
  /\ entry \in toWatch
  /\ toWatch' = toWatch \ {entry}
  /\ watched' = watched \cup At(entry.path)
  /\ UNCHANGED <<treeVars, events, moved, phase, pending, entries, descriptor,
                 report, scanned>>

\* inotify_add_watch resolves the path as it is now.  A second watch of one
\* inode gives the same wd, and insert() keeps the first Directory.
AddWatch(entry) ==
  /\ phase = "watching"
  /\ entry \in toWatch
  /\ toWatch' = toWatch \ {entry}
  /\ watched' = watched \cup At(entry.path)
  /\ descriptor' = [d \in DOMAIN descriptor \cup At(entry.path) |->
       IF d \in DOMAIN descriptor THEN descriptor[d] ELSE entry.path]
  /\ UNCHANGED <<treeVars, events, moved, phase, pending, entries, report,
                 scanned>>

EnterLoop ==
  /\ phase = "watching"
  /\ toWatch = {}
  /\ phase' = "running"
  /\ UNCHANGED <<treeVars, kernelVars, pending, entries, toWatch, descriptor,
                 report, scanned>>

-----------------------------------------------------------------------------
(* The loop of run().                                                      *)

\* The boxoffice reads the path back up to its first blank.
Readable(path) ==
  LET blanks == { i \in DOMAIN path : path[i] \in Spaced } IN
  IF blanks = {} THEN path
  ELSE Append(SubSeq(path, 1, Min(blanks) - 1), "cut")

\* Faulty: the name is that of the last event read.
NamesReadLast(batch) == {batch[Len(batch)].name}

\* The names read back for the first event of a batch.  One about the directory
\* itself has none, its length is 0, and s_recv_in prints what lies behind it in the
\* buffer: the wd of the next event, which is not 0, or what the stack held before,
\* and that may be an end of string.
NamesRead(batch) ==
  IF Head(batch).name # "" THEN {Head(batch).name}
  ELSE IF Len(batch) > 1 THEN {"bytes"}
  ELSE {"bytes", ""}

ReportedPath(event, entry) ==
  Readable(IF entry = "" THEN descriptor[event.wd]
           ELSE Append(descriptor[event.wd], entry))

\* IN_DELETE_SELF is not reported.
ReportEvent ==
  /\ phase = "running"
  /\ \E k \in 1 .. Len(events) :
       LET event == Head(events) IN
       /\ events' = SubSeq(events, k + 1, Len(events))
       /\ \E entry \in NamesRead(SubSeq(events, 1, k)) :
            report' =
              IF event.mask = "delete_self" THEN report
              ELSE [wd |-> event.wd, path |-> ReportedPath(event, entry),
                    true |-> event.true, self |-> event.name = "",
                    excused |-> Range(event.true) \cap Spaced # {}]
  /\ UNCHANGED <<treeVars, watched, moved, phase, pending, entries, toWatch,
                 descriptor, scanned>>

-----------------------------------------------------------------------------
(* Users.                                                                  *)

\* An event about an entry of d or, if that is "", about d itself, with the
\* true path of its object.
Event(d, mask, entry) ==
  [wd |-> d, mask |-> mask, name |-> entry,
   true |-> IF entry = "" THEN PathOf(d) ELSE Append(PathOf(d), entry)]

\* The kernel queues those of directories it watches.
Heard(event) == IF event.wd \in watched THEN <<event>> ELSE <<>>

Change == changes < MaxChanges /\ changes' = changes + 1

\* A file is written, or created.
WriteFile(d, f) ==
  /\ Change
  /\ Exists(d)
  /\ files' = [files EXCEPT ![d][f] = changes + 2]
  /\ events' = events
       \o Heard(Event(d, IF files[d][f] = 0 THEN "create" ELSE "modify", f))
  /\ UNCHANGED <<place, name, unsteady, boxVars, watched, moved>>

RemoveFile(d, f) ==
  /\ Change
  /\ Exists(d)
  /\ files[d][f] # 0
  /\ files' = [files EXCEPT ![d][f] = 0]
  /\ events' = events \o Heard(Event(d, "delete", f))
  /\ UNCHANGED <<place, name, unsteady, boxVars, watched, moved>>

MakeDir(d) ==
  /\ Change
  /\ place[d] = "absent"
  /\ Exists(Parent(d))
  /\ At(PathOf(d)) = {}
  /\ place' = [place EXCEPT ![d] = "here"]
  /\ events' = events \o Heard(Event(Parent(d), "create", name[d]))
  /\ UNCHANGED <<name, files, unsteady, boxVars, watched, moved>>

\* rmdir: the directory's own watch ends with IN_IGNORED.
RemoveDir(d) ==
  /\ Change
  /\ d # Root
  /\ Exists(d)
  /\ Children(d) = {} /\ \A f \in FileName : files[d][f] = 0
  /\ place' = [place EXCEPT ![d] = "gone"]
  /\ events' = events \o Heard(Event(d, "delete_self", ""))
                      \o Heard(Event(d, "ignored", ""))
                      \o Heard(Event(Parent(d), "delete", name[d]))
  /\ watched' = watched \ {d}
  /\ UNCHANGED <<name, files, unsteady, boxVars, moved>>

\* mv of a directory, to another name.
RenameDir(d, to) ==
  /\ Change
  /\ d # Root
  /\ Exists(d)
  /\ At(Append(PathOf(Parent(d)), to)) = {}
  /\ name' = [name EXCEPT ![d] = to]
  /\ events' = events \o Heard(Event(Parent(d), "move", name[d]))
                      \o Heard(Event(Parent(d), "move", to))
                      \o Heard([Event(d, "move_self", "") EXCEPT
                                  !.true = Append(PathOf(Parent(d)), to)])
  /\ moved' = moved \cup (Below(d) \cap watched)
  /\ unsteady' = unsteady \cup Below(d)
  /\ UNCHANGED <<place, files, boxVars, watched>>

-----------------------------------------------------------------------------
BoxStep ==
  \/ Scan
  \/ ScanFails
  \/ StartThread
  \/ \E entry \in toWatch : AddWatch(entry)
  \/ EnterLoop

UserStep ==
  \/ \E d \in Dir, f \in FileName : WriteFile(d, f) \/ RemoveFile(d, f)
  \/ \E d \in Dir : MakeDir(d) \/ RemoveDir(d)
  \/ \E d \in Dir, to \in Name : RenameDir(d, to)

Next == BoxStep \/ ReportEvent \/ UserStep

Spec == Init /\ [][Next]_vars

\* The box is a thread of its own.
FairSpec == Spec /\ WF_vars(BoxStep)

-----------------------------------------------------------------------------
\* Before the box is opened: where the properties of pure operators are looked
\* at.
AtFirst == changes = 0 /\ scanned = {} /\ phase = "scanning"

\* A tree of n hashes has one node at the top and, on each level, half as many
\* as below, rounded up (hash_tree.cpp:34-73; test/test_hash_tree.cpp counts 11
\* nodes for 5 hashes and 37 for 17).
TreeShape == AtFirst => HalvesUpwards

\* Trees of different hashes have different tops, so that what differs is found,
\* all of it and nothing else (hash_tree.cpp:105-150).
ChangesFound == AtFirst => TellsApart

\* d had a twin: another directory of the same name with the same files.
HasTwin(d) ==
  \E s, t \in scanned : /\ s[1] = PathOf(d)
                        /\ t[1] # s[1]
                        /\ <<s[2], s[3]>> = <<t[2], t[3]>>

\* Every directory there since the start is watched, whatever happened to the
\* others meanwhile, unless it has a twin (box.cpp:85, 109: "for each
\* directory, add a watch").
WatchedUnlessTwin ==
  phase = "running" =>
    \A d \in Dir : Exists(d) /\ d \notin unsteady => d \in watched \/ HasTwin(d)

\* It is path, or something in it.
IsAtOrIn(path, dir) ==
  path = dir \/ (path # <<>> /\ Front(path) = dir)

\* What is reported is the path of what changed, unless the directory was
\* renamed since it is watched or the path has a blank; of a change to the
\* directory itself it may be the path of something in it, that is not even there
\* (box.cpp:127-155, 172-178, constants.cpp:192-205).
ReportsTruePath ==
  \/ IF report.self THEN IsAtOrIn(report.path, report.true)
                    ELSE report.path = report.true
  \/ report.wd \in moved
  \/ report.excused

\* The scan ends.
StartsUp == <>(phase \in {"running", "aborted"})
=============================================================================
