------------------------------ MODULE Process -------------------------------
(***************************************************************************)
(* One flocksy process from its command line to its end: module Config says*)
(* what it is configured to be, module Lifecycle how the threads for that  *)
(* start and end.                                                          *)
(***************************************************************************)
EXTENDS Config, Lifecycle

CONSTANTS
  Inputs,       \* command lines with the files they name
  Samples       \* more of them, on which the configuration is looked at

VARIABLES nodes, hosts, boxes   \* the configuration in force

configVars == <<nodes, hosts, boxes>>
vars == <<lifeVars, configVars>>

\* A publisher, a heartbeater and a dispatcher for the host, a subscriber for
\* each node, a watcher for each box.
ChildrenOf(c) ==
  ({"pub", "hb", "disp"} \X DOMAIN c.hosts)
    \cup ({"sub"} \X DOMAIN c.nodes) \cup ({"box"} \X DOMAIN c.boxes)

ASSUME ProcessAssumption ==
  \A in \in Inputs :
    LET c == Initialize(in) IN
    c.ok /\ Len(c.hosts) = 1 => ChildrenOf(c) \subseteq AllChildren

ASSUME SamplesAssumption == \A in \in Samples : WellFormed(in)

Init == LifeInit /\ nodes = <<>> /\ hosts = <<>> /\ boxes = <<>>

\* main_application up to the boxoffice thread.
Start(in) ==
  LET c == Initialize(in) IN
  /\ c.ok /\ Len(c.hosts) = 1
  /\ StartBoxoffice(ChildrenOf(c))
  /\ nodes' = c.nodes /\ hosts' = c.hosts /\ boxes' = c.boxes

\* The pair between a publisher and its heartbeater has a fixed name: with a
\* second hostname the second heartbeater's bind throws, nobody catches it and
\* the process dies, whatever its threads have done till then.
StartAborts(in) ==
  LET c == Initialize(in) IN
  /\ c.ok /\ Len(c.hosts) > 1
  /\ Exit("aborted") /\ UNCHANGED configVars

\* Config::initialize returns 1, and so does main.
StartFails(in) ==
  /\ ~Initialize(in).ok
  /\ Exit("exited") /\ UNCHANGED configVars

Configure == \E in \in Inputs : Start(in) \/ StartAborts(in) \/ StartFails(in)

Next ==
  \/ main = "config" /\ Configure
  \/ ThreadStep /\ UNCHANGED configVars

Spec == Init /\ [][Next]_vars

FairSpec == Spec /\ LifeFairness

-----------------------------------------------------------------------------
(* What holds of every configuration a process is about to get.            *)

Accepted == { in \in Samples : Initialize(in).ok }

\* The boxes asked for, in the config file and by options.
AskedBoxes(in) ==
  (IF in.file = Missing THEN {} ELSE Range(in.file.blocks)) \cup Range(Options(in).box)

\* It is in the map, under its name and with its path.
IsWatched(boxMap, box) ==
  box.name \in DOMAIN boxMap /\ boxMap[box.name].path = box.path

\* A path to a directory, and neither the name nor the path of another box.
IsOwn(box, asked, directories) ==
  /\ box.path \in directories \ {Garbled}
  /\ \A other \in asked :
       other.name = box.name \/ other.path = box.path =>
         other.name = box.name /\ other.path = box.path

\* One box that does not parse, is no directory, takes another's name or repeats
\* its path costs no third box its place: those with a name and a path of their own
\* are watched, and no other than were asked for (config.cpp:265-296, 398-436,
\* 438-465).
OwnBoxesWatched ==
  main = "config" => \A in \in Accepted :
    LET asked == AskedBoxes(in)
        watched == Initialize(in).boxes
    IN /\ \A box \in asked : IsOwn(box, asked, in.directories) => IsWatched(watched, box)
       /\ \A name \in DOMAIN watched :
            \E box \in asked : box.name = name /\ IsWatched(watched, box)

\* Every node that is configured, in whatever spelling and how often, and that
\* has a key nobody else has, is listened to once (config.cpp:171, 366-372).
KeyedNodesHeard ==
  main = "config" => \A in \in Accepted :
    LET n == Initialize(in).nodes
        endpoints == { Endpoint(a) : a \in Range(Options(in).node) }
        KeyAt(e) == KeyOf(in.keystore, e)
    IN \A e \in endpoints :
         (\A d \in endpoints : KeyAt(d) = KeyAt(e) => d = e) =>
            { k \in DOMAIN n : n[k] = e } = {KeyAt(e)}
=============================================================================
