----------------------------- MODULE Lifecycle ------------------------------
(***************************************************************************)
(* How the process starts its threads and ends them (main.cpp,             *)
(* boxoffice.cpp, transmitter.cpp): the main thread, the boxoffice and its *)
(* children, which are the publisher, heartbeater and dispatcher of every  *)
(* host, a subscriber for every node and a watcher for every box.          *)
(*                                                                         *)
(* A child is <<kind, id>>.  Messages to the boxoffice are "alive", "exit" *)
(* (F_SIGTYPE_LIFE) or "event", anything else.  What the boxoffice does    *)
(* with an event is the subject of module Boxoffice; here it may fail.     *)
(***************************************************************************)
EXTENDS Naturals, Sequences, FiniteSets

CONSTANTS
  AllChildren,  \* the children a configuration may ask for
  Hwm,          \* messages a child's queue to the boxoffice holds
  MaxEvents     \* bound on what the outside does at an unfortunate time

\* The boxoffice as a subscriber of the broadcast.
Bo == <<"bo", 0>>

ASSUME LifecycleAssumption ==
  /\ IsFiniteSet(AllChildren)
  /\ Bo \notin AllChildren
  /\ Hwm \in Nat \ {0}
  /\ MaxEvents \in Nat

VARIABLES
  main,         \* the main thread
  boxoffice,    \* the boxoffice thread, by the function it is in
  heartbeats,   \* messages its loop still waits for
  swallowed,    \* history: whose exit (or whether the broadcast) it received
                \* without counting it
  children,     \* the threads it opens
  child,        \* what each of them is doing
  events,       \* how often the outside did
  pair,         \* main's interrupt waits for the boxoffice
  router,       \* messages of each child that wait in z_router
  broadcast     \* who has the broadcast interrupt waiting

boVars == <<boxoffice, heartbeats, swallowed>>
childVars == <<children, child, events>>
wires == <<pair, router, broadcast>>
lifeVars == <<main, boVars, childVars, wires>>

LifeTypeOK ==
  /\ main \in {"config", "waiting", "interrupting", "awaiting", "done",
               "exited", "aborted"}
  /\ boxoffice \in {"none", "setup", "checkChildren", "runRouter",
                    "closeConnections", "join", "ended"}
  /\ heartbeats \in Nat
  /\ swallowed \subseteq AllChildren \cup {Bo}
  /\ children \subseteq AllChildren
  /\ child \in [AllChildren -> {"none", "spawned", "running", "sending",
                                "blocked", "ended"}]
  /\ events \in Nat
  /\ pair \in BOOLEAN
  /\ router \in [AllChildren -> Seq({"alive", "exit", "event"})]
  /\ broadcast \subseteq AllChildren \cup {Bo}

LifeInit ==
  /\ main = "config"
  /\ boxoffice = "none" /\ heartbeats = 0 /\ swallowed = {}
  /\ children = {} /\ child = [c \in AllChildren |-> "none"] /\ events = 0
  /\ pair = FALSE /\ router = [c \in AllChildren |-> <<>>] /\ broadcast = {}

-----------------------------------------------------------------------------
(* The main thread.                                                        *)

\* Config::initialize has succeeded: catch signals, bind, open the boxoffice
\* thread.
StartBoxoffice(C) ==
  /\ main = "config"
  /\ main' = "waiting" /\ boxoffice' = "setup" /\ children' = C
  /\ UNCHANGED <<heartbeats, swallowed, child, events, wires>>

\* It has not, or the process dies while it opens its threads.
Exit(how) ==
  /\ main = "config"
  /\ main' = how
  /\ UNCHANGED <<boVars, childVars, wires>>

\* The outside does something at an unfortunate time.
Disturb == events < MaxEvents /\ events' = events + 1

StartingUp ==
  \/ boxoffice \in {"setup", "checkChildren"}
  \/ \E c \in children : child[c] = "spawned"

\* A signal, which main notices and passes on: "received interrupt, broadcasting
\* signal to boxoffice..."
SendInterrupt ==
  /\ main = "waiting"
  /\ \/ ~StartingUp /\ UNCHANGED events
     \/ StartingUp /\ Disturb
  /\ main' = "interrupting" /\ pair' = TRUE
  /\ UNCHANGED <<boVars, children, child, router, broadcast>>

\* Whoever subscribes to the broadcast later never hears it.
Connected == { c \in children : child[c] \notin {"none", "spawned", "ended"} }

\* "boxoffice exited, broadcasting signal...", but nothing waits for that.
BroadcastInterrupt ==
  /\ main = "interrupting"
  /\ main' = "awaiting"
  /\ broadcast' = Connected \cup (IF boxoffice \in {"join", "ended"} THEN {} ELSE {Bo})
  /\ UNCHANGED <<boVars, childVars, pair, router>>

\* The boxoffice's exit message; bo_thread.join() and the context's end.
MainReturns ==
  /\ main = "awaiting" /\ boxoffice = "ended"
  /\ main' = "done"
  /\ UNCHANGED <<boVars, childVars, wires>>

-----------------------------------------------------------------------------
(* The boxoffice thread.                                                   *)

Kind(kind) == { c \in children : c[1] = kind }

\* Faulty: the boxes are forgotten.
ExpectedButBoxes == Cardinality(children \ Kind("box"))

\* Faulty: one too many.
ExpectedAndMain == Cardinality(children) + 1

\* The number of threads, as checkChildren and closeConnections count them.
Expected == Cardinality(children)

\* setupBoxes, which constructs the boxes itself, then setupPublishers and the
\* rest, which only open threads.
Setup ==
  /\ boxoffice = "setup"
  /\ boxoffice' = "checkChildren" /\ heartbeats' = Expected
  /\ child' = [c \in AllChildren |->
                 IF c \in Kind("box") THEN "running"
                 ELSE IF c \in children THEN "spawned" ELSE child[c]]
  /\ router' = [c \in AllChildren |->
                  IF c \in Kind("box") THEN <<"alive">> ELSE router[c]]
  /\ UNCHANGED <<main, swallowed, children, events, pair, broadcast>>

\* s_recv on two sockets: the second is only read when the first has nothing.
RouterEmpty == \A c \in children : router[c] = <<>>

Receive(c) ==
  /\ router[c] # <<>>
  /\ router' = [router EXCEPT ![c] = Tail(@)]
  /\ UNCHANGED <<main, childVars, pair, broadcast>>

ReceiveBroadcast ==
  /\ RouterEmpty /\ Bo \in broadcast
  /\ broadcast' = broadcast \ {Bo}
  /\ UNCHANGED <<main, childVars, pair, router>>

Swallow(c) ==
  swallowed' = IF Head(router[c]) = "exit" THEN swallowed \cup {c} ELSE swallowed

\* closeConnections starts counting, whatever has been received so far.
ToCloseConnections ==
  boxoffice' = "closeConnections" /\ heartbeats' = Expected

CheckChild(c) ==
  /\ boxoffice = "checkChildren" /\ heartbeats > 0
  /\ Receive(c) /\ Swallow(c)
  /\ IF Head(router[c]) = "alive"
       THEN heartbeats' = heartbeats - 1 /\ UNCHANGED boxoffice
       ELSE ToCloseConnections

CheckInterrupted ==
  /\ boxoffice = "checkChildren" /\ heartbeats > 0
  /\ ReceiveBroadcast /\ swallowed' = swallowed \cup {Bo}
  /\ ToCloseConnections

AllConnected ==
  /\ boxoffice = "checkChildren" /\ heartbeats = 0
  /\ boxoffice' = "runRouter"
  /\ UNCHANGED <<main, heartbeats, swallowed, childVars, wires>>

\* processEvent ignores an exit; it may fail on an event.
Route(c) ==
  /\ boxoffice = "runRouter"
  /\ Receive(c) /\ Swallow(c)
  /\ \/ UNCHANGED <<boxoffice, heartbeats>>
     \/ Head(router[c]) = "event" /\ ToCloseConnections

\* Faulty: the interrupt is taken and the loop goes on.
RouteInterruptOn ==
  /\ boxoffice = "runRouter"
  /\ RouterEmpty /\ pair
  /\ pair' = FALSE
  /\ UNCHANGED <<main, boVars, childVars, router, broadcast>>

RouteInterrupt ==
  /\ boxoffice = "runRouter"
  /\ RouterEmpty /\ pair
  /\ pair' = FALSE
  /\ ToCloseConnections
  /\ UNCHANGED <<main, swallowed, childVars, router, broadcast>>

\* Anything counts, be it an exit or not.
CountExit(c) ==
  /\ boxoffice = "closeConnections" /\ heartbeats > 0
  /\ Receive(c)
  /\ heartbeats' = heartbeats - 1
  /\ UNCHANGED <<boxoffice, swallowed>>

\* Faulty: received once too often.
CountBroadcastLate ==
  /\ boxoffice = "closeConnections"
  /\ ReceiveBroadcast
  /\ heartbeats' = heartbeats - 1
  /\ UNCHANGED <<boxoffice, swallowed>>

CountBroadcast ==
  /\ boxoffice = "closeConnections" /\ heartbeats > 0
  /\ ReceiveBroadcast
  /\ heartbeats' = heartbeats - 1
  /\ UNCHANGED <<boxoffice, swallowed>>

\* z_broadcast is closed here.
AllExited ==
  /\ boxoffice = "closeConnections" /\ heartbeats = 0
  /\ boxoffice' = "join"
  /\ broadcast' = broadcast \ {Bo}
  /\ UNCHANGED <<main, heartbeats, swallowed, childVars, pair, router>>

\* Faulty: subscribers and watchers are not joined.
JoinSome ==
  /\ boxoffice = "join"
  /\ \A c \in Kind("pub") \cup Kind("hb") \cup Kind("disp") : child[c] = "ended"
  /\ boxoffice' = "ended"
  /\ UNCHANGED <<main, heartbeats, swallowed, childVars, wires>>

\* All threads joined, the router closed, the exit sent to main.
Join ==
  /\ boxoffice = "join"
  /\ \A c \in children : child[c] = "ended"
  /\ boxoffice' = "ended"
  /\ UNCHANGED <<main, heartbeats, swallowed, childVars, wires>>

-----------------------------------------------------------------------------
(* The children.                                                           *)

Become(c, s) == child' = [child EXCEPT ![c] = s]

Push(c, m) == router' = [router EXCEPT ![c] = Append(@, m)]

\* The constructor: subscribe to the broadcast, then say so to the boxoffice.
Connect(c) ==
  /\ child[c] = "spawned"
  /\ Become(c, "running") /\ Push(c, "alive")
  /\ UNCHANGED <<main, boVars, children, events, pair, broadcast>>

\* A subscriber hears a node, a watcher of a change, the dispatcher's time is
\* up: it tells the boxoffice, and blocks while its queue is full.
Event(c) ==
  /\ c[1] \in {"sub", "box", "disp"} /\ child[c] = "running"
  /\ Disturb
  /\ \/ Len(router[c]) < Hwm /\ Push(c, "event") /\ UNCHANGED child
     \/ Len(router[c]) >= Hwm /\ Become(c, "sending") /\ UNCHANGED router
  /\ UNCHANGED <<main, boVars, children, pair, broadcast>>

SendEvent(c) ==
  /\ child[c] = "sending" /\ Len(router[c]) < Hwm
  /\ Become(c, "running") /\ Push(c, "event")
  /\ UNCHANGED <<main, boVars, children, events, pair, broadcast>>

\* The dispatcher has a package when the publisher has ended: it blocks, for
\* z_dispatcher has no peer.
PackageBlocks(c) ==
  /\ c[1] = "disp" /\ child[c] = "running"
  /\ Disturb
  /\ \A p \in Kind("pub") : child[p] = "ended"
  /\ Become(c, "blocked")
  /\ UNCHANGED <<main, boVars, children, wires>>

\* The interrupt ends run(): sendExitSignal, the destructor, the end of the
\* thread.
Leave(c) ==
  /\ child[c] = "running" /\ c \in broadcast /\ Len(router[c]) < Hwm
  /\ broadcast' = broadcast \ {c}
  /\ Become(c, "ended") /\ Push(c, "exit")
  /\ UNCHANGED <<main, boVars, children, events, pair>>

\* The interrupt is read together with something else that came for the child,
\* and not recognised.
MissInterrupt(c) ==
  /\ Disturb
  /\ child[c] = "running" /\ c \in broadcast
  /\ broadcast' = broadcast \ {c}
  /\ UNCHANGED <<main, boVars, children, child, pair, router>>

-----------------------------------------------------------------------------
\* There is a process with threads.
Alive == main \in {"waiting", "interrupting", "awaiting"}

MainStep == BroadcastInterrupt \/ MainReturns

BoxofficeStep ==
  \/ Setup \/ CheckInterrupted \/ AllConnected \/ RouteInterrupt
  \/ CountBroadcast \/ AllExited \/ Join

RouterStep(c) == CheckChild(c) \/ Route(c) \/ CountExit(c)

ChildStep(c) == Connect(c) \/ SendEvent(c) \/ Leave(c)

\* What the outside gives a child to do.
Work(c) == Event(c) \/ PackageBlocks(c) \/ MissInterrupt(c)

ThreadStep ==
  /\ Alive
  /\ \/ SendInterrupt \/ MainStep \/ BoxofficeStep
     \/ \E c \in children : RouterStep(c) \/ ChildStep(c) \/ Work(c)

LifeNext ==
  \/ \E C \in SUBSET AllChildren : StartBoxoffice(C)
  \/ \E how \in {"exited", "aborted"} : Exit(how)
  \/ ThreadStep

LifeSpec == LifeInit /\ [][LifeNext]_lifeVars

\* Every thread runs, and z_router takes from its children in turn.  Signals
\* and work come as they like.
LifeFairness ==
  /\ WF_lifeVars(Alive /\ MainStep)
  /\ WF_lifeVars(Alive /\ BoxofficeStep)
  /\ \A c \in AllChildren :
       /\ WF_lifeVars(Alive /\ c \in children /\ RouterStep(c))
       /\ WF_lifeVars(Alive /\ c \in children /\ ChildStep(c))

-----------------------------------------------------------------------------
\* checkChildren's count means that every child is there: while the boxoffice
\* routes, no thread it opened is yet to subscribe to the broadcast
\* (boxoffice.cpp:237-254).
RoutesAllConnected ==
  boxoffice = "runRouter" => \A c \in children : child[c] # "spawned"

(* closeConnections waits for as many messages as there are children, but  *)
(* any message counts, and so does its own broadcast.                      *)

\* Whose exit the boxoffice has yet to receive, and whether the broadcast.
Outstanding ==
  { c \in children : child[c] # "ended" \/ "exit" \in { router[c][i] : i \in DOMAIN router[c] } }
    \cup { b \in {Bo} : Bo \in broadcast \/ main \notin {"awaiting", "done"} }

\* What closeConnections still waits for can still come, but for what was
\* received before and not counted: the process is only left waiting for ever
\* (heartbeats > 0, nothing outstanding) if that happened at least twice
\* (boxoffice.cpp:266-283, 338-344).
ExitsAccounted ==
  boxoffice = "closeConnections" =>
    heartbeats < Cardinality(Outstanding) + Cardinality(swallowed)

\* When main terminates the context no thread is left that uses it
\* (main.cpp:127-132).
MainIsLast ==
  main = "done" => boxoffice = "ended" /\ \A c \in children : child[c] = "ended"

(* Why a process that was told to end may not.                             *)

\* A child was not connected at the broadcast, or missed it.
Deaf ==
  /\ main = "awaiting"
  /\ \E c \in children :
       child[c] \in {"spawned", "running", "sending"} /\ c \notin broadcast

\* A child cannot send any more, and nobody reads.
Stuffed ==
  /\ boxoffice = "join"
  /\ \E c \in children : child[c] \in {"running", "sending"} /\ Len(router[c]) >= Hwm

\* The dispatcher cannot publish any more.
NoPublisher == \E c \in children : child[c] = "blocked"

\* The boxoffice waits for messages that nobody sends.
Starved ==
  /\ boxoffice = "closeConnections" /\ heartbeats > 0 /\ RouterEmpty
  /\ Bo \notin broadcast /\ \A c \in children : child[c] = "ended"

\* A process that gets the signal ends, unless one of these four happens: there
\* is no other way to hang (main.cpp:97-134).
EndsUnlessHindered ==
  main = "interrupting" ~>
    main = "done" \/ Deaf \/ Stuffed \/ NoPublisher \/ Starved
=============================================================================
