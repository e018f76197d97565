---------------------------- MODULE ProcessProofs ---------------------------
(***************************************************************************)
(* Proofs about Process, for every command line and every set of threads:  *)
(* the life cycle's types, that routing starts when every thread is there, *)
(* that the count of closeConnections is short of nothing but what was     *)
(* swallowed, and that main is the last to go.                             *)
(***************************************************************************)
EXTENDS Process, FiniteSetTheorems, TLAPS

-----------------------------------------------------------------------------
(* A process has the life of its threads, whatever it was configured with. *)

\* Every step of a process is a step of its life cycle, or leaves it alone.
LEMMA ProcessStep ==
  ASSUME [Next]_vars
  PROVE  [LifeNext]_lifeVars
<1>1. CASE main = "config" /\ Configure
  <2>1. PICK in \in Inputs : Start(in) \/ StartAborts(in) \/ StartFails(in)
    BY <1>1 DEF Configure
  <2>2. CASE Start(in)
    BY <2>2, ProcessAssumption DEF Start, LifeNext
  <2>3. CASE StartAborts(in) \/ StartFails(in)
    BY <2>3 DEF StartAborts, StartFails, LifeNext
  <2> QED BY <2>1, <2>2, <2>3
<1>2. CASE ThreadStep /\ UNCHANGED configVars
  BY <1>2 DEF LifeNext
<1>3. CASE UNCHANGED vars
  BY <1>3 DEF vars
<1> QED BY <1>1, <1>2, <1>3 DEF Next

\* What is configured decides which threads there are and nothing else: the
\* process implements the life cycle of any set of threads (main.cpp:53-134).
THEOREM ProcessIsLifecycle == Spec => LifeSpec
<1>1. Init => LifeInit
  BY DEF Init
<1> QED BY <1>1, ProcessStep, PTL DEF Spec, LifeSpec

-----------------------------------------------------------------------------
(* Queues of a child's messages.                                           *)

Signal == {"alive", "exit", "event"}

\* A child says once that it lives, before anything else.
AliveFirst(q) == \A i \in 2..Len(q) : q[i] # "alive"

HasExit(q) == "exit" \in { q[i] : i \in DOMAIN q }

LEMMA AppendQueue ==
  ASSUME NEW q \in Seq(Signal), NEW m \in Signal
  PROVE  /\ Append(q, m) \in Seq(Signal)
         /\ Append(q, m) # <<>>
         /\ Head(Append(q, m)) = IF q = <<>> THEN m ELSE Head(q)
         /\ AliveFirst(q) /\ (q = <<>> \/ m # "alive") => AliveFirst(Append(q, m))
         /\ HasExit(q) => HasExit(Append(q, m))
         /\ HasExit(Append(q, "exit"))
<1>1. /\ Append(q, m) \in Seq(Signal) /\ Append(q, m) # <<>>
      /\ Head(Append(q, m)) = IF q = <<>> THEN m ELSE Head(q)
  <2>1. Append(q, m) \in Seq(Signal) /\ Append(q, m) # <<>>
    <3>1. /\ Append(q, m) \in Seq(Signal)
          /\ Len(Append(q, m)) = Len(q) + 1 /\ Len(q) \in Nat
      OBVIOUS
    <3>2. Len(<<>>) = 0
      OBVIOUS
    <3> QED BY <3>1, <3>2
  <2>2. CASE q = <<>>
    BY <2>1, <2>2
  <2>3. CASE q # <<>>
    <3>1. Append(q, m)[1] = q[1]
      BY <2>3
    <3> QED BY <2>1, <2>3, <3>1
  <2> QED BY <2>1, <2>2, <2>3
<1>2. AliveFirst(q) /\ (q = <<>> \/ m # "alive") => AliveFirst(Append(q, m))
  BY DEF AliveFirst
<1>3. HasExit(q) => HasExit(Append(q, m))
  BY DEF HasExit
<1>4. HasExit(Append(q, "exit"))
  <2>1. /\ Len(q) + 1 \in DOMAIN Append(q, "exit")
        /\ Append(q, "exit")[Len(q) + 1] = "exit"
    BY DEF Signal
  <2> QED BY <2>1 DEF HasExit
<1> QED BY <1>1, <1>2, <1>3, <1>4

LEMMA TailQueue ==
  ASSUME NEW q \in Seq(Signal), q # <<>>
  PROVE  /\ Tail(q) \in Seq(Signal)
         /\ Head(q) \in Signal
         /\ AliveFirst(q) => AliveFirst(Tail(q))
         /\ AliveFirst(q) /\ Tail(q) # <<>> => Head(Tail(q)) # "alive"
         /\ HasExit(q) /\ Head(q) # "exit" => HasExit(Tail(q))
<1>1. /\ Tail(q) \in Seq(Signal) /\ Head(q) \in Signal
      /\ Len(Tail(q)) = Len(q) - 1 /\ Len(q) \in Nat /\ DOMAIN q = 1..Len(q)
      /\ DOMAIN Tail(q) = 1..(Len(q) - 1)
      /\ \A i \in 1..(Len(q) - 1) : Tail(q)[i] = q[i + 1]
  OBVIOUS
<1>2. AliveFirst(q) => AliveFirst(Tail(q))
  BY <1>1 DEF AliveFirst
<1>3. AliveFirst(q) /\ Tail(q) # <<>> => Head(Tail(q)) # "alive"
  BY <1>1 DEF AliveFirst
<1>4. ASSUME HasExit(q), Head(q) # "exit" PROVE HasExit(Tail(q))
  <2>1. PICK i \in 1..Len(q) : q[i] = "exit"
    BY <1>1, <1>4 DEF HasExit
  <2>2. i # 1
    BY <1>4, <2>1
  <2>3. i - 1 \in 1..(Len(q) - 1) /\ Tail(q)[i - 1] = "exit"
    BY <1>1, <2>1, <2>2
  <2> QED BY <1>1, <2>3 DEF HasExit
<1> QED BY <1>1, <1>2, <1>3, <1>4

-----------------------------------------------------------------------------
(* Types.                                                                  *)

LEMMA ExpectedType ==
  ASSUME LifeTypeOK
  PROVE  IsFiniteSet(children) /\ Expected \in Nat
BY LifecycleAssumption, FS_Subset, FS_CardinalityType DEF LifeTypeOK, Expected

LEMMA TypeStep ==
  ASSUME LifeTypeOK, [LifeNext]_lifeVars
  PROVE  LifeTypeOK'
<1> USE DEF LifeTypeOK
<1> DEFINE ChildState == {"none", "spawned", "running", "sending", "blocked", "ended"}
<1>1. ASSUME NEW C \in SUBSET AllChildren, StartBoxoffice(C) PROVE LifeTypeOK'
  BY <1>1 DEF StartBoxoffice, wires
<1>2. ASSUME NEW how \in {"exited", "aborted"}, Exit(how) PROVE LifeTypeOK'
  BY <1>2 DEF Exit, boVars, childVars, wires
<1>3. CASE SendInterrupt
  BY <1>3 DEF SendInterrupt, Disturb, boVars
<1>4. CASE MainStep
  BY <1>4 DEF MainStep, BroadcastInterrupt, MainReturns, Connected, boVars, childVars, wires
<1>5. CASE Setup
  <2>1. /\ boxoffice' \in {"checkChildren"} /\ heartbeats' \in Nat
        /\ UNCHANGED <<main, swallowed, children, events, pair, broadcast>>
    BY <1>5, ExpectedType DEF Setup
  <2>2. child' \in [AllChildren -> ChildState]
    BY <1>5 DEF Setup
  <2>3. router' \in [AllChildren -> Seq({"alive", "exit", "event"})]
    <3>1. <<"alive">> \in Seq({"alive", "exit", "event"})
      OBVIOUS
    <3> QED BY <1>5, <3>1 DEF Setup
  <2> QED BY <2>1, <2>2, <2>3
<1>6. CASE CheckInterrupted \/ AllConnected \/ RouteInterrupt \/ CountBroadcast \/ AllExited \/ Join
  <2>1. CASE CheckInterrupted \/ CountBroadcast
    BY <2>1, ExpectedType
       DEF CheckInterrupted, CountBroadcast, ReceiveBroadcast, ToCloseConnections, childVars
  <2>2. CASE RouteInterrupt
    BY <2>2, ExpectedType DEF RouteInterrupt, ToCloseConnections, childVars
  <2>3. CASE AllConnected \/ AllExited \/ Join
    BY <2>3 DEF AllConnected, AllExited, Join, childVars, wires
  <2> QED BY <1>6, <2>1, <2>2, <2>3
<1>7. ASSUME NEW c \in children, Receive(c)
      PROVE  /\ router' \in [AllChildren -> Seq({"alive", "exit", "event"})]
             /\ UNCHANGED <<main, children, child, events, pair, broadcast>>
  BY <1>7, TailQueue DEF Receive, Signal, childVars
<1>8. ASSUME NEW c \in children, RouterStep(c) PROVE LifeTypeOK'
  <2>1. Receive(c)
    BY <1>8 DEF RouterStep, CheckChild, Route, CountExit
  <2>2. swallowed' \subseteq AllChildren \cup {Bo}
    BY <1>8 DEF RouterStep, CheckChild, Route, CountExit, Swallow
  <2>3. heartbeats' \in Nat /\ boxoffice' \in {boxoffice, "closeConnections"}
    BY <1>8, ExpectedType
       DEF RouterStep, CheckChild, Route, CountExit, ToCloseConnections
  <2> QED BY <1>7, <2>1, <2>2, <2>3
<1>9. ASSUME NEW c \in children, NEW m \in Signal, Push(c, m)
      PROVE  router' \in [AllChildren -> Seq({"alive", "exit", "event"})]
  BY <1>9, AppendQueue DEF Push, Signal
<1>10. ASSUME NEW c \in children, ChildStep(c) PROVE LifeTypeOK'
  BY <1>9, <1>10 DEF ChildStep, Connect, SendEvent, Leave, Become, Signal, boVars
<1>11. ASSUME NEW c \in children, Work(c) PROVE LifeTypeOK'
  <2>1. events' \in Nat
    BY <1>11 DEF Work, Event, PackageBlocks, MissInterrupt, Disturb
  <2>2. child' \in [AllChildren -> ChildState]
    BY <1>11 DEF Work, Event, PackageBlocks, MissInterrupt, Become
  <2>3. router' \in [AllChildren -> Seq({"alive", "exit", "event"})]
    BY <1>9, <1>11 DEF Work, Event, PackageBlocks, MissInterrupt, Signal, wires
  <2>4. /\ UNCHANGED <<main, boxoffice, heartbeats, swallowed, children, pair>>
        /\ broadcast' \subseteq broadcast
    BY <1>11 DEF Work, Event, PackageBlocks, MissInterrupt, boVars, wires
  <2> QED BY <2>1, <2>2, <2>3, <2>4
<1>12. CASE UNCHANGED lifeVars
  BY <1>12 DEF lifeVars, boVars, childVars, wires
<1> QED
  BY <1>1, <1>2, <1>3, <1>4, <1>5, <1>6, <1>8, <1>10, <1>11, <1>12
     DEF LifeNext, ThreadStep, BoxofficeStep

-----------------------------------------------------------------------------
(* The inductive invariant.                                                *)

\* Threads exist only after setup.
NotBeforeSetup ==
  /\ main = "config" => boxoffice = "none"
  /\ boxoffice \in {"none", "setup"} => \A c \in AllChildren : child[c] = "none"

Queues ==
  \A c \in AllChildren :
    /\ child[c] \in {"none", "spawned"} => router[c] = <<>>
    /\ AliveFirst(router[c])

\* Who has not been heard of yet.
Silent ==
  { c \in children :
      child[c] = "spawned" \/ (router[c] # <<>> /\ Head(router[c]) = "alive") }

CountsSilent == boxoffice = "checkChildren" => heartbeats = Cardinality(Silent)

\* Nothing is received unnoticed before closeConnections.
NothingLost ==
  boxoffice \in {"setup", "checkChildren", "runRouter"} =>
    children \cup {Bo} \subseteq Outstanding \cup swallowed

JoinedAll ==
  /\ boxoffice = "ended" => \A c \in children : child[c] = "ended"
  /\ main = "done" => boxoffice = "ended"

LifeInv ==
  /\ LifeTypeOK
  /\ NotBeforeSetup
  /\ Queues
  /\ CountsSilent
  /\ RoutesAllConnected
  /\ NothingLost
  /\ ExitsAccounted
  /\ JoinedAll

-----------------------------------------------------------------------------
(* What a step can do to threads and to the boxoffice.                     *)

\* After setup no thread appears and none comes back.
LEMMA ThreadsAdvance ==
  ASSUME LifeTypeOK, [LifeNext]_lifeVars, ~Setup, NEW c \in AllChildren
  PROVE  /\ child[c] = "none" => child'[c] = "none"
         /\ child[c] = "ended" => child'[c] = "ended"
         /\ child'[c] = "spawned" => child[c] = "spawned"
<1> USE DEF LifeTypeOK
<1>1. ASSUME NEW d \in children, ChildStep(d) \/ Work(d)
      PROVE  /\ child[c] = "none" => child'[c] = "none"
             /\ child[c] = "ended" => child'[c] = "ended"
             /\ child'[c] = "spawned" => child[c] = "spawned"
  BY <1>1 DEF ChildStep, Work, Connect, SendEvent, Leave, Event, PackageBlocks,
              MissInterrupt, Become
<1>2. ASSUME ~ \E d \in children : ChildStep(d) \/ Work(d)
      PROVE  child' = child
  BY <1>2 DEF LifeNext, ThreadStep, StartBoxoffice, Exit, SendInterrupt, MainStep,
              BroadcastInterrupt, MainReturns, BoxofficeStep, CheckInterrupted,
              AllConnected, RouteInterrupt, CountBroadcast, AllExited, Join,
              ReceiveBroadcast, RouterStep, CheckChild, Route, CountExit, Receive,
              boVars, childVars, lifeVars
<1> QED BY <1>1, <1>2

\* Which step takes the boxoffice where.
LEMMA BoxofficeMoves ==
  ASSUME LifeTypeOK, [LifeNext]_lifeVars, boxoffice' # boxoffice
  PROVE  \/ boxoffice' = "setup" /\ \E C \in SUBSET AllChildren : StartBoxoffice(C)
         \/ boxoffice' = "checkChildren" /\ Setup
         \/ boxoffice' = "runRouter" /\ AllConnected
         \/ boxoffice' = "closeConnections" /\ (RouteInterrupt \/ CheckInterrupted)
         \/ boxoffice' = "closeConnections" /\ \E c \in children : CheckChild(c) \/ Route(c)
         \/ boxoffice' = "join" /\ AllExited
         \/ boxoffice' = "ended" /\ Join
<1>1. ASSUME NEW c \in children, ChildStep(c) \/ Work(c) PROVE FALSE
  BY <1>1 DEF ChildStep, Work, Connect, SendEvent, Leave, Event, PackageBlocks,
              MissInterrupt, boVars
<1>2. ~UNCHANGED lifeVars
  BY DEF lifeVars, boVars
<1>3. ~(SendInterrupt \/ MainStep)
  BY DEF SendInterrupt, MainStep, BroadcastInterrupt, MainReturns, boVars
<1>4. ~ \E how \in {"exited", "aborted"} : Exit(how)
  BY DEF Exit, boVars
<1>5. ASSUME NEW c \in children, RouterStep(c)
      PROVE  boxoffice' = "closeConnections" /\ (CheckChild(c) \/ Route(c))
  BY <1>5 DEF RouterStep, CheckChild, Route, CountExit, ToCloseConnections
<1>6. CASE BoxofficeStep
  BY <1>6 DEF BoxofficeStep, Setup, CheckInterrupted, AllConnected, RouteInterrupt,
              CountBroadcast, AllExited, Join, ToCloseConnections
<1>7. ASSUME NEW C \in SUBSET AllChildren, StartBoxoffice(C) PROVE boxoffice' = "setup"
  BY <1>7 DEF StartBoxoffice
<1> QED BY <1>1, <1>2, <1>3, <1>4, <1>5, <1>6, <1>7 DEF LifeNext, ThreadStep

LEMMA StartSteps ==
  ASSUME LifeInv, [LifeNext]_lifeVars
  PROVE  NotBeforeSetup'
<1>1. main' = "config" => main = "config" /\ boxoffice' = boxoffice
  <2>1. ASSUME ThreadStep PROVE main' # "config"
    <3>1. main # "config"
      BY <2>1 DEF ThreadStep, Alive
    <3>2. ASSUME NEW c \in children, RouterStep(c) \/ ChildStep(c) \/ Work(c)
          PROVE  main' = main
      BY <3>2 DEF RouterStep, ChildStep, Work, CheckChild, Route, CountExit, Receive,
                  Connect, SendEvent, Leave, Event, PackageBlocks, MissInterrupt
    <3>3. ASSUME BoxofficeStep PROVE main' = main
      BY <3>3 DEF BoxofficeStep, Setup, CheckInterrupted, AllConnected, RouteInterrupt,
                  CountBroadcast, AllExited, Join, ReceiveBroadcast
    <3>4. ASSUME SendInterrupt \/ MainStep PROVE main' # "config"
      BY <3>4 DEF SendInterrupt, MainStep, BroadcastInterrupt, MainReturns
    <3> QED BY <2>1, <3>1, <3>2, <3>3, <3>4 DEF ThreadStep
  <2>2. ASSUME NEW C \in SUBSET AllChildren, StartBoxoffice(C) PROVE main' # "config"
    BY <2>2 DEF StartBoxoffice
  <2>3. ASSUME NEW how \in {"exited", "aborted"}, Exit(how) PROVE main' # "config"
    BY <2>3 DEF Exit
  <2>4. CASE UNCHANGED lifeVars
    BY <2>4 DEF lifeVars, boVars
  <2> QED BY <2>1, <2>2, <2>3, <2>4 DEF LifeNext
<1>2. boxoffice' \in {"none", "setup"} =>
        boxoffice \in {"none", "setup"} /\ ~Setup
  <2>1. CASE boxoffice' = boxoffice
    BY <2>1 DEF Setup
  <2>2. CASE boxoffice' # boxoffice
    BY <2>2, BoxofficeMoves DEF LifeInv, NotBeforeSetup, StartBoxoffice, Setup
  <2> QED BY <2>1, <2>2
<1> QED BY <1>1, <1>2, ThreadsAdvance DEF LifeInv, NotBeforeSetup

\* children is chosen when main opens the boxoffice, and never again.
LEMMA SameChildren ==
  ASSUME LifeInv, [LifeNext]_lifeVars
  PROVE  children' = children \/ boxoffice' = "setup"
<1>1. ASSUME NEW c \in children, RouterStep(c) \/ ChildStep(c) \/ Work(c)
      PROVE  children' = children
  BY <1>1 DEF RouterStep, ChildStep, Work, CheckChild, Route, CountExit, Receive,
              Connect, SendEvent, Leave, Event, PackageBlocks, MissInterrupt, childVars
<1>2. ASSUME BoxofficeStep PROVE children' = children
  BY <1>2 DEF BoxofficeStep, Setup, CheckInterrupted, AllConnected, RouteInterrupt,
              CountBroadcast, AllExited, Join, ReceiveBroadcast, childVars
<1>3. ASSUME SendInterrupt \/ MainStep PROVE children' = children
  BY <1>3 DEF SendInterrupt, MainStep, BroadcastInterrupt, MainReturns, childVars
<1>4. ASSUME NEW C \in SUBSET AllChildren, StartBoxoffice(C) PROVE boxoffice' = "setup"
  BY <1>4 DEF StartBoxoffice
<1>5. ASSUME NEW how \in {"exited", "aborted"}, Exit(how) PROVE children' = children
  BY <1>5 DEF Exit, childVars
<1>6. CASE UNCHANGED lifeVars
  BY <1>6 DEF lifeVars, childVars
<1> QED BY <1>1, <1>2, <1>3, <1>4, <1>5, <1>6 DEF LifeNext, ThreadStep

LEMMA JoinSteps ==
  ASSUME LifeInv, [LifeNext]_lifeVars
  PROVE  JoinedAll'
<1> USE DEF LifeInv, LifeTypeOK
<1>1. ASSUME boxoffice' = "ended" PROVE \A c \in children' : child'[c] = "ended"
  <2>1. children' = children /\ ~Setup
    BY <1>1, SameChildren DEF Setup
  <2>2. \A c \in children : child[c] = "ended"
    BY <1>1, BoxofficeMoves DEF JoinedAll, Join
  <2> QED BY <2>1, <2>2, ThreadsAdvance
<1>2. ASSUME main' = "done" PROVE boxoffice' = "ended"
  <2>1. main = "done" \/ MainReturns
    <3>1. ASSUME NEW c \in children, RouterStep(c) \/ ChildStep(c) \/ Work(c)
          PROVE  main' = main
      BY <3>1 DEF RouterStep, ChildStep, Work, CheckChild, Route, CountExit, Receive,
                  Connect, SendEvent, Leave, Event, PackageBlocks, MissInterrupt
    <3>2. ASSUME BoxofficeStep PROVE main' = main
      BY <3>2 DEF BoxofficeStep, Setup, CheckInterrupted, AllConnected, RouteInterrupt,
                  CountBroadcast, AllExited, Join, ReceiveBroadcast
    <3>3. ASSUME SendInterrupt \/ BroadcastInterrupt PROVE main' # "done"
      BY <3>3 DEF SendInterrupt, BroadcastInterrupt
    <3>4. ASSUME NEW C \in SUBSET AllChildren, StartBoxoffice(C) PROVE main' # "done"
      BY <3>4 DEF StartBoxoffice
    <3>5. ASSUME NEW how \in {"exited", "aborted"}, Exit(how) PROVE main' # "done"
      BY <3>5 DEF Exit
    <3>6. CASE UNCHANGED lifeVars
      BY <1>2, <3>6 DEF lifeVars
    <3> QED BY <1>2, <3>1, <3>2, <3>3, <3>4, <3>5, <3>6 DEF LifeNext, ThreadStep, MainStep
  <2>2. boxoffice = "ended"
    BY <2>1 DEF JoinedAll, MainReturns
  <2> QED BY <2>2, BoxofficeMoves DEF StartBoxoffice, NotBeforeSetup, Setup, AllConnected,
       RouteInterrupt, CheckInterrupted, CheckChild, Route, AllExited, Join
<1> QED BY <1>1, <1>2 DEF JoinedAll

-----------------------------------------------------------------------------
(* checkChildren counts right.                                             *)

\* Only the boxoffice, receiving, and the children themselves change a queue.
LEMMA QuietSteps ==
  ASSUME LifeTypeOK, [LifeNext]_lifeVars, ~Setup,
         ~ \E c \in children : RouterStep(c) \/ ChildStep(c) \/ Work(c)
  PROVE  UNCHANGED <<child, router>>
BY DEF LifeNext, ThreadStep, StartBoxoffice, Exit, SendInterrupt, MainStep,
       BroadcastInterrupt, MainReturns, BoxofficeStep, CheckInterrupted, AllConnected,
       RouteInterrupt, CountBroadcast, AllExited, Join, ReceiveBroadcast,
       boVars, childVars, wires, lifeVars

LEMMA RouterSteps ==
  ASSUME LifeTypeOK, NEW c \in children, RouterStep(c)
  PROVE  /\ router[c] # <<>>
         /\ router' = [router EXCEPT ![c] = Tail(@)]
         /\ UNCHANGED <<main, children, child, broadcast>>
BY DEF RouterStep, CheckChild, Route, CountExit, Receive, childVars

\* What a child does: it says that it lives, or something later, or nothing.
LEMMA ChildSteps ==
  ASSUME LifeTypeOK, NEW c \in children, ChildStep(c) \/ Work(c)
  PROVE  /\ child' = [child EXCEPT ![c] = child'[c]]
         /\ child'[c] \notin {"none", "spawned"}
         /\ \/ router' = router /\ child[c] \notin {"none", "spawned"} /\ child'[c] # "ended"
            \/ router' = [router EXCEPT ![c] = Append(@, "alive")]
                 /\ child[c] = "spawned" /\ child'[c] = "running"
            \/ router' = [router EXCEPT ![c] = Append(@, "event")]
                 /\ child[c] \notin {"none", "spawned"} /\ child'[c] = "running"
            \/ router' = [router EXCEPT ![c] = Append(@, "exit")]
                 /\ child[c] \notin {"none", "spawned"}
         /\ UNCHANGED <<main, boxoffice, heartbeats, swallowed, children>>
<1> USE DEF LifeTypeOK
<1>1. c \in AllChildren
  OBVIOUS
<1>2. CASE ChildStep(c)
  BY <1>1, <1>2 DEF ChildStep, Connect, SendEvent, Leave, Become, Push, boVars
<1>3. CASE Event(c)
  BY <1>1, <1>3 DEF Event, Become, Push, boVars
<1>4. CASE PackageBlocks(c) \/ MissInterrupt(c)
  BY <1>1, <1>4 DEF PackageBlocks, MissInterrupt, Become, boVars, wires
<1> QED BY <1>2, <1>3, <1>4 DEF Work

LEMMA QueueSteps ==
  ASSUME LifeInv, [LifeNext]_lifeVars
  PROVE  Queues'
<1> USE DEF LifeInv, LifeTypeOK
<1> SUFFICES ASSUME NEW d \in AllChildren
             PROVE  /\ child'[d] \in {"none", "spawned"} => router'[d] = <<>>
                    /\ AliveFirst(router'[d])
  BY DEF Queues
<1>0. router[d] \in Seq(Signal)
  BY DEF Signal
<1>1. CASE Setup
  <2>1. child[d] = "none" /\ router[d] = <<>>
    BY <1>1 DEF Setup, NotBeforeSetup, Queues
  <2>2. AliveFirst(<<>>) /\ AliveFirst(<<"alive">>)
    BY DEF AliveFirst
  <2> QED BY <1>1, <2>1, <2>2 DEF Setup
<1>2. ASSUME NEW c \in children, RouterStep(c)
      PROVE  /\ child'[d] \in {"none", "spawned"} => router'[d] = <<>>
             /\ AliveFirst(router'[d])
  <2>1. /\ router[c] # <<>> /\ child' = child
        /\ router' = [router EXCEPT ![c] = Tail(@)]
    BY <1>2, RouterSteps
  <2>2. CASE c = d
    BY <1>0, <2>1, <2>2, TailQueue DEF Queues
  <2>3. CASE c # d
    BY <2>1, <2>3 DEF Queues
  <2> QED BY <2>2, <2>3
<1>3. ASSUME NEW c \in children, ChildStep(c) \/ Work(c)
      PROVE  /\ child'[d] \in {"none", "spawned"} => router'[d] = <<>>
             /\ AliveFirst(router'[d])
  <2>1. CASE c # d
    <3>1. child'[d] = child[d] /\ router'[d] = router[d]
      BY <1>3, <2>1, ChildSteps
    <3> QED BY <3>1 DEF Queues
  <2>2. CASE c = d
    <3>1. child'[d] \notin {"none", "spawned"}
      BY <1>3, <2>2, ChildSteps
    <3>2. \/ router'[d] = router[d]
          \/ router'[d] = Append(router[d], "alive") /\ router[d] = <<>>
          \/ router'[d] = Append(router[d], "event")
          \/ router'[d] = Append(router[d], "exit")
      BY <1>3, <2>2, ChildSteps DEF Queues
    <3>3. AliveFirst(router'[d])
      BY <1>0, <3>2, AppendQueue DEF Queues, Signal
    <3> QED BY <3>1, <3>3
  <2> QED BY <2>1, <2>2
<1>4. CASE UNCHANGED <<child, router>>
  BY <1>4 DEF Queues
<1> QED BY <1>1, <1>2, <1>3, <1>4, QuietSteps

LEMMA SilentSteps ==
  ASSUME LifeInv, [LifeNext]_lifeVars
  PROVE  CountsSilent'
<1> USE DEF LifeInv, LifeTypeOK
<1> SUFFICES ASSUME boxoffice' = "checkChildren"
             PROVE  heartbeats' = Cardinality(Silent')
  BY DEF CountsSilent
<1>0. children' = children
  BY SameChildren
<1>1. CASE Setup
  <2>1. \A c \in children :
          child'[c] = "spawned" \/ (router'[c] # <<>> /\ Head(router'[c]) = "alive")
    BY <1>1 DEF Setup
  <2>2. Silent' = children
    BY <1>0, <2>1 DEF Silent
  <2> QED BY <1>1, <2>2 DEF Setup, Expected
<1>2. ASSUME ~Setup PROVE boxoffice = "checkChildren" /\ heartbeats = Cardinality(Silent)
  BY <1>2, BoxofficeMoves DEF CountsSilent
<1>3. ASSUME NEW c \in children, RouterStep(c), ~Setup
      PROVE  heartbeats' = Cardinality(Silent')
  <2>1. Head(router[c]) = "alive" /\ heartbeats' = heartbeats - 1
    BY <1>2, <1>3 DEF RouterStep, CheckChild, Route, CountExit, ToCloseConnections
  <2>2. /\ router[c] # <<>> /\ child' = child
        /\ router' = [router EXCEPT ![c] = Tail(@)]
    BY <1>3, RouterSteps
  <2>3. router[c] \in Seq(Signal) /\ AliveFirst(router[c])
    BY DEF Signal, Queues
  <2>4. /\ child[c] # "spawned"
        /\ Tail(router[c]) # <<>> => Head(Tail(router[c])) # "alive"
    BY <2>2, <2>3, TailQueue DEF Queues
  <2>5. Silent' = Silent \ {c}
    BY <1>0, <2>2, <2>4 DEF Silent
  <2>6. c \in Silent
    BY <2>1, <2>2 DEF Silent
  <2>7. IsFiniteSet(Silent)
    BY ExpectedType, FS_Subset DEF Silent
  <2> QED BY <1>2, <1>3, <2>1, <2>5, <2>6, <2>7, FS_RemoveElement
<1>4. ASSUME NEW c \in children, ChildStep(c) \/ Work(c), ~Setup
      PROVE  heartbeats' = Cardinality(Silent')
  <2>1. /\ child' = [child EXCEPT ![c] = child'[c]]
        /\ child'[c] \notin {"none", "spawned"}
        /\ heartbeats' = heartbeats
    BY <1>4, ChildSteps
  <2>2. router[c] \in Seq(Signal)
    BY DEF Signal
  <2>3. \A d \in children \ {c} : child'[d] = child[d] /\ router'[d] = router[d]
    BY <1>4, ChildSteps
  <2>4. CASE child[c] = "spawned"
    <3>1. router[c] = <<>>
      BY <2>4 DEF Queues
    <3>2. router'[c] = Append(router[c], "alive")
      BY <1>4, <2>4, ChildSteps
    <3>3. router'[c] # <<>> /\ Head(router'[c]) = "alive"
      BY <3>1, <3>2
    <3>4. Silent' = Silent
      BY <1>0, <2>3, <2>4, <3>3 DEF Silent
    <3> QED BY <1>2, <1>4, <2>1, <3>4
  <2>5. CASE child[c] # "spawned"
    <3>1. \/ router'[c] = router[c]
          \/ router'[c] = Append(router[c], "event")
          \/ router'[c] = Append(router[c], "exit")
      BY <1>4, <2>5, ChildSteps
    <3>2. (router'[c] # <<>> /\ Head(router'[c]) = "alive")
            <=> (router[c] # <<>> /\ Head(router[c]) = "alive")
      <4>1. ASSUME NEW m \in {"event", "exit"}, router'[c] = Append(router[c], m)
            PROVE  /\ router'[c] # <<>>
                   /\ Head(router'[c]) = IF router[c] = <<>> THEN m ELSE Head(router[c])
        BY <2>2, <4>1, AppendQueue DEF Signal
      <4> QED BY <3>1, <4>1
    <3>3. Silent' = Silent
      BY <1>0, <2>1, <2>3, <2>5, <3>2 DEF Silent
    <3> QED BY <1>2, <1>4, <2>1, <3>3
  <2> QED BY <2>4, <2>5
<1>5. ASSUME ~Setup, ~ \E c \in children : RouterStep(c) \/ ChildStep(c) \/ Work(c)
      PROVE  heartbeats' = Cardinality(Silent')
  <2>1. UNCHANGED <<child, router>>
    BY <1>5, QuietSteps
  <2>2. Silent' = Silent
    BY <1>0, <2>1 DEF Silent
  <2>3. heartbeats' = heartbeats
    BY <1>2, <1>5
       DEF LifeNext, ThreadStep, StartBoxoffice, Exit, SendInterrupt, MainStep,
           BroadcastInterrupt, MainReturns, BoxofficeStep, CheckInterrupted, AllConnected,
           RouteInterrupt, CountBroadcast, AllExited, Join, ToCloseConnections,
           boVars, lifeVars
  <2> QED BY <1>2, <1>5, <2>2, <2>3
<1> QED BY <1>1, <1>3, <1>4, <1>5

LEMMA ConnectedSteps ==
  ASSUME LifeInv, [LifeNext]_lifeVars
  PROVE  RoutesAllConnected'
<1> USE DEF LifeInv, LifeTypeOK
<1> SUFFICES ASSUME boxoffice' = "runRouter"
             PROVE  \A c \in children : child'[c] # "spawned"
  BY SameChildren DEF RoutesAllConnected
<1>1. ~Setup
  BY DEF Setup
<1>2. \A c \in children : child[c] # "spawned"
  <2>1. CASE boxoffice = "runRouter"
    BY <2>1 DEF RoutesAllConnected
  <2>2. CASE boxoffice # "runRouter"
    <3>1. AllConnected
      BY <2>2, BoxofficeMoves
    <3>2. Cardinality(Silent) = 0
      BY <3>1 DEF AllConnected, CountsSilent
    <3>3. IsFiniteSet(Silent)
      BY ExpectedType, FS_Subset DEF Silent
    <3>4. Silent = {}
      BY <3>2, <3>3, FS_EmptySet
    <3> QED BY <3>4 DEF Silent
  <2> QED BY <2>1, <2>2
<1> QED BY <1>1, <1>2, ThreadsAdvance

-----------------------------------------------------------------------------
(* closeConnections counts right, but for what was swallowed.              *)

LEMMA OutstandingIs ==
  ASSUME Bo \notin children
  PROVE  /\ \A c \in children : c \in Outstanding <=> child[c] # "ended" \/ HasExit(router[c])
         /\ Bo \in Outstanding <=> Bo \in broadcast \/ main \notin {"awaiting", "done"}
         /\ Outstanding \subseteq children \cup {Bo}
BY DEF Outstanding, HasExit

\* The same of the next state.
LEMMA OutstandingNext ==
  ASSUME Bo \notin children'
  PROVE  /\ \A c \in children' :
              c \in Outstanding' <=> child'[c] # "ended" \/ HasExit(router'[c])
         /\ Bo \in Outstanding' <=> Bo \in broadcast' \/ main' \notin {"awaiting", "done"}
BY DEF Outstanding, HasExit

LEMMA OutstandingFinite ==
  ASSUME LifeTypeOK
  PROVE  IsFiniteSet(Outstanding) /\ IsFiniteSet(swallowed)
<1>1. IsFiniteSet(AllChildren \cup {Bo})
  BY LifecycleAssumption, FS_AddElement
<1>2. Outstanding \subseteq AllChildren \cup {Bo}
  BY OutstandingIs, LifecycleAssumption DEF LifeTypeOK
<1> QED BY <1>1, <1>2, FS_Subset DEF LifeTypeOK

\* The boxoffice takes no more than the exit of the child it hears.
LEMMA OutstandingReceived ==
  ASSUME LifeTypeOK, NEW c \in children, RouterStep(c)
  PROVE  /\ Outstanding \ {c} \subseteq Outstanding'
         /\ Head(router[c]) # "exit" => Outstanding \subseteq Outstanding'
<1> USE DEF LifeTypeOK
<1>1. /\ router[c] # <<>> /\ router' = [router EXCEPT ![c] = Tail(@)]
      /\ UNCHANGED <<main, children, child, broadcast>>
  BY RouterSteps
<1>2. Bo \notin children /\ Bo \notin children'
  BY <1>1, LifecycleAssumption
<1>3. ASSUME NEW d \in children \ {c}, d \in Outstanding PROVE d \in Outstanding'
  <2>1. child'[d] = child[d] /\ router'[d] = router[d]
    BY <1>1
  <2> QED BY <1>1, <1>2, <1>3, <2>1, OutstandingIs, OutstandingNext
<1>4. Bo \in Outstanding => Bo \in Outstanding'
  BY <1>1, <1>2, OutstandingIs, OutstandingNext
<1>5. ASSUME Head(router[c]) # "exit", c \in Outstanding PROVE c \in Outstanding'
  <2>1. router[c] \in Seq(Signal)
    BY DEF Signal
  <2>2. HasExit(router[c]) => HasExit(Tail(router[c]))
    BY <1>1, <1>5, <2>1, TailQueue
  <2>3. router'[c] = Tail(router[c])
    BY <1>1
  <2> QED BY <1>1, <1>2, <1>5, <2>2, <2>3, OutstandingIs, OutstandingNext
<1> QED BY <1>2, <1>3, <1>4, <1>5, OutstandingIs

\* Before join, nothing else takes away what is outstanding.
LEMMA OutstandingKept ==
  ASSUME LifeInv, [LifeNext]_lifeVars, boxoffice \notin {"none", "join", "ended"},
         ~ \E c \in children : RouterStep(c)
  PROVE  /\ Outstanding \ {Bo} \subseteq Outstanding'
         /\ ~(CheckInterrupted \/ CountBroadcast \/ AllExited) => Outstanding \subseteq Outstanding'
<1> USE DEF LifeInv, LifeTypeOK
<1>0. children' = children /\ Bo \notin children /\ Bo \notin children'
  <2>1. boxoffice' = "setup" => children' = children
    BY BoxofficeMoves
       DEF NotBeforeSetup, StartBoxoffice, LifeNext, ThreadStep, Exit, SendInterrupt,
           MainStep, BroadcastInterrupt, MainReturns, BoxofficeStep, Setup, AllConnected,
           CheckInterrupted, RouteInterrupt, CountBroadcast, AllExited, Join,
           ReceiveBroadcast, ChildStep, Work, Connect, SendEvent, Leave, Event,
           PackageBlocks, MissInterrupt, ToCloseConnections, childVars, lifeVars
  <2> QED BY <2>1, SameChildren, LifecycleAssumption
<1>1. ASSUME NEW c \in children, ChildStep(c) \/ Work(c) PROVE Outstanding \subseteq Outstanding'
  <2>1. ASSUME NEW d \in children \ {c}, d \in Outstanding PROVE d \in Outstanding'
    <3>1. child'[d] = child[d] /\ router'[d] = router[d]
      BY <1>1, ChildSteps
    <3> QED BY <1>0, <2>1, <3>1, OutstandingIs, OutstandingNext
  <2>2. c \in Outstanding'
    <3>1. child'[c] # "ended" \/ router'[c] = Append(router[c], "exit")
      BY <1>1, ChildSteps
    <3>2. HasExit(Append(router[c], "exit"))
      BY AppendQueue DEF Signal
    <3> QED BY <1>0, <3>1, <3>2, OutstandingNext
  <2>3. main' = main /\ broadcast \ {c} \subseteq broadcast'
    BY <1>1 DEF ChildStep, Work, Connect, SendEvent, Leave, Event, PackageBlocks,
                MissInterrupt, wires
  <2>4. Bo \in Outstanding => Bo \in Outstanding'
    BY <1>0, <2>3, OutstandingIs, OutstandingNext
  <2> QED BY <1>0, <2>1, <2>2, <2>4, OutstandingIs
<1>2. CASE Setup
  <2>1. \A c \in children : child'[c] # "ended"
    BY <1>2 DEF Setup
  <2>2. main' = main /\ broadcast' = broadcast
    BY <1>2 DEF Setup
  <2> QED BY <1>0, <2>1, <2>2, OutstandingIs, OutstandingNext
<1>3. ASSUME ~Setup, ~ \E c \in children : ChildStep(c) \/ Work(c)
      PROVE  /\ Outstanding \ {Bo} \subseteq Outstanding'
             /\ ~(CheckInterrupted \/ CountBroadcast \/ AllExited) => Outstanding \subseteq Outstanding'
  <2>1. UNCHANGED <<child, router>>
    BY <1>3, QuietSteps
  <2>2. Outstanding \ {Bo} \subseteq Outstanding'
    BY <1>0, <2>1, OutstandingIs, OutstandingNext
  <2>3. ASSUME ~(CheckInterrupted \/ CountBroadcast \/ AllExited)
        PROVE  \/ Bo \in broadcast'
               \/ main' \notin {"awaiting", "done"}
               \/ main' = main /\ broadcast' = broadcast
    <3>1. CASE SendInterrupt \/ MainStep
      BY <3>1 DEF SendInterrupt, MainStep, BroadcastInterrupt, MainReturns
    <3>2. CASE BoxofficeStep
      BY <1>3, <2>3, <3>2 DEF BoxofficeStep, AllConnected, RouteInterrupt, Join, wires
    <3>3. ASSUME NEW C \in SUBSET AllChildren, StartBoxoffice(C)
          PROVE  main' \notin {"awaiting", "done"}
      BY <3>3 DEF StartBoxoffice
    <3>4. ASSUME NEW how \in {"exited", "aborted"}, Exit(how)
          PROVE  main' \notin {"awaiting", "done"}
      BY <3>4 DEF Exit
    <3>5. CASE UNCHANGED lifeVars
      BY <3>5 DEF lifeVars, wires
    <3> QED BY <1>3, <3>1, <3>2, <3>3, <3>4, <3>5 DEF LifeNext, ThreadStep
  <2>4. ASSUME ~(CheckInterrupted \/ CountBroadcast \/ AllExited), Bo \in Outstanding
        PROVE  Bo \in Outstanding'
    BY <1>0, <2>3, <2>4, OutstandingIs, OutstandingNext
  <2> QED BY <2>2, <2>4
<1> QED BY <1>1, <1>2, <1>3

\* While threads start and events are routed, an exit or a broadcast that is
\* received is at least noted as swallowed.
LEMMA SwallowedIsNoted ==
  ASSUME LifeInv, [LifeNext]_lifeVars,
         boxoffice \in {"setup", "checkChildren", "runRouter"}
  PROVE  children \cup {Bo} \subseteq Outstanding' \cup swallowed'
<1> USE DEF LifeInv
<1>0. children \cup {Bo} \subseteq Outstanding \cup swallowed
  BY DEF NothingLost
<1>1. ASSUME NEW c \in children, RouterStep(c)
      PROVE  children \cup {Bo} \subseteq Outstanding' \cup swallowed'
  <2>1. swallowed' = IF Head(router[c]) = "exit" THEN swallowed \cup {c} ELSE swallowed
    BY <1>1 DEF RouterStep, CheckChild, Route, CountExit, Swallow
  <2> QED BY <1>0, <1>1, <2>1, OutstandingReceived
<1>2. CASE CheckInterrupted
  <2>1. swallowed' = swallowed \cup {Bo} /\ UNCHANGED <<children, child, router>>
    BY <1>2 DEF CheckInterrupted, ReceiveBroadcast, childVars
  <2>2. Bo \notin children /\ Bo \notin children'
    BY <2>1, LifecycleAssumption DEF LifeTypeOK
  <2>3. Outstanding \ {Bo} \subseteq Outstanding'
    BY <2>1, <2>2, OutstandingIs, OutstandingNext
  <2> QED BY <1>0, <2>1, <2>3
<1>3. ASSUME ~CheckInterrupted, ~ \E c \in children : RouterStep(c)
      PROVE  children \cup {Bo} \subseteq Outstanding' \cup swallowed'
  <2>1. ~CountBroadcast /\ ~AllExited
    BY DEF CountBroadcast, AllExited
  <2>2. Outstanding \subseteq Outstanding'
    BY <1>3, <2>1, OutstandingKept
  <2>3. swallowed' = swallowed
    BY <1>3, <2>1
       DEF LifeNext, ThreadStep, StartBoxoffice, Exit, SendInterrupt, MainStep,
           BroadcastInterrupt, MainReturns, BoxofficeStep, Setup, AllConnected,
           RouteInterrupt, Join, ChildStep, Work, Connect, SendEvent, Leave, Event,
           PackageBlocks, MissInterrupt, boVars, lifeVars
  <2> QED BY <1>0, <2>2, <2>3
<1> QED BY <1>1, <1>2, <1>3

LEMMA NothingLostSteps ==
  ASSUME LifeInv, [LifeNext]_lifeVars
  PROVE  NothingLost'
<1> USE DEF LifeInv
<1> SUFFICES ASSUME boxoffice' \in {"setup", "checkChildren", "runRouter"}
             PROVE  children' \cup {Bo} \subseteq Outstanding' \cup swallowed'
  BY DEF NothingLost
<1>1. CASE \E C \in SUBSET AllChildren : StartBoxoffice(C)
  <2>1. /\ children' \subseteq AllChildren /\ child' = child
        /\ main' = "waiting" /\ main = "config"
    BY <1>1 DEF StartBoxoffice
  <2>2. \A c \in children' : child'[c] # "ended"
    BY <2>1 DEF NotBeforeSetup
  <2>3. Bo \notin children'
    BY <2>1, LifecycleAssumption
  <2> QED BY <2>1, <2>2, <2>3, OutstandingNext
<1>2. ASSUME ~ \E C \in SUBSET AllChildren : StartBoxoffice(C)
      PROVE  children' \cup {Bo} \subseteq Outstanding' \cup swallowed'
  <2>1. boxoffice \in {"setup", "checkChildren", "runRouter"}
    BY <1>2, BoxofficeMoves DEF Setup, AllConnected
  <2>2. children' = children
    BY <1>2 DEF LifeNext, ThreadStep, Exit, SendInterrupt, MainStep, BroadcastInterrupt,
                MainReturns, BoxofficeStep, Setup, AllConnected, CheckInterrupted,
                RouteInterrupt, CountBroadcast, AllExited, Join, ReceiveBroadcast,
                RouterStep, CheckChild, Route, CountExit, Receive, ChildStep, Work,
                Connect, SendEvent, Leave, Event, PackageBlocks, MissInterrupt,
                childVars, lifeVars
  <2> QED BY <2>1, <2>2, SwallowedIsNoted
<1> QED BY <1>1, <1>2

\* One element at most goes: the sum of two cardinalities falls by one at most.
LEMMA LosesOne ==
  ASSUME NEW S, NEW T, NEW x, IsFiniteSet(S), IsFiniteSet(T), S \ {x} \subseteq T
  PROVE  /\ Cardinality(S) \in Nat /\ Cardinality(T) \in Nat
         /\ Cardinality(T) >= Cardinality(S) - 1
<1>0. Cardinality(S) \in Nat
  BY FS_CardinalityType
<1>1. IsFiniteSet(S \ {x}) /\ Cardinality(S \ {x}) >= Cardinality(S) - 1
  <2>1. /\ IsFiniteSet(S \ {x})
        /\ Cardinality(S \ {x}) = IF x \in S THEN Cardinality(S) - 1 ELSE Cardinality(S)
    BY FS_RemoveElement
  <2> QED BY <1>0, <2>1
<1>2. Cardinality(S \ {x}) <= Cardinality(T)
  BY FS_Subset
<1> QED BY <1>0, <1>1, <1>2, FS_CardinalityType

LEMMA ExitSteps ==
  ASSUME LifeInv, [LifeNext]_lifeVars
  PROVE  ExitsAccounted'
<1> USE DEF LifeInv
<1> SUFFICES ASSUME boxoffice' = "closeConnections"
             PROVE  heartbeats' < Cardinality(Outstanding') + Cardinality(swallowed')
  BY DEF ExitsAccounted
<1>0. LifeTypeOK'
  BY TypeStep
<1>1. /\ IsFiniteSet(Outstanding) /\ IsFiniteSet(swallowed)
      /\ IsFiniteSet(Outstanding') /\ IsFiniteSet(swallowed')
  <2>1. IsFiniteSet(AllChildren \cup {Bo})
    BY LifecycleAssumption, FS_AddElement
  <2>2. Outstanding' \subseteq AllChildren \cup {Bo} /\ swallowed' \subseteq AllChildren \cup {Bo}
    BY <1>0 DEF LifeTypeOK, Outstanding
  <2> QED BY <2>1, <2>2, OutstandingFinite, FS_Subset
<1>2. CASE boxoffice # "closeConnections"
  <2>1. /\ boxoffice \in {"setup", "checkChildren", "runRouter"}
        /\ heartbeats' = Expected
    BY <1>2, BoxofficeMoves
       DEF RouteInterrupt, CheckInterrupted, CheckChild, Route, ToCloseConnections
  <2>2. children \cup {Bo} \subseteq Outstanding' \cup swallowed'
    BY <2>1, SwallowedIsNoted
  <2>3. Cardinality(children \cup {Bo}) = heartbeats' + 1
    BY <2>1, ExpectedType, FS_AddElement, LifecycleAssumption DEF Expected, LifeTypeOK
  <2>4. /\ IsFiniteSet(Outstanding' \cup swallowed')
        /\ Cardinality(Outstanding' \cup swallowed')
             <= Cardinality(Outstanding') + Cardinality(swallowed')
    <3>1. IsFiniteSet(Outstanding' \cap swallowed')
      BY <1>1, FS_Subset
    <3>2. Cardinality(Outstanding' \cap swallowed') \in Nat
      BY <3>1, FS_CardinalityType
    <3>3. Cardinality(Outstanding') \in Nat /\ Cardinality(swallowed') \in Nat
      BY <1>1, FS_CardinalityType
    <3>4. /\ IsFiniteSet(Outstanding' \cup swallowed')
          /\ Cardinality(Outstanding' \cup swallowed')
               = Cardinality(Outstanding') + Cardinality(swallowed')
                   - Cardinality(Outstanding' \cap swallowed')
      BY <1>1, FS_Union
    <3> QED BY <3>2, <3>3, <3>4
  <2>5. Cardinality(children \cup {Bo}) <= Cardinality(Outstanding' \cup swallowed')
    BY <2>2, <2>4, FS_Subset
  <2>6. heartbeats' \in Nat
    BY <1>0 DEF LifeTypeOK
  <2> QED BY <1>1, <2>3, <2>4, <2>5, <2>6, FS_CardinalityType
<1>3. CASE boxoffice = "closeConnections"
  <2>0. /\ heartbeats < Cardinality(Outstanding) + Cardinality(swallowed)
        /\ heartbeats \in Nat /\ ~AllExited
    BY <1>3 DEF ExitsAccounted, LifeTypeOK, AllExited
  <2>1. ASSUME NEW x, heartbeats' = heartbeats - 1, swallowed' = swallowed,
               Outstanding \ {x} \subseteq Outstanding'
        PROVE  heartbeats' < Cardinality(Outstanding') + Cardinality(swallowed')
    <3>1. /\ Cardinality(Outstanding) \in Nat /\ Cardinality(Outstanding') \in Nat
          /\ Cardinality(Outstanding') >= Cardinality(Outstanding) - 1
      BY <1>1, <2>1, LosesOne
    <3>2. Cardinality(swallowed) \in Nat
      BY <1>1, FS_CardinalityType
    <3> QED BY <2>0, <2>1, <3>1, <3>2
  <2>2. ASSUME NEW c \in children, RouterStep(c)
        PROVE  heartbeats' < Cardinality(Outstanding') + Cardinality(swallowed')
    <3>1. heartbeats' = heartbeats - 1 /\ swallowed' = swallowed
      BY <1>3, <2>2 DEF RouterStep, CheckChild, Route, CountExit
    <3> QED BY <2>1, <2>2, <3>1, OutstandingReceived
  <2>3. ASSUME CountBroadcast, ~ \E c \in children : RouterStep(c)
        PROVE  heartbeats' < Cardinality(Outstanding') + Cardinality(swallowed')
    <3>1. heartbeats' = heartbeats - 1 /\ swallowed' = swallowed
      BY <2>3 DEF CountBroadcast
    <3> QED BY <1>3, <2>1, <2>3, <3>1, OutstandingKept
  <2>4. ASSUME ~CountBroadcast, ~ \E c \in children : RouterStep(c)
        PROVE  heartbeats' < Cardinality(Outstanding') + Cardinality(swallowed')
    <3>1. ~CheckInterrupted
      BY <1>3 DEF CheckInterrupted
    <3>2. Outstanding \subseteq Outstanding'
      BY <1>3, <2>0, <2>4, <3>1, OutstandingKept
    <3>3. heartbeats' = heartbeats /\ swallowed' = swallowed
      BY <1>3, <2>0, <2>4, <3>1
         DEF LifeNext, ThreadStep, StartBoxoffice, Exit, SendInterrupt, MainStep,
             BroadcastInterrupt, MainReturns, BoxofficeStep, Setup, AllConnected,
             RouteInterrupt, Join, ChildStep, Work, Connect, SendEvent, Leave, Event,
             PackageBlocks, MissInterrupt, NotBeforeSetup, boVars, lifeVars
    <3>4. Cardinality(Outstanding) <= Cardinality(Outstanding')
      BY <1>1, <3>2, FS_Subset
    <3> QED BY <1>1, <2>0, <3>3, <3>4, FS_CardinalityType
  <2> QED BY <2>2, <2>3, <2>4
<1> QED BY <1>2, <1>3

-----------------------------------------------------------------------------
(* The theorems.                                                           *)

LEMMA LifeInitially == LifeInit => LifeInv
<1> SUFFICES ASSUME LifeInit PROVE LifeInv
  OBVIOUS
<1>1. LifeTypeOK
  <2>1. <<>> \in Seq({"alive", "exit", "event"})
    OBVIOUS
  <2>2. pair \in BOOLEAN
    BY DEF LifeInit
  <2> QED BY <2>1, <2>2 DEF LifeInit, LifeTypeOK
<1>2. Queues
  BY DEF LifeInit, Queues, AliveFirst
<1>3. /\ NotBeforeSetup /\ CountsSilent /\ RoutesAllConnected
      /\ NothingLost /\ ExitsAccounted /\ JoinedAll
  BY DEF LifeInit, NotBeforeSetup, CountsSilent, RoutesAllConnected, NothingLost,
         ExitsAccounted, JoinedAll
<1> QED BY <1>1, <1>2, <1>3 DEF LifeInv

LEMMA LifeInductive ==
  ASSUME LifeInv, [LifeNext]_lifeVars
  PROVE  LifeInv'
<1>1. LifeTypeOK
  BY DEF LifeInv
<1> QED BY <1>1, TypeStep, StartSteps, QueueSteps, SilentSteps, ConnectedSteps, NothingLostSteps,
   ExitSteps, JoinSteps DEF LifeInv

LEMMA LifeInvariant == Spec => []LifeInv
BY ProcessIsLifecycle, LifeInitially, LifeInductive, PTL DEF LifeSpec

\* Every variable of the life cycle keeps its type; in particular no loop of
\* the boxoffice counts below zero (boxoffice.cpp:241-254, 271-278).
THEOREM LifeTypeCorrect == Spec => []LifeTypeOK
<1>1. LifeInv => LifeTypeOK
  BY DEF LifeInv
<1> QED BY <1>1, LifeInvariant, PTL

\* The boxoffice routes only when every thread it opened has subscribed to the
\* broadcast (boxoffice.cpp:237-254).
THEOREM RoutesCorrect == Spec => []RoutesAllConnected
<1>1. LifeInv => RoutesAllConnected
  BY DEF LifeInv
<1> QED BY <1>1, LifeInvariant, PTL

\* closeConnections waits for nothing that cannot come, but for what was
\* received before and not counted (boxoffice.cpp:266-283, 338-344).
THEOREM ExitsCorrect == Spec => []ExitsAccounted
<1>1. LifeInv => ExitsAccounted
  BY DEF LifeInv
<1> QED BY <1>1, LifeInvariant, PTL

\* The context ends after every thread that uses it (main.cpp:127-132).
THEOREM MainLastCorrect == Spec => []MainIsLast
<1>1. LifeInv => MainIsLast
  BY DEF LifeInv, JoinedAll, MainIsLast
<1> QED BY <1>1, LifeInvariant, PTL
=============================================================================
