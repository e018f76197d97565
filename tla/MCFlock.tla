------------------------------ MODULE MCFlock -------------------------------
(***************************************************************************)
(* Instances of Flock for TLC: the timing assumptions the runs grant, and  *)
(* the symmetry of nodes whose users do the same, and of paths.            *)
(***************************************************************************)
EXTENDS Flock, TLC

\* Nothing is granted.
Untimed == {}

\* Only that the box's own echoes are read before the next heartbeat.
InotifyOnly == {"inotify"}

\* A quick machine on a quick network, links with any delay.
Prompt == {"inotify", "clocks", "polls"}

\* The same, with heartbeats in lockstep.
PromptLinks == Prompt \cup {"links"}

\* Users change one file at a time and wait for the flock.
QuietPrompt == Prompt \cup {"quiet"}
QuietLinks == PromptLinks \cup {"quiet"}

\* For safety only.
Alike ==
  { nodes @@ paths : nodes \in Permutations(Writers)
                                \cup Permutations(Node \ Writers),
                     paths \in Permutations(Path \ LongPath) }
=============================================================================
