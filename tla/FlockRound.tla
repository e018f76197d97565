----------------------------- MODULE FlockRound -----------------------------
(***************************************************************************)
(* What the Flock protocol promises when users wait for it: one node at a  *)
(* time offers a changed file, the others take it over, and the offer ends *)
(* when all of them have it.                                               *)
(***************************************************************************)
CONSTANTS Node, Path, NoFile

VARIABLES
  disk,    \* the files on each node
  offer    \* the File each node is sending, or NoFile

roundVars == <<disk, offer>>

Init ==
  /\ \A n, m \in Node : disk[n] = disk[m]
  /\ offer = [n \in Node |-> NoFile]

NoOffer == \A n \in Node : offer[n] = NoFile

\* A user changes a file while nothing is offered.
Change(n, p) ==
  /\ NoOffer
  /\ \A m \in Node, q \in Path : <<m, q>> # <<n, p>> => disk'[m][q] = disk[m][q]
  /\ UNCHANGED offer

\* n offers a file as it is on its disk.
Offer(n, p) ==
  LET f == offer'[n] IN
  /\ NoOffer
  /\ f # NoFile
  /\ f.path = p
  /\ IF f.deleted THEN ~disk[n][p].exists
                  ELSE disk[n][p].exists /\ f.version = disk[n][p].meta
  /\ \A m \in Node \ {n} : offer'[m] = NoFile
  /\ UNCHANGED disk

\* m takes over metadata or content of what n offers.
TakeOver(n, m) ==
  LET f == offer[n]
      p == f.path
      mine == disk[m][p]
      theirs == disk[n][p]
  IN /\ m # n
     /\ f # NoFile
     /\ disk'[m][p] \in { [theirs EXCEPT !.data = mine.data],
                          [mine EXCEPT !.data = theirs.data], theirs }
     /\ \A k \in Node, q \in Path : <<k, q>> # <<m, p>> => disk'[k][q] = disk[k][q]
     /\ UNCHANGED offer

\* The offer ends: everyone has it.
Settle(n) ==
  /\ offer[n] # NoFile
  /\ \A m \in Node : disk[m][offer[n].path] = disk[n][offer[n].path]
  /\ offer' = [m \in Node |-> NoFile]
  /\ UNCHANGED disk

Next ==
  \/ \E n \in Node, p \in Path : Change(n, p) \/ Offer(n, p)
  \/ \E n, m \in Node : TakeOver(n, m)
  \/ \E n \in Node : Settle(n)

Spec == Init /\ [][Next]_roundVars
=============================================================================
