--------------------------- MODULE AtomicTransfer ---------------------------
(***************************************************************************)
(* What Flock takes a transfer of file data for: the sender reads the file *)
(* at one instant, and later the receiver has, at one instant, just that.  *)
(* It may hold more: a round that begins while the mark of the last one is *)
(* set never shortens the file.                                            *)
(***************************************************************************)
EXTENDS Integers, Sequences

CONSTANTS Contents, Zero, Nothing

VARIABLES
  source,    \* the file on the sender's disk
  held,      \* the file of the receiver, as it was while a round is open
  open,      \* a round is under way
  stored,    \* the mark data rounds set and others clear
  stale,     \* it was set when this round began
  size,      \* the size of the file when its change was reported
  reading    \* what was read of it in this round, or Nothing

atomicVars == <<source, held, open, stored, stale, size, reading>>

Cut(c, length) ==
  [i \in 1 .. length |-> IF i <= Len(c) THEN c[i] ELSE Zero]

Init ==
  /\ source \in Contents
  /\ held \in Contents
  /\ open = FALSE
  /\ stored = FALSE
  /\ stale = FALSE
  /\ size = 0
  /\ reading = Nothing

Write ==
  /\ source' \in Contents
  /\ UNCHANGED <<held, open, stored, stale, size, reading>>

Begin ==
  /\ ~open
  /\ open' = TRUE
  /\ stored' = TRUE
  /\ stale' = stored
  /\ size' = Len(source)
  /\ reading' = Nothing
  /\ UNCHANGED <<source, held>>

\* At most the size reported is read, and of the file as it is.
Read ==
  /\ open
  /\ reading = Nothing
  /\ \E k \in 0 .. size :
       k <= Len(source) /\ reading' = SubSeq(source, 1, k)
  /\ UNCHANGED <<source, held, open, stored, stale, size>>

\* A file that had shrunk is never reported complete.
Arrive ==
  /\ open
  /\ reading # Nothing
  /\ Len(reading) = size
  /\ open' = FALSE
  /\ held' = reading \o (IF stale THEN SubSeq(held, size + 1, Len(held)) ELSE <<>>)
  /\ UNCHANGED <<source, stored, stale, size, reading>>

\* A round of another kind.
Other ==
  /\ ~open
  /\ \/ stored' = TRUE /\ held' = held
     \/ stored' = FALSE /\ held' \in {held, Cut(held, Len(source))} \cup Contents
  /\ stale' = FALSE
  /\ size' = 0
  /\ reading' = Nothing
  /\ UNCHANGED <<source, open>>

Next == Write \/ Begin \/ Read \/ Arrive \/ Other

Spec == Init /\ [][Next]_atomicVars
=============================================================================
