------------------------------- MODULE MCBox --------------------------------
(***************************************************************************)
(* Instances of BoxWatch for TLC: a box with two directories, one more in  *)
(* the first of them, and another that may be created.                     *)
(***************************************************************************)
EXTENDS BoxWatch

Chains ==
  [d \in {"r", "a", "b", "c"} |->
     CASE d = "r" -> <<>> [] d = "c" -> <<"a", "c">> [] OTHER -> <<d>>]

\* b holds a link to c.
Links == [d \in {"r", "a", "b", "c"} |-> IF d = "b" THEN {"c"} ELSE {}]

\* a and c hold the file or not.
Listings ==
  [d \in {"r", "a", "b", "c"} |->
     IF d \in {"a", "c"} THEN [FileName -> {0, 1}] ELSE {[f \in FileName |-> 0]}]
=============================================================================
