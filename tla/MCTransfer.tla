----------------------------- MODULE MCTransfer -----------------------------
(***************************************************************************)
(* Instances of FileTransfer for TLC: files of up to five bytes in packages*)
(* of two: empty, less than a package, just one, one and a bit, and three; *)
(* and a second text that agrees with the first in some bytes.             *)
(***************************************************************************)
EXTENDS FileTransfer

CONSTANTS x, y

Bytes == {x, y, Zero}

Files == { SubSeq(<<x, y, x, y, x>>, 1, k) : k \in {0, 1, 2, 3, 5} }
           \cup { <<y, y>>, <<y, y, x>> }
=============================================================================
