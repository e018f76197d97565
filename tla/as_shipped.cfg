SPECIFICATION Spec
CONSTANTS
  Node = {a, b}
  Writers = {a, b}
  Kinds = {"modify"}
  Path = {f, g}
  LongPath = {g}
  NoFile = NoFile
  F_GENERIC_HASH_LEN = 64
  UninitReplied = TRUE
  Timely <- Untimed
  MaxVersion = 2
  MaxInFlight = 1
SYMMETRY Alike
INVARIANT OrdersFit
INVARIANT PostsHandled
CHECK_DEADLOCK FALSE
