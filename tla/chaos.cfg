SPECIFICATION Spec
CONSTANTS
  Node = {a, b}
  Writers = {a, b}
  Kinds = {"delete", "moved"}
  Path = {f, g}
  LongPath = {}
  NoFile = NoFile
  F_GENERIC_HASH_LEN = 32
  UninitReplied = FALSE
  Timely <- InotifyOnly
  MaxVersion = 2
  MaxInFlight = 1
SYMMETRY Alike
INVARIANT TypeOK
INVARIANT FrontDefined
INVARIANT PayloadsPresent
INVARIANT OrdersFit
INVARIANT PostsHandled
INVARIANT PackageMatches
CHECK_DEADLOCK FALSE
