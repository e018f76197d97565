SPECIFICATION Spec
CONSTANTS
  Node = {a, b, c}
  Writers = {a, b}
  Kinds = {"attrib"}
  Path = {f}
  LongPath = {}
  NoFile = NoFile
  F_GENERIC_HASH_LEN = 32
  UninitReplied = FALSE
  Timely <- PromptLinks
  MaxVersion = 2
  MaxInFlight = 1
SYMMETRY Alike
INVARIANT OneSender
PROPERTY AnnouncedToAll
