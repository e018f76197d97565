SPECIFICATION Spec
CONSTANTS
  Node = {a, b, c}
  Writers = {a}
  Kinds = {"attrib"}
  Path = {f}
  LongPath = {}
  NoFile = NoFile
  F_GENERIC_HASH_LEN = 32
  UninitReplied = FALSE
  Timely <- Prompt
  MaxVersion = 1
  MaxInFlight = 1
SYMMETRY Alike
PROPERTY IsRound
PROPERTY AnnouncedToAll
