SPECIFICATION FairSpec
CONSTANTS
  Node = {a, b}
  Writers = {a, b}
  Kinds = {"attrib"}
  Path = {f}
  LongPath = {}
  NoFile = NoFile
  F_GENERIC_HASH_LEN = 32
  UninitReplied = FALSE
  Timely <- PromptLinks
  MaxVersion = 2
  MaxInFlight = 1
PROPERTY Delivered
