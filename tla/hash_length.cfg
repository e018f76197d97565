SPECIFICATION FairSpec
CONSTANTS
  Node = {a, b}
  Writers = {a}
  Kinds = {"modify"}
  Path = {f}
  LongPath = {}
  NoFile = NoFile
  F_GENERIC_HASH_LEN = 64
  UninitReplied = FALSE
  Timely <- PromptLinks
  MaxVersion = 1
  MaxInFlight = 1
PROPERTY Delivered
