SPECIFICATION FairSpec
CONSTANTS
  Node = {a, b}
  Writers = {a}
  Kinds = {"attrib", "delete"}
  Path = {f}
  LongPath = {}
  NoFile = NoFile
  F_GENERIC_HASH_LEN = 32
  UninitReplied = FALSE
  Timely <- QuietPrompt
  MaxVersion = 2
  MaxInFlight = 2
INVARIANT AllRun
PROPERTY ConfirmedIsHeld
PROPERTY IsRound
PROPERTY Delivered
PROPERTY Settled
