SPECIFICATION FairSpec
CONSTANTS
  Node = {a, b}
  Writers = {a}
  Kinds = {"modify"}
  Path = {f}
  LongPath = {}
  NoFile = NoFile
  F_GENERIC_HASH_LEN = 32
  UninitReplied = FALSE
  Timely <- Prompt
  MaxVersion = 1
  MaxInFlight = 2
INVARIANT StopIsScheduled
PROPERTY ConfirmedIsHeld
PROPERTY IsRound
PROPERTY Delivered
PROPERTY Settled
