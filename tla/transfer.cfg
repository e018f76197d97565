SPECIFICATION FairSpec
CONSTANTS
  F_MAXIMUM_FILE_PACKAGE_SIZE = 2
  Byte <- Bytes
  Contents <- Files
  Zero = Zero
  Nothing = Nothing
  x = x
  y = y
  PollsApart = FALSE
  MaxEdits = 2
  MaxRounds = 2
INVARIANT TransferTypeOK
INVARIANT CompleteIsFaithful
PROPERTY IsAtomic
PROPERTY LoopEnds
PROPERTY ArrivesUnlessHindered
CHECK_DEADLOCK FALSE
