SPECIFICATION FairSpec
CONSTANTS
  F_MAXIMUM_FILE_PACKAGE_SIZE = 2
  Byte <- Bytes
  Contents <- Files
  Zero = Zero
  Nothing = Nothing
  x = x
  y = y
  PollsApart = TRUE
  MaxEdits = 0
  MaxRounds = 1
PROPERTY Arrives
CHECK_DEADLOCK FALSE
