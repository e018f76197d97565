SPECIFICATION FairSpec
CONSTANTS
  Dir = {"r", "a", "b", "c"}
  Root = "r"
  Chain <- Chains
  LinksTo <- Links
  Absent = {"b"}
  Name = {"x", "y"}
  FileName = {"f"}
  Spaced = {"y"}
  Listing <- Listings
  MaxChanges = 2
  MaxHashes = 17
INVARIANT BoxTypeOK
INVARIANT WatchedUnlessTwin
INVARIANT ReportsTruePath
INVARIANT TreeShape
INVARIANT ChangesFound
PROPERTY StartsUp
CHECK_DEADLOCK FALSE
