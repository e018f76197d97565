SPECIFICATION FairSpec
CONSTANTS
  NoKey = "nokey"
  Missing = Missing
  Garbled = Garbled
  AllChildren <- MCAllChildren
  Inputs <- MCInputs
  Samples <- MCSamples
  Hwm = 1
  MaxEvents = 1
INVARIANT LifeTypeOK
INVARIANT RoutesAllConnected
INVARIANT ExitsAccounted
INVARIANT MainIsLast
INVARIANT OwnBoxesWatched
INVARIANT KeyedNodesHeard
PROPERTY EndsUnlessHindered
CHECK_DEADLOCK FALSE
