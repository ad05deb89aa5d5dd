SPECIFICATION FairSpec
CONSTANTS
  Rank = {1, 2, 3}
  Thread = {1}
  Neighbor <- ChainNeighbor
  Load <- ChainLoad
  LastStep = 2
INVARIANTS TypeOK SignalNeverOverrun ArrivalInItsStep SendBlockStable
PROPERTIES CountStableUntilCollected ExactTransfer AllStepsComplete
CHECK_DEADLOCK FALSE
