SPECIFICATION FairSpec
CONSTANTS
  Rank = {1, 2, 3}
  Box = {1, 2, 3, 4}
  Touch <- Row
  Maps <- FullMaps
  LastSpecies = 2
  MaxRound = 2
INVARIANTS ChannelsPaired
PROPERTIES AllRegistered
CHECK_DEADLOCK FALSE
