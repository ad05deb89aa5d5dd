SPECIFICATION FairSpec
CONSTANTS
  NP = 7
  VL = 2
INVARIANTS TypeOK NoParticleDuplicated Partitioned BlocksDisjoint PrefixUntouched
PROPERTIES Terminates
CHECK_DEADLOCK FALSE
