CONSTANTS
  Rank = {1, 2}
  User = {"a", "b", "c", "d"}
  Home <- MCHome
  Batch <- MCBatch
  Progs <- MCProgs
SPECIFICATION FairSpec
INVARIANTS OwnData CtrlMessageFits SignalMeansDone RequestsTracked
PROPERTIES OneEventEach AllDelivered
