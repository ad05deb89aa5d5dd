SPECIFICATION FairSpec
CONSTANTS
  Peer = {"near", "far"}
  SameNode = {"near"}
  Inter <- ThreeMpi
  Intra <- ThreeMpi
  Verbs = {}
  BlkSize = 2
  High = 8
  Plan = {"a", "b"}
  Requests <- MCRequests
  Sig = {"s1", "s2"}
  SigHome <- MCHome
  NumEvent <- MCNum
  Thread = {"t1", "t2"}
  ThreadHome <- MCThreadHome
  MaxMem = 1
  MaxStart <- MCStarts
INVARIANTS PiecesTile TriggeredWhenAllLanded ReportedOnce
PROPERTIES EveryStartDetected
