SPECIFICATION Spec
CONSTANTS
  Peer = {"near", "far"}
  SameNode = {"near"}
  Inter <- TwoVerbs
  Intra <- TwoVerbs
  Verbs = {"verbs0", "verbs1"}
  BlkSize = 2
  High = 8
  Plan = {"a", "b"}
  Requests <- MCRequests
  Sig = {"s1", "s2"}
  SigHome <- MCHome
  NumEvent <- MCNum
  Thread = {"t1", "t2"}
  ThreadHome <- MCThreadHome
  MaxMem = 1
  MaxStart <- MCStarts
INVARIANTS TriggeredWhenAllLanded
