SPECIFICATION FairSpec
CONSTANTS
    r0 = r0
    r1 = r1
    usr1 = usr1
    hup = hup
    Rank <- MCRank
    Root = r0
    MaxStep = 3
    Script <- MCScript
    StopTimes <- MCStopTimes
    Dt = 10
    Tol = 1
    Period = 3
    CheckpointSignals = {usr1}
    BreakSignals = {hup}
    MaxSignals = 2
    MaxCrashes = 1
INVARIANTS TypeOK SameDecisions DumpedOnce MomentaCentered
PROPERTIES SynchronizedAtEnd CheckpointServed
