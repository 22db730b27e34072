SPECIFICATION FairSpec

CONSTANTS
    Conns = {c1, c2}
    Scenarios <- MCLiveness
    MaxSeq = 2
    MaxRewrites = 1
    MaxFaults = 0
    MaxQueue = 2
    BroadcastMax = 1

PROPERTY Converges

CHECK_DEADLOCK FALSE
