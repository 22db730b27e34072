CONSTANTS
    p1 = p1
    p2 = p2
    k1 = k1
    k2 = k2
    None = None
    m1 = m1
    m2 = m2
    Producers = {p1, p2}
    Maintainers = {m1, m2}
    Keys = {k1, k2}
    KeyOf <- MCKeyOf
    ChildKeys <- MCChildKeys
    SessionKeys = {k2}
    Loads <- MCLoads
    Bad <- MCBad
    BatchSize = 2
    QueueMax = 1
    Inline = {1}
    MaxTxn = 2
    MaxRewrites = 2
    MaxFaults = 1
    MaxCrashes = 1
SPECIFICATION FairSpec
CONSTRAINT OneDisturbance
INVARIANTS
    ExactlyOnce AckIsDurable
    PublishedInOrder NeighboursUnharmed
     CheckpointCovers
PROPERTIES
    RewriteEnds ShutdownDrains ProgressIsMonotone
