CONSTANTS
    None = None
    Capacity = 2
    ResultQueue = 1
    MaxTxn = 2
    Scenarios <- MCDelivery
SPECIFICATION FairSpec
INVARIANTS
    NothingLost NeverSessionFatal
    CheckpointIncludesAcked
PROPERTIES
    DeliveryRefined FlushEnds
CHECK_DEADLOCK FALSE
