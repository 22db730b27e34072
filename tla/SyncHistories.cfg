SPECIFICATION Spec

CONSTANTS
    Conns = {c1, c2}
    Scenarios <- MCHistories
    MaxSeq = 2
    MaxRewrites = 1
    MaxFaults = 1
    MaxQueue = 2
    BroadcastMax = 1

INVARIANT PrefixKept
INVARIANT IdentityIsProof
INVARIANT DeliveryIsExact

SYMMETRY Slots

CHECK_DEADLOCK FALSE
