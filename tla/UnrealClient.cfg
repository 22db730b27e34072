SPECIFICATION Spec

CONSTANTS
    MaxReceiverFrames = 3
    MaxPending = 3
    MaxGenerations = 5
    Scenarios <- MCScenarios

INVARIANTS EditsKept StageIsLog GateFollowsReplay

CHECK_DEADLOCK FALSE
