SPECIFICATION Spec

CONSTANTS
    Order <- MCOrder
    InBase = {"b"}
    Types = {"Xform", "Mesh"}
    Values = {0, 1}
    Capacity = 1
    Scenarios <- MCScenarios

INVARIANTS EditsKept 
PROPERTY NoEcho

CHECK_DEADLOCK FALSE
