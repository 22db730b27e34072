SPECIFICATION FairSpec
CONSTANTS
    Producers <- MCProducers
    Receivers <- MCReceivers
    Departments <- MCDepartments
    Values <- MCValues
    DepartmentOf <- MCDepartmentOf
    Layered <- MCLayered
    Configured <- MCConfigured
    Orders <- MCOrders
    Stages <- MCStages
    Budgets <- MCBudgets
    None = None
    a1 = a1
    a2 = a2
    f1 = f1
    n1 = n1
    layered = layered
    plain = plain
    anim = anim
    fx = fx
    own = own
    other = other
INVARIANTS ReceiversAgree StageRestored
PROPERTIES LayersConverge
CHECK_DEADLOCK FALSE
