SPECIFICATION Spec
CONSTANTS
    p1 = p1  p2 = p2  p3 = p3
    Procs = {p1, p2, p3}
    Costs = {1, 2}
    Caps = {0, 1}
    DefaultRequests = 2
    DefaultCost = 3
    MaxDay = 1
    Envs <- AllEnvs
INVARIANT GrantsAreDurable
PROPERTY RefinesBudgetSpec
CHECK_DEADLOCK FALSE
