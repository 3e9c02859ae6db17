SPECIFICATION Spec
CONSTANTS
    InitialRequests <- LimitRequests
    Demands = {1, 2}
    CaseOf <- MCCaseOf
    PermittedRoutes <- MCPermittedRoutes
    Advisers = {adviser1}
    MaxDecisions = 2
    MaxExits = 0
INVARIANTS
    HardConstraintsKept
CHECK_DEADLOCK FALSE
