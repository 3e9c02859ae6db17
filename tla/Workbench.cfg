SPECIFICATION Spec
CONSTANTS
    InitialRequests <- MCRequests
    Demands = {1, 2, 3}
    CaseOf <- MCCaseOf
    PermittedRoutes <- MCPermittedRoutes
    Advisers = {adviser1, adviser2}
    MaxDecisions = 4
    MaxExits = 1
INVARIANTS
    TypeOK
    OneLivePerDemand
    ActiveIsApproved
    NothingDropped
PROPERTIES
    DecidedAsShown
    NothingNewAfterExit
    ImplementsDemandBoard
SYMMETRY Sessions
CHECK_DEADLOCK FALSE
