SPECIFICATION Spec
CONSTANTS
    Requests <- MCRequests
    MaxRuns = 2
    MaxTaken = 1
INVARIANTS
    BestPlanRecorded
    PlansFeasibleForInput
    AlternativesPreserveEntitlements
    UnmetExplained
CHECK_DEADLOCK FALSE
