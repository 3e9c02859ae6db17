SPECIFICATION Spec
CONSTANTS
    Allocs = {a1, a2}
    CaseOf <- MCCaseOf
    Results = {"succeeded", "failed"}
    MaxRows = 6
INVARIANTS
    TypeOK
    HistoryExplainsState
    StaffAreAsked
    ReopenedExactlyOnce
    ResponseHasEvidence
PROPERTIES
    SuccessIsFinal
    ExitedCaseFrozen
SYMMETRY SameCase
CHECK_DEADLOCK FALSE
