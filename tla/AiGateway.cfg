SPECIFICATION Spec
CONSTANTS
    Files <- MCFiles
    Importers = {p1, p2}
    MaxCorrections = 1
    TaskKinds = {"need_hypothesis", "cohort_explanation"}
    AdapterReplies = {"times_out", "flags_unsafe", "unsure", "sound"}
    MaxSources = 2
    MaxAttempts = 2
INVARIANTS
    TypeOK
    VersionEntersOnce
    RowsKeptApart
    AnsweredForOwnFile
    HypothesesGrounded
PROPERTIES
    ClosedAfterExit
SYMMETRY Processes
CHECK_DEADLOCK FALSE
