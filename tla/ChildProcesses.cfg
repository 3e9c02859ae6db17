SPECIFICATION Spec
CONSTANTS
    Pids = {p1, p2, p3}
    None = None
    MaxKills = 3
    MaxFailures = 2
PROPERTIES
    RecordOutlivesChild
    ForeignSpared
    CleanupEnds
