CONSTANTS
    Node = {n1, n2}
    Channel = {c1, c2}
    Latency = {1, 3}
    MaxRecords = 3
    MaxHour = 2
    Retention = 1
    CleanupEvery = 1
    BatchSize = 1
    MaxFailures = 1
    MaxCrashes = 1
SPECIFICATION MCSpec
SYMMETRY Symmetry
INVARIANTS
    TypeOK
    CountedOnce
    ExtremesSurvive
    RowsBounded
PROPERTY
    RecentRowsStay
CHECK_DEADLOCK FALSE
