CONSTANTS
    Caller = {c1, c2}
    BucketCount = 2
    BucketDuration = 2
    OpenDuration = 2
    HalfOpenMaxReqs = 2
    MinRequests = 2
    ThresholdNum = 1
    ThresholdDen = 2
    MaxClock = 6
    MaxPerBucket = 2
SPECIFICATION Spec
SYMMETRY Symmetry
INVARIANTS
    TypeOK
    UnhealthyIsNoticed
PROPERTIES
    ImplementsBreakerSpec
CHECK_DEADLOCK FALSE
