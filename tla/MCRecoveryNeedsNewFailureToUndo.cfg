CONSTANTS
    Caller = {c1}
    BucketCount = 2
    BucketDuration = 2
    OpenDuration = 2
    HalfOpenMaxReqs = 2
    MinRequests = 2
    ThresholdNum = 1
    ThresholdDen = 2
    MaxClock = 6
    MaxPerBucket = 2
SPECIFICATION Spec
PROPERTY
    RecoveryNeedsNewFailureToUndo
CHECK_DEADLOCK FALSE
