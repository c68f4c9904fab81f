CONSTANTS
    BucketCount = 3
    BucketDuration = 2
    MaxClock = 12
    MaxPerBucket = 2
SPECIFICATION Spec
INVARIANTS
    TypeOK
PROPERTIES
    KeepsNothingOlder
    ForgetsNothingRecent
CHECK_DEADLOCK FALSE
