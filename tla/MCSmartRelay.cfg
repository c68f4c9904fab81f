CONSTANTS
    a = a
    b = b
    c = c
    Channel <- Channels
    Priority <- Priorities
    CacheOrder <- Order
    Request = {r1}
    Kind = {"relay", "passthrough"}
    RetryTimes = 2
SPECIFICATION FairSpec
INVARIANTS
    RelayTypeOK
    NoChannelTwice
    RelayAnswersOnce
    AttemptsBounded
PROPERTIES
    OpenOnlyAsLastResort
    TopTierFirst
    EveryRequestEnds
CHECK_DEADLOCK FALSE
