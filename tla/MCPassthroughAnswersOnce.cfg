CONSTANTS
    a = a
    b = b
    c = c
    Channel <- Channels
    Priority <- Priorities
    CacheOrder <- Order
    Request = {r1}
    Kind = {"relay", "passthrough"}
    RetryTimes = 2
SPECIFICATION RelaySpec
INVARIANT
    PassthroughAnswersOnce
CHECK_DEADLOCK FALSE
