CONSTANTS
    fine = fine
    flaky = flaky
    untestable = untestable
    timer = timer
    admin = admin
    other = other
    n1 = n1
    n2 = n2
    Channel <- TwoChannels
    Order <- UntestableFirst
    Outcome <- OutcomesOfTwo
    AutoBan <- TwoChannels
    Caller <- Callers
    Timer <- timer
    NodeOf <- TwoNodes
    LoadFails = FALSE
    MaxEvents = 1
SPECIFICATION FairSpec
PROPERTY
    AutoDisabledRecovers
CHECK_DEADLOCK FALSE
