CONSTANTS
    fine = fine
    flaky = flaky
    untestable = untestable
    timer = timer
    admin = admin
    other = other
    n1 = n1
    n2 = n2
    Channel <- ThreeChannels
    Order <- FineFirst
    Outcome <- Outcomes
    AutoBan <- ThreeChannels
    Caller <- Callers
    Timer <- timer
    NodeOf <- TwoNodes
    LoadFails = TRUE
    MaxEvents = 1
SPECIFICATION FairSpec
INVARIANTS
    TypeOK
    OneSweepAtATime
    FlagHasItsSweep
PROPERTIES
    SweepsEnd
    AutoDisabledRecovers
CHECK_DEADLOCK FALSE
