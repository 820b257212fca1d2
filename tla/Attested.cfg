\* One match whose kickoff may move.
CONSTANTS
    Markets = {m1}
    Event = m1
    CloseTimes = {}
    GracePeriod = 1
    CloseGrace = 99
    MaxClock = 7
    None = None
    Line = 1
    MaxGoals = 2
    Kickoffs = {1, 2}
    ReferenceOffset = 2
    Window = 3
    MaxFaults = 2
SPECIFICATION FairSpec
INVARIANTS
    TypeOK
    SettlesTheResult
    NotBeforeFullTime

    
CHECK_DEADLOCK FALSE
