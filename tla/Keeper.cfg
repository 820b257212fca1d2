\* One market through its match, its retries, its void and a restart.
CONSTANTS
    Markets = {m1}
    Matches = {{m1}}
    CloseTimes = {1}
    GracePeriod = 0
    CloseGrace = 9
    MaxClock = 3
    EventTasks = {e1}
    RetryTasks = {r1}
    HouseTasks = {h1}
    CloseDelay = 1
    GiveUp = 1
    MaxRestarts = 1
    None = None
SPECIFICATION FairKeeper
INVARIANTS
    TypeOK
    
    VoidWaitsForProof
PROPERTIES
    
    PendingDrains
CHECK_DEADLOCK FALSE
