\* One week, a line at each of two spot prices, and a restart.
CONSTANTS
    Markets <- WeekMarkets
    CloseTimes = {}
    GracePeriod = 1
    CloseGrace = 0
    MaxClock = 4
    None = None
    Windows = {1}
    Prices = {1}
    Thresholds = {1, 2}
    Modes = {"pyth"}
    MaxStaleness = 1
    ProbeOffsets <- Offsets
    VoidGrace = 1
    LateCandle = 1
    ClaimWindow = 1
    ClaimSlack = 1
    OneTryPerTick = TRUE
    MaxRestarts = 1
SPECIFICATION Spec
INVARIANTS
    TypeOK
    
    
PROPERTIES
    OneLine
CHECK_DEADLOCK FALSE
