\* One week whose market others may decide.
CONSTANTS
    Markets <- WeekMarkets
    CloseTimes = {}
    GracePeriod = 1
    CloseGrace = 0
    MaxClock = 4
    None = None
    Windows = {1}
    Prices = {1}
    Thresholds = {1}
    Modes = {"pyth"}
    MaxStaleness = 1
    ProbeOffsets <- Offsets
    VoidGrace = 1
    LateCandle = 1
    ClaimWindow = 1
    ClaimSlack = 1
    OneTryPerTick = TRUE
    MaxRestarts = 1
SPECIFICATION FairSpec
PROPERTIES
    LoopRollsOn
CHECK_DEADLOCK FALSE
