\* One round of a price market, at one spot price, with either oracle.
CONSTANTS
    Markets <- RoundMarkets
    CloseTimes = {}
    GracePeriod = 1
    CloseGrace = 99
    MaxClock = 4
    None = None
    Windows = {1}
    Prices = {1, 2}
    Thresholds = {2}
    Modes = {"pyth", "attestation"}
    MaxStaleness = 1
    ProbeOffsets <- Offsets
    VoidGrace = 2
    LateCandle = 1
    ClaimWindow = 1
    ClaimSlack = 1
    OneTryPerTick = FALSE
    MaxRestarts = 1
    IntervalSeconds = 1
SPECIFICATION FairSpec
INVARIANTS
    TypeOK
    ProofFits
    OnlyGapsAreVoided
    NoneForgotten
PROPERTIES
    Served
CHECK_DEADLOCK FALSE
