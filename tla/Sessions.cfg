\* A wallet delegates to a session key; both bet for it on two markets.
CONSTANTS
    Users = {u1}
    SessionKeys = {k1}
    Markets = {m1, m2}
    Validators = {v1}
    NoAccount = NoAccount
    Amounts = {2, 3}
    FeeRates = {0}
    CloseTimes = {1}
    InitialLamports = 7
    MinBond = 1
    Rent = 1
    GracePeriod = 1
    CloseGrace = 1
    MaxClock = 1
    MaxVerifications = 0
    StakeCaps = {2}
    TotalCaps = {0, 3}
    ExpiryTimes = {1}
SPECIFICATION Spec
SYMMETRY Symmetry
INVARIANTS
    LossLimit
    PoolsBacked
CHECK_DEADLOCK FALSE
