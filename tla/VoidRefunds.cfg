\* A position left in a closed account is refunded from a later one.
CONSTANTS
    Users = {u1, u2}
    SessionKeys = {}
    Markets = {m1}
    Validators = {v1}
    NoAccount = NoAccount
    Amounts = {10}
    FeeRates = {500}
    CloseTimes = {1, 2, 3}
    InitialLamports = 16
    MinBond = 2
    Rent = 1
    GracePeriod = 1
    CloseGrace = 1
    MaxClock = 5
    MaxVerifications = 0
    StakeCaps = {}
    TotalCaps = {}
    ExpiryTimes = {}
SPECIFICATION Spec
SYMMETRY Symmetry
INVARIANTS
    VoidRefundsEveryone
CHECK_DEADLOCK FALSE
