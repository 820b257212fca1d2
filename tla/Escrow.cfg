\* One market, three bettors, no session keys: the money of one market.
CONSTANTS
    Users = {u1, u2, u3}
    SessionKeys = {}
    Markets = {m1}
    Validators = {v1}
    NoAccount = NoAccount
    Amounts = {11, 20}
    FeeRates = {500, 600}
    CloseTimes = {1}
    InitialLamports = 31
    MinBond = 2
    Rent = 1
    GracePeriod = 0
    CloseGrace = 0
    MaxClock = 2
    MaxVerifications = 0
    StakeCaps = {}
    TotalCaps = {}
    ExpiryTimes = {}
SPECIFICATION Spec
SYMMETRY Symmetry
INVARIANTS
    TypeOK
    Solvent
    OnlyResidueIsLeft
    Conservation
CHECK_DEADLOCK FALSE
