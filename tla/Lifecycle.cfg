\* One market address that is settled, closed and created again, and resolved in the end.
CONSTANTS
    Users = {u1}
    SessionKeys = {}
    Markets = {m1}
    Validators = {v1, v2}
    NoAccount = NoAccount
    Amounts = {10}
    FeeRates = {500}
    CloseTimes = {1, 3}
    InitialLamports = 13
    MinBond = 2
    Rent = 1
    GracePeriod = 1
    CloseGrace = 1
    MaxClock = 5
    MaxVerifications = 1
    StakeCaps = {}
    TotalCaps = {}
    ExpiryTimes = {}
SPECIFICATION FairSpec
INVARIANTS
    ProofGated
PROPERTIES
    ResolvedIsFinal
    BetsFrozen
    ClaimsWindow
    
    KeepsPromise
CHECK_DEADLOCK FALSE
