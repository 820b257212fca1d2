\* Three markets of one wallet, two instructions to a batch.
CONSTANTS
    Markets = {m1, m2, m3}
    CloseTimes = {1}
    GracePeriod = 0
    CloseGrace = 1
    MaxClock = 4
    ClaimsPerTx = 2
SPECIFICATION FairSweepSpec
INVARIANTS
    SweepTypeOK
    ClosesCannotSpoil
PROPERTIES
    BondsReclaimed
CHECK_DEADLOCK FALSE
