\* Two settlements and a small lookup table.
CONSTANTS
    s1 = s1
    s2 = s2
    a1 = a1
    a2 = a2
    Settlements = {s1, s2}
    Needed <- OwnAddresses
    MaxTables = 7
    Capacity = 3
    Statics = 1
    MaxFaults = 3
    None = None
SPECIFICATION FairSpec
INVARIANTS
    TypeOK
    LookupsResolve
    FewTablesMinted

    
CHECK_DEADLOCK FALSE
