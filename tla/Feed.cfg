\* One match of each sport over a stream that drops and a process that restarts.
CONSTANTS
    Sports = {"Soccer", "UsFootball"}
    Points = {2}
    MaxPoints = 2
    MaxInFlight = 1
    MaxFaults = 2
    None = None
SPECIFICATION Spec
INVARIANTS
    TypeOK
    QuotedScoreWasReal
PROPERTIES
    StartsOnce
CHECK_DEADLOCK FALSE
