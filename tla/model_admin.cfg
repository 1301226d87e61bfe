SPECIFICATION FairSpec
CONSTANTS
    Keys = {good1, good2, bad}
    Valid = {good1, good2}
    None = None
    Requests = {r1, r2}
    Consoles = {c1}
INVARIANTS
    EnabledVerified
PROPERTIES
    KeepsModelConfig
    BusyEnds
CHECK_DEADLOCK FALSE
