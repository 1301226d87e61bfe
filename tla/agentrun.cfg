SPECIFICATION FairSpec
CONSTANTS
    Runs = {r1}
    Workers = {w1, w2}
    Modes = {"legacy"}
    MaxAttempts = 2
    Straddling = {1}
INVARIANTS
    TypeOK
PROPERTIES
    EveryRunEnds
CHECK_DEADLOCK FALSE
