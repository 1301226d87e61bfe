SPECIFICATION FairSpec
CONSTANTS
    Coordinators = {w1, w2}
    Operators = {op}
    People = {p1}
    Nobody = nobody
    MaxVersion = 3
    MaxSeq = 4
INVARIANTS
    TimelineChained
PROPERTIES
    KeepsCaseContract
    EndArrives
CHECK_DEADLOCK FALSE
