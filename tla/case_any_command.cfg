SPECIFICATION Spec
CONSTANTS
    MaxRuns = 4
    Strays <- Commands
    TaskFiled = TRUE
    Movable = {}
    Mode = "synthetic"
INVARIANTS
    TypeOK
    StageShape
    GatesKept
CHECK_DEADLOCK FALSE
