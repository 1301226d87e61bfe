SPECIFICATION Spec
CONSTANTS
    Runs = {r1}
    Workers = {w1, w2}
    Modes = {"legacy"}
    MaxAttempts = 2
    Straddling = {1}
SYMMETRY WorkerSymmetry
INVARIANT NoDoubleDispatch
CHECK_DEADLOCK FALSE
