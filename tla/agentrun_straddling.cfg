SPECIFICATION Spec
CONSTANTS
    Runs = {r1}
    Workers = {w1, w2}
    Modes = {"real", "synthetic", "legacy"}
    MaxAttempts = 2
    Straddling = {1}
SYMMETRY WorkerSymmetry
INVARIANTS
    FencingInv
    RedispatchJustified
    SingleOpenAttempt
    OutcomeTruthful
    AttemptBound
    ToldOnce
    StopsOnRequest
PROPERTIES
    AttemptsKept
    KeepsContract
CHECK_DEADLOCK FALSE
