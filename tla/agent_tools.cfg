SPECIFICATION Spec
CONSTANTS
    Kinds = {fact, claim}
    People = {p1, p2}
    Actions = {"activate"}
    Targets = {"paused"}
    MaxAttempts = 2
    MaxVersion = 3
INVARIANTS
    TypeOK
    LinkedFromSuccess
    GateWithEvidence
SYMMETRY Symmetry
CHECK_DEADLOCK FALSE
