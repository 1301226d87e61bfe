SPECIFICATION Spec
CONSTANTS
    old = old
    new = new
    other = other
    Configs <- MCConfigs
    Normal <- MCNormal
    Admins = {a1, a2}
    Clients = {k1}
    MaxRevision = 2
    MaxVersion = 4
SYMMETRY AdminSymmetry
INVARIANTS
    TypeOK
    SnapshotPublished
PROPERTIES
    RevisionsKept
CHECK_DEADLOCK FALSE
