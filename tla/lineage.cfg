SPECIFICATION Spec
CONSTANTS
    MaxItems = 9
    MaxVersion = 4
INVARIANTS
    ReleasedApproved
    AcceptedAsReviewed
PROPERTIES
    RevisionsKept
CHECK_DEADLOCK FALSE
