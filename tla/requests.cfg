SPECIFICATION FairSpec
CONSTANTS
    Bodies = {b1, b2}
    Handlers = {h1, h2}
    Endpoints <- AllEndpoints
    MaxVersion = 3
    MaxLosses = 2

    
PROPERTIES
    KeepsOnce
    Answered
CHECK_DEADLOCK FALSE
