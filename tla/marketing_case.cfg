SPECIFICATION Spec
CONSTANTS
    MaxRuns = 5
    Strays <- AllButHold
    TaskFiled = FALSE
    Movable = {1}
    Mode = "real"
INVARIANTS
    OneLiveRun
    NoRerunOfUnknown
    CommitmentsSettled
    OfferWorks
PROPERTY
    AcceptedPlanKept
CHECK_DEADLOCK FALSE
