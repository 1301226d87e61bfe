SPECIFICATION FairChatSpec
CONSTANTS
    Turns = {t1, t2}
    Workers = {w1, w2}
    MaxAttempts = 2
INVARIANTS
    TurnFollowsRun
    PersistedOnce
PROPERTIES
    TurnsEnd
CHECK_DEADLOCK FALSE
