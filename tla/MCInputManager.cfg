SPECIFICATION Spec
CONSTANTS
    Tick = 2
    Lag = {0, 1}
    Size = {1, 2}
    k_max_events = 2
    WordSize = 64
    MaxTime = 5
    MaxMessages = 2
    MaxChanges = 5
CHECK_DEADLOCK FALSE
INVARIANTS
    TypeOK
    CaughtUp
    HoldFitsFrame
