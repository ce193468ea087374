SPECIFICATION FairSpec
CONSTANTS
    Calls = {c1, c2}
    Deltas <- MCDeltas
    TimeSize = 16
    Cap = 2
    None = None
    MaxTime = 5
CHECK_DEADLOCK FALSE
INVARIANTS
    TypeOK
    NeverEarly
    LatenessBound
PROPERTY EveryTimerFires
