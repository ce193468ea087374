SPECIFICATION FairSpec
CONSTANTS
    Stacks = {s1, s2}
    MaxCreates = 3
CHECK_DEADLOCK FALSE
INVARIANTS
    TypeOK
    CurrentIsSelf
    ReleasedOnce
PROPERTIES
    CallsReturn
    ReclaimedAtNextCreate
