SPECIFICATION FairSpec
CONSTANTS
    Tasks = {t1, t2, t3}
    Notes = {n1, n2}
    Waiters = {w1}
CHECK_DEADLOCK FALSE
INVARIANTS
    TypeOK
    NotifyAfterLeave
    WaitMeansLeft
PROPERTIES
    EveryNoteIsPushed
    EveryWaitReturns
