SPECIFICATION FairSpec
CONSTANTS
    Threads = {t1, t2, t3}
    InitialValue <- InDebt
    GenSize = 4
    MaxSignals = 3
    MaxWaits = 3
CHECK_DEADLOCK FALSE
INVARIANTS
    TypeOK
    NoLostWakeup
    NoUseAfterFree
PROPERTY PermitIsUsed
