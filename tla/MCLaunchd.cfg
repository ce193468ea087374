SPECIFICATION Spec
CONSTANTS
    Boot <- BootTwo
    Loadable <- LoadBoth
    MAX_DAEMONS = 3
    MaxCommands = 2
    MaxExits = 2
    MaxUnusual = 1
    MaySigterm = TRUE
    SignalsToMain = FALSE
CHECK_DEADLOCK FALSE
INVARIANTS
    TypeOK
    HaltedMeansSignalled
    
