SPECIFICATION FairSpec
CONSTANTS
    Boot <- BootTwo
    Loadable <- LoadServer
    MAX_DAEMONS = 3
    MaxCommands = 1
    MaxExits = 2
    MaxUnusual = 1
    MaySigterm = TRUE
    SignalsToMain = FALSE
CHECK_DEADLOCK FALSE
PROPERTIES
    Supervision
    CommandsEnd
