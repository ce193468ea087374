SPECIFICATION Spec
CONSTANTS
    Boot <- BootShell
    Loadable <- LoadNone
    MAX_DAEMONS = 1
    MaxCommands = 1
    MaxExits = 1
    MaxUnusual = 0
    MaySigterm = FALSE
    SignalsToMain = TRUE
CHECK_DEADLOCK FALSE
PROPERTIES
    NoRespawnAfterUnload
