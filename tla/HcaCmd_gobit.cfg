CONSTANTS
    Threads = {t1, t2}
    NoThread = NoThread
    FwStatuses = {0, 3, 12}
    MirrorsGo = FALSE
    CmdTimeouts = TRUE
SPECIFICATION CmdSpec
INVARIANT CmdOkOnlyIfExecuted
