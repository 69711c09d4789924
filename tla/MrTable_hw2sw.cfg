\* hgrnic_free_mr ignores a failed HW2SW_MPT: no timeouts, no allocation
\* or ICM failures, only the device completing a command with an error.
CONSTANTS
    Threads = {t1, t2}
    NoThread = NoThread
    FwStatuses = {0, 12}
    MirrorsGo = TRUE
    CmdTimeouts = FALSE
    MaxOrder = 1
    SegsPerChunk = 1
    Sizes = {1, 2}
    NumMpts = 1
    MptMask = 1
    IcmFails = FALSE
    AllocFailures = FALSE
INIT MrInit
NEXT MrNext
SYMMETRY MrSymmetry
INVARIANT HwMptOnlyForLiveMr
