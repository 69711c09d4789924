CONSTANTS
    Threads = {t1, t2}
    NoThread = NoThread
    FwStatuses = {0, 3}
    MirrorsGo = TRUE
    CmdTimeouts = FALSE
    NumObj = 2
    ObjPerChunk = 1
    Reserved = 1
    Objs = {0, 1, 2, 3}
    Regions = {r1, r2}
    NoRegion = NoRegion
    NoObj = NoObj
    AllocFailures = TRUE
    UnmapFails = FALSE
    NumCqs = 2
    CqMask = 3
    SetupFails = TRUE
    Hw2swFails = FALSE
INIT CqInit
NEXT CqNext
SYMMETRY CqSymmetry
INVARIANT LiveCqSetUp
