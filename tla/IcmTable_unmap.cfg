CONSTANTS
    Threads = {t1, t2}
    NoThread = NoThread
    FwStatuses = {0, 3}
    MirrorsGo = TRUE
    CmdTimeouts = FALSE
    NumObj = 8
    ObjPerChunk = 2
    Reserved = 1
    Objs = {1, 2, 3, 12}
    Regions = {r1, r2}
    NoRegion = NoRegion
    NoObj = NoObj
    AllocFailures = TRUE
    UnmapFails = TRUE
SPECIFICATION Spec
INVARIANT FwMapsOnlyAllocatedMemory
