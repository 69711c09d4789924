CONSTANTS
    Threads = {p, t1, t2}
    Probe = p
    ProbeFails = TRUE
    NoThread = NoThread
    FwStatuses = {0, 3}
    MirrorsGo = TRUE
    CmdTimeouts = FALSE
    NumObj = 2
    ObjPerChunk = 1
    Reserved = 1
    Objs = {0, 1, 2, 3}
    Regions = {r1, r2}
    NoRegion = NoRegion
    NoObj = NoObj
    AllocFailures = TRUE
    UnmapFails = FALSE
    NumCqs = 2
    CqMask = 3
    SetupFails = FALSE
    Hw2swFails = FALSE
INIT HcaInit
NEXT HcaNext
SYMMETRY HcaSymmetry
INVARIANT HcaTypeOK
INVARIANT DevRefcountMatchesUsers
INVARIANT FwMapsOnlyAllocatedMemory
INVARIANT DevInUseChunksMapped
INVARIANT LiveCqSetUp
INVARIANT CqUnwindReleasesAll
INVARIANT MapIcmTranslates
PROPERTY NoOverRelease
INVARIANT HwCqOnlyWithBuffer
