\* Memory regions over the command interface: two threads registering and
\* deregistering MRs of 1 or 2 pages in a 2-segment MTT pool of one segment
\* per chunk, one MPT, with ICM, allocation and command failures, a status
\* with no errno entry, and command timeouts.
CONSTANTS
    Threads = {t1, t2}
    NoThread = NoThread
    FwStatuses = {0, 12}
    MirrorsGo = TRUE
    CmdTimeouts = TRUE
    MaxOrder = 1
    SegsPerChunk = 1
    Sizes = {1, 2}
    NumMpts = 1
    MptMask = 1
    IcmFails = TRUE
    AllocFailures = TRUE
INIT MrInit
NEXT MrNext
SYMMETRY MrSymmetry
INVARIANTS
    MrTypeOK
    CmdOkOnlyIfExecuted
    RefcountMatchesMtts
    LiveMrTranslatesOwnMtt
INVARIANT AllocSucceedsWhenBlockFree
INVARIANT WriteMttFillsMtt
PROPERTIES
    PoolRefined
