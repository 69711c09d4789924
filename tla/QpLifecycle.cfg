\* Three QP objects over a two-slot QP number space with one generation bit
\* (so the third alloc_qp can find the allocator full), one CQ shared as
\* send and receive CQ, every failure path of alloc and modify enabled.
CONSTANTS
    Max = 2
    Mask = 3
    Qps = {qa, qb, qc}
    NoQp = NoQp
    Cqs = {c1}
    CqCqe = 2
    PollBatch = 2
    IcmFails = TRUE
    ModifyFails = TRUE
    ResetFails = FALSE
    PageAllocFails = FALSE
    QpModes = {"kernel", "user"}
    UTableBits = 0
INIT QpInit
NEXT QpNext
CHECK_DEADLOCK FALSE
INVARIANTS
    QpTypeOK
    BitmapMatchesHolders
    QpTableMatchesLiveQps
    PollAttributesToOwner
    NoCqeOutlivesQp
    UserTableMatchesLiveQps
    CachedResetIsDeviceReset
    CleanIsFilter
PROPERTIES
    AllocFailsOnlyWhenFull
SYMMETRY QpSymmetry
