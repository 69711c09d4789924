\* hgrnic_alloc_qp whose hgrnic_array_set fails to allocate the page: two QPs on one CQ.
CONSTANTS
    Max = 2
    Mask = 3
    Qps = {qa, qb}
    NoQp = NoQp
    Cqs = {c1}
    CqCqe = 2
    PollBatch = 2
    IcmFails = FALSE
    ModifyFails = FALSE
    ResetFails = FALSE
    PageAllocFails = TRUE
    QpModes = {"kernel"}
    UTableBits = 0
INIT QpInit
NEXT QpNext
CHECK_DEADLOCK FALSE
SYMMETRY QpSymmetry
INVARIANT
    NoCompletionLost
