\* hgrnic_poll_cq racing hgrnic_free_qp: two QP objects sharing one CQ.
CONSTANTS
    Max = 2
    Mask = 3
    Qps = {qa, qb}
    NoQp = NoQp
    Cqs = {c1}
    CqCqe = 2
    PollBatch = 2
    IcmFails = FALSE
    ModifyFails = FALSE
    ResetFails = FALSE
    PageAllocFails = FALSE
    QpModes = {"kernel"}
    UTableBits = 0
INIT QpInit
NEXT QpNext
CHECK_DEADLOCK FALSE
SYMMETRY QpSymmetry
INVARIANT
    NoCompletionLost
