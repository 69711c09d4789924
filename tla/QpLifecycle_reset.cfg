\* hgrnic_free_qp whose MODIFY_QP to RESET fails: one QP on one CQ.
CONSTANTS
    Max = 2
    Mask = 3
    Qps = {qa, qb}
    NoQp = NoQp
    Cqs = {c1}
    CqCqe = 2
    PollBatch = 2
    IcmFails = FALSE
    ModifyFails = FALSE
    ResetFails = TRUE
    PageAllocFails = FALSE
    QpModes = {"kernel"}
    UTableBits = 0
INIT QpInit
NEXT QpNext
CHECK_DEADLOCK FALSE
SYMMETRY QpSymmetry
INVARIANT
    NoCqeOutlivesQp
