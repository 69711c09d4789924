\* The kernel driver's send queue with WRs that fail the num_sge or opcode
\* check (hazard hgrnic_qp.c:1002): a WQE linked to its own slot.
CONSTANTS
    InKernel = TRUE
    WqMax = 4
    MaxWqesPerDb = 3
    MaxBatch = 3
    MaxWrs = 5
    BadWrs = TRUE
SPECIFICATION Spec
CHECK_DEADLOCK FALSE
INVARIANTS
    WqeLinksConsecutive
