\* The kernel driver's work queues, posting lists longer than a doorbell
\* batch: the in-loop doorbell of hgrnic_post_send.
CONSTANTS
    InKernel = TRUE
    WqMax = 4
    MaxWqesPerDb = 2
    MaxBatch = 3
    MaxWrs = 5
    BadWrs = FALSE
SPECIFICATION Spec
CHECK_DEADLOCK FALSE
INVARIANTS
    HeadTailCountsOutstanding
