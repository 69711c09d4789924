\* libhgrnic's work queues: 4 slots, a batch doorbell every 2 WRs.
CONSTANTS
    InKernel = FALSE
    WqMax = 4
    MaxWqesPerDb = 2
    MaxBatch = 3
    MaxWrs = 5
    BadWrs = TRUE
SPECIFICATION Spec
CHECK_DEADLOCK FALSE
INVARIANTS
    CompletionsMatchPosts
    HeadTailCountsOutstanding
    WqeLinksConsecutive
    TypeOK
PROPERTIES
    AllCompletionsReported
