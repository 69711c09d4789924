\* The kernel driver's work queues with post lists no longer than a
\* doorbell batch: receive completions through hgrnic_poll_one.
CONSTANTS
    InKernel = TRUE
    WqMax = 4
    MaxWqesPerDb = 3
    MaxBatch = 3
    MaxWrs = 5
    BadWrs = FALSE
SPECIFICATION Spec
CHECK_DEADLOCK FALSE
INVARIANTS
    CompletionsMatchPosts
