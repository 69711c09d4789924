CONSTANTS
    Bufs = {b0, b1, b2}
    B0 = b0
    InitSize = 2
    NewSizes = {4}
    MaxCqes = 5
    PollBatch = 2
    AllocFailures = TRUE
    ResizeRejects = TRUE
    Kinds = {"kernel"}
    UserFailures = FALSE
    MaxResizes = 3
SPECIFICATION Spec
INVARIANTS
    PollReadsLiveBuffers
