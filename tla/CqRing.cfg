CONSTANTS
    Bufs = {b0, b1, b2}
    B0 = b0
    InitSize = 4
    NewSizes = {8}
    MaxCqes = 6
    PollBatch = 2
    AllocFailures = TRUE
    ResizeRejects = TRUE
    Kinds = {"kernel", "user"}
    UserFailures = FALSE
    MaxResizes = 3
SPECIFICATION Spec
INVARIANTS
    TypeOK
    HwWritesLiveBuffer
    ResizeCopyTerminates
PROPERTIES
    CqesInOrder
    AllCqesDelivered
