CONSTANTS
    Bufs = {b0, b1, b2}
    B0 = b0
    InitSize = 4
    NewSizes = {2}
    MaxCqes = 5
    PollBatch = 2
    AllocFailures = TRUE
    ResizeRejects = FALSE
    Kinds = {"kernel"}
    UserFailures = FALSE
    MaxResizes = 3
SPECIFICATION Spec
PROPERTIES
    CqesInOrder
