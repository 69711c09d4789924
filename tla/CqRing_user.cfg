CONSTANTS
    Bufs = {b0, b1, b2}
    B0 = b0
    InitSize = 4
    NewSizes = {8}
    MaxCqes = 6
    PollBatch = 2
    AllocFailures = FALSE
    ResizeRejects = FALSE
    Kinds = {"user"}
    UserFailures = TRUE
    MaxResizes = 3
SPECIFICATION Spec
PROPERTIES
    AllCqesDelivered
