SPECIFICATION FairCallersSpec
CONSTANTS
    RetryMax = 1
    Window = 2
    Bits = 3
    QueueSize = 1
    RetryLimits = {0}
    MaxSeq = 2
    MaxQueued = 1
    MayCancel = TRUE
    Lossy = TRUE
PROPERTY
    EventuallyUnblocked
CHECK_DEADLOCK FALSE
