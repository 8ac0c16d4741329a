SPECIFICATION FairSpec
CONSTANTS
    RetryMax = 0
    Window = 2
    Bits = 3
    QueueSize = 1
    RetryLimits = {0}
    MaxSeq = 2
    MaxQueued = 1
    MayCancel = TRUE
    Lossy = TRUE
PROPERTY
    EventuallyAnswered
    UnblockedUnlessCanceled
CHECK_DEADLOCK FALSE
