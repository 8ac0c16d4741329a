SPECIFICATION Spec
CONSTANTS
    RetryMax = 1
    Window = 3
    Bits = 3
    QueueSize = 1
    RetryLimits = {1}
    MaxSeq = 4
    MaxQueued = 2
    MayCancel = TRUE
    Lossy = FALSE
INVARIANT AtMostOnce
CHECK_DEADLOCK FALSE
