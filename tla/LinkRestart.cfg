SPECIFICATION RestartSpec
CONSTANTS
    RetryMax = 1
    Window = 2
    Bits = 3
    QueueSize = 1
    RetryLimits = {1}
    MaxSeq = 3
    MaxQueued = 1
    MayCancel = FALSE
    Lossy = TRUE
    MaxLinks = 2
INVARIANT AckedIsTaken
CHECK_DEADLOCK FALSE
