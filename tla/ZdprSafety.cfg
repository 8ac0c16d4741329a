SPECIFICATION Spec
CONSTANTS
    RetryMax = 1
    Window = 2
    Bits = 3
    QueueSize = 1
    RetryLimits = {1}
    MaxSeq = 4
    MaxQueued = 2
    MayCancel = TRUE
    Lossy = FALSE
INVARIANTS
    TypeOK
    AtMostOnce
    ReportsAreTrue
    WindowCoversUndecided
    OutstandingIsAcceptable
    RetryIsScheduled
PROPERTY
    ServiceSpec
CHECK_DEADLOCK FALSE
