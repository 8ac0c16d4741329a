SPECIFICATION Spec
CONSTANTS
    RetryMax = 0
    Futures = {f1, f2, f3}
    Window = 2
    RetryLimits = {0}
    Calls = {"try_cancel", "request_cancel", "limit_retries", "enqueue", "drop"}
INVARIANT NoPanic
CHECK_DEADLOCK FALSE
