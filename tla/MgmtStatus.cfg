SPECIFICATION Spec
CONSTANTS
    RetryMax = 0
    Futures = {f1, f2, f3}
    Window = 2
    RetryLimits = {0}
    Calls = {"limit_retries"}
INVARIANT AckedMeansTaken
CHECK_DEADLOCK FALSE
