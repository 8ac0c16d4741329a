SPECIFICATION FairSpec
CONSTANTS
    IdCount = 3
    Tasks = {t1, t2}
    MaxHandles = 2
    MaxNotifying = 2
INVARIANTS RefcountExact NoMissedNotify
PROPERTIES NoSharedIds FreeIdWakes
CHECK_DEADLOCK FALSE
