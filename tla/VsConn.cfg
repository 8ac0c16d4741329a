SPECIFICATION FairSpec
CONSTANTS
    Adapters = {"a1"}
    MaxVisas = 2
    MaxCommands = 2
    MaxEvents = 2
INVARIANTS SyncedWhenServing NoRevocationLost
PROPERTY EventuallyServing
CHECK_DEADLOCK FALSE
