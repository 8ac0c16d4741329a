SPECIFICATION FairSpec
CONSTANTS
    MaxClock = 9
    MaxEvents = 2
INVARIANTS ReadyIsSound NothingHeldWhenDown
PROPERTY CloseCompletes
CHECK_DEADLOCK FALSE
