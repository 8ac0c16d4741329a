SPECIFICATION FairSpec
CONSTANTS
    Adapters = {"a1"}
    MaxVisas = 0
    MaxCommands = 2
    MaxEvents = 1
PROPERTY ReconnectsWhenLost
CHECK_DEADLOCK FALSE
