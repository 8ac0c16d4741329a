SPECIFICATION Spec
CONSTANTS
    Adapters = {"a1"}
    MaxVisas = 1
    MaxCommands = 2
    MaxEvents = 1
INVARIANT RevocationsTakeEffect
CHECK_DEADLOCK FALSE
