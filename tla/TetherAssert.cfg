SPECIFICATION Spec
CONSTANTS
    a1 = a1
    a2 = a2
    Adapters = {a1, a2}
    Links = {1, 2}
    Flows <- MCFlows
    Policy <- MCPolicy
    TableSizes = {1, 2}
    TxnIds = 2
    MaxBinds = 2
    MaxVisas = 2
    MaxDowns = 1
    MaxPackets = 1
    MaxCancels = 1
INVARIANT NodeAssertionsHold
CHECK_DEADLOCK FALSE
