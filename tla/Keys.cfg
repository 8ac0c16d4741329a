CHECK_DEADLOCK FALSE
CONSTANTS
    Certs = {"verified", "unverified", "none", "mismatch"}
    Authority = TRUE
    QueueSize = 2
    MaxFaults = 1
    MaxCloses = 1
    MaxDraws = 16
    MaxAgain = 5
SPECIFICATION FairSpec
INVARIANTS KeysAgree KeyedIsSound
PROPERTY EventuallyUp
