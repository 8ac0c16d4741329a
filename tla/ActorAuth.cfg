SPECIFICATION FairSpec
CONSTANTS
    TxnIds = {t1, t2}
    Addrs = {a1, a2}
    MaxSessions = 2
    MaxAttempts = 3
    MaxFailures = 1
INVARIANTS AgreedAddress NoOrphanedRegistration NoProtocolErrors
PROPERTIES DenialIsFinal AttemptsEnd
CHECK_DEADLOCK FALSE
