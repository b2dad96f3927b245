SPECIFICATION Spec
CONSTANTS
    c1 = c1
    c2 = c2
    c3 = c3
    Calls <- TwoCalls
    Operations <- AllOperations
    Configs <- BothConfigs
    SocketInitMayFail = TRUE
    FlushAttempts = 2
    MaxRuns = 2
SYMMETRY Symmetry
INVARIANTS TypeOK NoOrphanedCall RepliesBelongToConnection StopIsObserved
PROPERTIES LegalStateMoves
CHECK_DEADLOCK FALSE
