SPECIFICATION FairSpec
CONSTANTS
    c1 = c1
    c2 = c2
    c3 = c3
    Calls <- TwoCalls
    Operations <- Waits
    Configs <- UsualConfig
    SocketInitMayFail = FALSE
    FlushAttempts = 2
    MaxRuns = 1
INVARIANT NoCallLeftBehind
PROPERTIES ServiceSpec EveryCallAnswered
CHECK_DEADLOCK FALSE
