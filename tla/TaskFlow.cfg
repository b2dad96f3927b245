SPECIFICATION FairSpec
CONSTANTS
    s1 = s1
    g1 = g1
    w1 = w1
    w2 = w2
    TaskCount = 2
    Stale <- OneStale
    Garbled <- OneGarbled
    Workers <- TwoWorkers
    MaxFaults = 1
    MaxDeliveries = 2
    Configs <- SmallRuns
    Capacity = 1
    HasTimeout = TRUE
    SendsShutdown = TRUE
INVARIANTS ReportAgrees SuccessIsTrue NothingLeftBehind SettledHasResult
PROPERTIES EveryProcessEnds
CHECK_DEADLOCK FALSE
