SPECIFICATION Spec
CONSTANTS
    m1 = m1
    m2 = m2
    m3 = m3
    Messages <- TwoMessages
    Malformed <- NoneMalformed
    Prefetch = 2
    MaxConnections = 2
    MaxDeliveries = 2
INVARIANTS SettledByOwnDecision
CHECK_DEADLOCK FALSE
