SPECIFICATION FairSpec
CONSTANTS
    m1 = m1
    m2 = m2
    m3 = m3
    Messages <- GoodAndBad
    Malformed <- OneMalformed
    Prefetch = 2
    MaxConnections = 2
    MaxDeliveries = 3
INVARIANTS DeliveriesAgree
PROPERTIES StopKeepsAcks EverySlotIsFreed StopCompletes
CHECK_DEADLOCK FALSE
