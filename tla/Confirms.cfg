SPECIFICATION FairSpec
CONSTANTS
    p1 = p1
    p2 = p2
    p3 = p3
    Publishes <- ThreePublishes
    Confirmed <- MCConfirmed
    Mandatory <- MCMandatory
    Alike <- ThreeDifferent
    MaxConnections = 2
INVARIANTS ConfirmsAgree ReceiptIsTrue
PROPERTIES EveryPublishSettles
CHECK_DEADLOCK FALSE
