SPECIFICATION FairSpec
CONSTANTS
    w1 = w1
    w2 = w2
    o1 = o1
    Idle = Idle
    Exited = Exited
    Client = Client
    Threads <- TwoThreads
    Observers <- OneObserver
    MaxStarts = 2
    MaxMoves = 2
    MaxCalls = 2
INVARIANTS EventsAccounted StopIsComplete
PROPERTIES InlineOnlyWhenStopping CallsReturn
CHECK_DEADLOCK FALSE
