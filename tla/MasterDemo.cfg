SPECIFICATION AnsweringSpec
CONSTANTS
    NTasks = 2
    NWorkers = 2
    MaxRuns = 2
    MaxDeaths = 1
INVARIANTS NothingIsLeftOver WorkerOutlivesPointer
PROPERTY RunEnds
CHECK_DEADLOCK FALSE
