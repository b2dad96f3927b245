SPECIFICATION ControlFairSpec
CONSTANTS
    k1 = k1
    k2 = k2
    Boot = Boot
    NConsumers = 3
    AutoStart <- Auto
    WithQos <- Qos
    NExchanges = 1
    NQueues = 1
    NBindings = 0
    Confirms = TRUE
    Calls <- TwoCalls
    Target <- OwnConsumers
    MaxCalls = 4
    MaxFaults = 2
    MaxFlight = 2
INVARIANT ControlAgrees
PROPERTIES NoDeliveryAfterStop ComesBack
