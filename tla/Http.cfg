SPECIFICATION FairSpec
CONSTANTS
    r1 = r1
    r2 = r2
    model = model
    Roles <- AnyRole
    Routes <- OneRoute
    Requests <- TwoRequests
    MaxThrows = 2
    CounterMax = 15
INVARIANTS ServerAgrees ActiveIsInFlight
PROPERTIES CallsReturn
