\* Two connections, bodies around the limit, four ways to put the service together.
SPECIFICATION FairSpec
CONSTANTS
    Conns = {a, b}
    Requests <- SomeRequests
    Setups <- SomeSetups
    Burst = 1
    Cap = 2
    Nobody = Nobody
INVARIANTS
    OneResponse
    CapHeld
    Accounted
PROPERTIES
    EventuallyOver
