\* Three clients, a map that is swept from its second key on.
SPECIFICATION Spec
CONSTANTS
    Keys = {a, b, c}
    Rate = 2
    Unit = 3
    Burst = 2
    Ttl = 3
    MapLimit = 1
    Second = 2
    MaxClock = 7
INVARIANTS
    TypeOK
    RetryHonest
    SweptWhenFull
PROPERTIES
    PolicySpec
    NeverAhead
SYMMETRY Clients
