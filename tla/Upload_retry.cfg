\* Two SDK callers on one worker, with a fault anywhere.
SPECIFICATION FairSpec
CONSTANTS
    a = a
    b = b
    locked = locked
    dot = dot
    Names = {a, b, locked, dot}
    Poison = {locked}
    Clients = {c1, c2}
    Workers = {w1}
    Folders <- SomeFolders
    MaxFaults = 1
    Nobody = Nobody
INVARIANTS
    StoredStays
    IngestMeansAll
PROPERTIES
    EventuallyIngested
CHECK_DEADLOCK FALSE
