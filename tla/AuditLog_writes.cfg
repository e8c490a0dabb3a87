\* Prunes, a crash, a shutdown or a full disk between the writes.
SPECIFICATION FairSpec
CONSTANTS
    NumQueries = 3
    Slots = 2
    Threads = 2
    Retention = 1
    MaxClock = 2
    MaxFaults = 1
INVARIANTS
    TypeOK
    WritersBounded
    WrittenOnce
    PruneKeepsSettled
PROPERTIES
    EventuallyRecorded
CHECK_DEADLOCK FALSE
