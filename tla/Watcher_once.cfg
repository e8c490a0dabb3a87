\* The watcher by itself, and a file that is saved twice.
SPECIFICATION WatchFairSpec
CONSTANTS
    NumFiles = 1
    Workers = {}
    Reindexers = {watch}
    Observer = watch
    MaxVersion = 2
    MaxFaults = 0
    MaxEvents = 2
    ChunkCount <- TwoContents
    Unreadable = {}
    Raising = {}
    Doubled = {}
    AllowRestore = FALSE
PROPERTIES
    EventuallyIndexed
CHECK_DEADLOCK FALSE
